---------------------------- MODULE SyncUserProofs ----------------------------
(***************************************************************************)
(* What holds of Sync under restrictions on what users and the operator    *)
(* do, for any number of clients, files, events and seconds:               *)
(*   - while nobody deletes and nothing crashes, only a directory that it  *)
(*     has asked for stops the server;                                     *)
(*   - for a user alone, under the same restrictions, the file_info array  *)
(*     is true, and a half-written file is being written;                  *)
(*   - for a user alone with one file the client never changes the file,   *)
(*     whatever crashes.                                                   *)
(* The three restrictions are Calm, Solo and OneFile; each comes with an   *)
(* invariant of its own, which is inductive together with IInv.            *)
(***************************************************************************)
EXTENDS SyncProofs

-----------------------------------------------------------------------------
(***************************************************************************)
(* Nobody deletes, no process is killed, and there is room for every       *)
(* client and every name.  The server may be started again.                *)
(***************************************************************************)
Calm ==
  /\ IsFiniteSet(Client) /\ Cardinality(Client) <= MaxClients
  /\ IsFiniteSet(EntryName) /\ Cardinality(EntryName) <= MaxFiles
  /\ Env \subseteq {"write", "collide", "backdate", "adminWrite", "reboot"}

Dated(folder) ==
  \A name \in FileName : folder[name] # Absent => folder[name].mtime > 0

\* The array has no hole and no duplicate, a blank entry was never used.
Compact(table) ==
  /\ \A i \in Slot : table[i].filename = NoName => table[i].mtime = 0
  /\ \A i, j \in Slot : i < j /\ table[j].filename # NoName =>
       table[i].filename \notin {NoName, table[j].filename}

\* Whatever the array of c names is in server_files/, or about to be; what the
\* server has found there, or announced, stays there.
Uploaded(c) ==
  /\ \A i \in Slot : files[c][i].filename # NoName =>
       \/ Exists(disk, files[c][i].filename)
       \/ phase[c] = "getfile" /\ upload[c].name = files[c][i].filename
  /\ phase[c] \in {"getfile", "writing", "stamp"} => upload[c].mtime > 0
  /\ phase[c] \in {"writing", "stamp"} \cup Giving =>
       Exists(disk, upload[c].name)
  /\ refresh[c].found => Exists(disk, RefreshName(c))

\* The client finds every file it knows, and knows a file more than once
\* only when the server has it.
Found(c) ==
  /\ \A name \in FileName :
       /\ known[c][name] > 0 => local[c][name] # Absent
       /\ known[c][name] > 1 => disk[name] # Absent
  /\ todo[c] \subseteq Present(local[c])
  /\ pc[c] \in {"ackSync", "recv", "recvNew"} =>
       Exists(local[c], cur[c].name) /\ cur[c].mtime > 0

\* A client reports no deletion, and leaves its session between two cycles, or
\* when the server is about to send it a directory.
Leaves(c) ==
  /\ pc[c] # "ackDel"
  /\ pc[c] = "off" => /\ toServer[c] = <<>>
                      /\ \/ phase[c] \in {"dead", "sync"}
                         \/ phase[c] = "give" /\ upload[c].name \in DirName

\* A response orders the removal of a file that is known once, or announces
\* a file that the server has.
Promises(c) ==
  LET header == Head(toClient[c])
  IN  /\ pc[c] = "ackSync" /\ toClient[c] # <<>> =>
           /\ header.mtime = Deleted => /\ header.filename \in FileName
                                        /\ known[c][header.filename] <= 1
           /\ header.mtime > cur[c].mtime => Exists(disk, header.filename)
      /\ pc[c] = "ackNew" /\ toClient[c] # <<>> /\ header.filename # NoName =>
           Exists(disk, header.filename) /\ header.mtime > 0

CalmAt(c) ==
  /\ Dated(local[c])
  /\ Compact(files[c])
  /\ Uploaded(c)
  /\ Found(c)
  /\ Leaves(c)
  /\ Promises(c)

CalmInv ==
  /\ Dated(disk)
  /\ \A c \in Client : CalmAt(c)

-----------------------------------------------------------------------------
(* What the operations on an array without holes do. *)

\* Taking the first entry that fits leaves no hole and no duplicate.
LEMMA RecordIsCompact ==
  ASSUME NEW table \in FileArray, Compact(table), NEW i \in Slot,
         NEW name \in EntryName, CheckFile(table, name, i), NEW t \in Nat
  PROVE  Compact(Record(table, i, name, t))
<1> DEFINE new == Record(table, i, name, t)
<1>1. /\ new[i] = [filename |-> name, mtime |-> t]
      /\ \A k \in Slot : k # i => new[k] = table[k]
  BY DEF Record, FileArray
<1>2. name # NoName /\ Slot \subseteq Nat
  BY FileTableAssumption DEF Slot
<1>3. \A k \in Slot : k < i => table[k].filename \notin {name, NoName}
  BY DEF CheckFile, Stops, Slot
<1>4. table[i].filename \in {name, NoName}
  BY DEF CheckFile, Stops
<1> HIDE DEF new
<1>5. ASSUME NEW k \in Slot, new[k].filename = NoName PROVE new[k].mtime = 0
  BY <1>1, <1>2, <1>5 DEF Compact
<1>6. ASSUME NEW k \in Slot, NEW j \in Slot, k < j, new[j].filename # NoName
      PROVE  new[k].filename \notin {NoName, new[j].filename}
  <2>1. CASE j = i
    BY <1>1, <1>2, <1>3, <1>6, <2>1
  <2>2. CASE j # i /\ k # i
    BY <1>1, <1>6, <2>2 DEF Compact
  <2>3. CASE k = i
    <3>1. table[j].filename # NoName /\ new[j] = table[j]
      <4>1. j # i
        BY <1>2, <1>6, <2>3
      <4> QED
        BY <1>1, <1>6, <4>1
    <3>2. table[i].filename \notin {NoName, table[j].filename}
      BY <1>6, <2>3, <3>1 DEF Compact
    <3> QED
      BY <1>1, <1>2, <1>4, <2>3, <3>1, <3>2
  <2> QED
    BY <2>1, <2>2, <2>3
<1> QED
  BY <1>5, <1>6 DEF Compact, new

\* Cleaning the entry that was taken last restores the array.
LEMMA CleanUndoes ==
  ASSUME NEW table \in FileArray, Compact(table), NEW i \in Slot,
         NEW name \in EntryName, table[i].filename = NoName,
         NEW len \in Nat, i <= len
  PROVE  Clean(Record(table, i, name, 0), len, i) = table
<1> DEFINE new == Record(table, i, name, 0)
<1>1. /\ new \in FileArray
      /\ new[i] = [filename |-> name, mtime |-> 0]
      /\ \A k \in Slot : k # i => new[k] = table[k]
  BY RecordIsTable DEF Record, FileArray
<1>2. \A k \in Slot : k >= i => table[k] = EmptySlot
  <2> TAKE k \in Slot
  <2> HAVE k >= i
  <2>1. table[k].filename = NoName
    BY DEF Compact, Slot
  <2>2. table[k].mtime = 0 /\ table[k] \in FileInfo
    BY <2>1 DEF Compact, FileArray
  <2> QED
    BY <2>1, <2>2 DEF FileInfo, EmptySlot
<1> HIDE DEF new
<1>3. i \in 1..len
  BY DEF Slot
<1>4. ASSUME NEW k \in Slot
      PROVE  table[k] =
               IF k = len THEN [filename |-> NoName, mtime |-> new[k].mtime]
               ELSE IF k \in i..(len-1) THEN At(new, k+1)
               ELSE new[k]
  <2>1. CASE k < i
    BY <1>1, <1>3, <2>1 DEF Slot
  <2>2. CASE k >= i /\ k = len
    <3>1. new[k].mtime = 0
      BY <1>1, <1>2, <2>2 DEF EmptySlot
    <3> QED
      BY <1>2, <2>2, <3>1 DEF EmptySlot
  <2>3. CASE k >= i /\ k < len
    <3>1. At(new, k+1) = EmptySlot
      BY <1>1, <1>2, <2>3 DEF At, Slot
    <3> QED
      BY <1>2, <2>3, <3>1 DEF Slot
  <2>4. CASE k > len
    BY <1>1, <1>3, <2>4 DEF Slot
  <2> QED
    BY <2>1, <2>2, <2>3, <2>4 DEF Slot
<1>5. table = [k \in Slot |-> table[k]]
  BY DEF FileArray
<1>6. Clean(new, len, i) = [k \in Slot |-> table[k]]
  BY <1>3, <1>4 DEF Clean
<1> QED
  BY <1>5, <1>6 DEF new

\* The refresh changes no name, and no entry that was never used.
LEMMA RefreshIsCompact ==
  ASSUME NEW table \in FileArray, Compact(table), NEW folder, NEW t,
         NEW i \in Slot, table[i].filename # NoName
  PROVE  /\ Compact(RefreshEntry(table, i, folder, t))
         /\ \A k \in Slot : RefreshEntry(table, i, folder, t)[k].filename
                              = table[k].filename
<1> DEFINE new == RefreshEntry(table, i, folder, t)
<1>1. ASSUME NEW k \in Slot
      PROVE  /\ new[k].filename = table[k].filename
             /\ table[k].filename = NoName => new[k] = table[k]
  <2>1. table[i] \in FileInfo
    BY DEF FileArray
  <2>2. new = table \/ \E time : new = [table EXCEPT ![i].mtime = time]
    BY DEF RefreshEntry
  <2> HIDE DEF new
  <2>3. ASSUME NEW time, new = [table EXCEPT ![i].mtime = time]
        PROVE  /\ new[k].filename = table[k].filename
               /\ table[k].filename = NoName => new[k] = table[k]
    <3>1. new[k] = IF k = i THEN [table[i] EXCEPT !.mtime = time] ELSE table[k]
      BY <2>3 DEF FileArray
    <3>2. [table[i] EXCEPT !.mtime = time].filename = table[i].filename
      BY <2>1 DEF FileInfo
    <3> QED
      BY <3>1, <3>2
  <2> QED
    BY <2>2, <2>3
<1> HIDE DEF new
<1> QED
  BY <1>1 DEF Compact, new

\* An array that holds a name in every entry holds all names that there are.
LEMMA RoomForName ==
  ASSUME Calm, NEW table \in FileArray, Compact(table), NEW name \in EntryName
  PROVE  ~ TableFull(table, name)
<1> SUFFICES ASSUME TableFull(table, name) PROVE FALSE
  OBVIOUS
<1> DEFINE Others == EntryName \ {name}
           Holds == [i \in Slot |-> table[i].filename]
<1>1. Holds \in [Slot -> Others]
  <2>1. \A i \in Slot : table[i].filename \notin {name, NoName}
    BY DEF TableFull, Stops
  <2> QED
    BY <2>1 DEF FileArray, FileInfo
<1>2. \A i, j \in Slot : Holds[i] = Holds[j] => i = j
  <2>1. \A i, j \in Slot : i < j => Holds[i] # Holds[j]
    BY DEF TableFull, Stops, Compact
  <2> QED
    BY <2>1 DEF Slot
<1>3. /\ IsFiniteSet(Others)
      /\ Cardinality(Others) = Cardinality(EntryName) - 1
      /\ Cardinality(EntryName) \in Nat
  BY FS_RemoveElement, FS_CardinalityType DEF Calm
<1>4. IsFiniteSet(Slot) /\ Cardinality(Slot) = MaxFiles
  BY FS_Interval, FileTableAssumption DEF Slot
<1>5. Cardinality(Others) < Cardinality(Slot)
  BY <1>3, <1>4, FileTableAssumption DEF Calm
<1> HIDE DEF Others, Holds
<1>6. \E i, j \in Slot : i # j /\ Holds[i] = Holds[j]
  BY <1>1, <1>3, <1>4, <1>5, FS_PigeonHole
<1> QED
  BY <1>2, <1>6

-----------------------------------------------------------------------------
(* Steps of the server while nobody deletes and nothing crashes. *)


\* Cutting a channel keeps what is read first.
LEMMA TrimKeepsHead ==
  ASSUME NEW s \in Seq(Message), Trim(s) # <<>>
  PROVE  s # <<>> /\ Head(Trim(s)) = Head(s)
<1>1. s # <<>>
  BY TrimShapes
<1>2. CASE Trim(s) # s
  <2> DEFINE n == Len(s) - 1
  <2>1. Trim(s) = SubSeq(s, 1, n) /\ SubSeq(s, 1, n) # <<>>
    BY <1>2 DEF Trim
  <2>2. n \in Nat /\ Len(s) = n + 1
    BY <1>1, LenProperties, SMT
  <2>3. \A k \in 1..n : s[k] \in Message
    BY <2>2, ElementOfSeq
  <2> HIDE DEF n
  <2>4. n # 0
    BY <2>1, SubSeqEmpty
  <2>5. SubSeq(s, 1, n) \in Seq(Message) /\ SubSeq(s, 1, n)[1] = s[1]
    BY <2>2, <2>3, <2>4, SubSeqProperties
  <2>6. Head(s) = s[1] /\ Head(SubSeq(s, 1, n)) = SubSeq(s, 1, n)[1]
    BY <1>1, <2>1, <2>5, HeadTailProperties
  <2> QED
    BY <1>1, <2>1, <2>5, <2>6
<1> QED
  BY <1>1, <1>2


-----------------------------------------------------------------------------
(* Steps of the server while nobody deletes and nothing crashes. *)

NothingGoes == \A name \in FileName : disk[name] # Absent => disk'[name] # Absent

SameCalm(c) ==
  /\ SameEnds(c)
  /\ files'[c] = files[c]
  /\ refresh'[c] = refresh[c]
  /\ local'[c] = local[c]
  /\ todo'[c] = todo[c]

\* A connection that a step leaves alone stays as it should be.
LEMMA CalmFrame ==
  ASSUME NEW c \in Client, CalmAt(c), SameCalm(c), NothingGoes
  PROVE  CalmAt(c)'
<1> USE DEF SameCalm, SameEnds
<1>1. Dated(local[c])' /\ Compact(files[c])'
  BY DEF CalmAt, Dated, Compact
<1>2. Uploaded(c)'
  BY DEF CalmAt, Uploaded, NothingGoes, Exists, RefreshName
<1>3. Found(c)'
  BY DEF CalmAt, Found, NothingGoes
<1>4. Leaves(c)'
  BY DEF CalmAt, Leaves
<1>5. Promises(c)'
  BY DEF CalmAt, Promises, NothingGoes, Exists
<1> QED
  BY <1>1, <1>2, <1>3, <1>4, <1>5 DEF CalmAt

\* The rest of the system after a step at c.
LEMMA CalmOthers ==
  ASSUME CalmInv, NEW c \in Client, CalmAt(c)',
         \A d \in Client \ {c} : SameCalm(d), NothingGoes, Dated(disk)'
  PROVE  CalmInv'
  BY CalmFrame DEF CalmInv

\* The server ends: its memory is empty, and what it sent may be cut.
LEMMA CalmDeath ==
  ASSUME TypeOK, CalmInv, ServerDies, UNCHANGED <<disk, clientVars, local>>
  PROVE  CalmInv'
<1> USE DEF clientVars
<1> SUFFICES ASSUME NEW c \in Client PROVE CalmAt(c)'
  BY DEF CalmInv, Dated
<1>1. /\ CalmAt(c)
      /\ phase'[c] = "dead" /\ refresh'[c] = NoRefresh
      /\ files'[c] = clear_files /\ upload'[c] = NoTransfer
      /\ toServer'[c] = <<>>
      /\ toClient'[c] \in {toClient[c], Trim(toClient[c])}
      /\ toClient[c] \in Seq(Message)
  BY DEF CalmInv, ServerDies, DiesHavingSent, SlotsReset, Everywhere, TypeOK
<1>2. Compact(files[c])' /\ Uploaded(c)'
  BY <1>1 DEF Compact, Uploaded, clear_files, EmptySlot, NoRefresh, Giving
<1>3. Dated(local[c])' /\ Found(c)' /\ Leaves(c)'
  BY <1>1 DEF CalmAt, Dated, Found, Leaves
<1>4. Promises(c)'
  <2>1. toClient'[c] # <<>> =>
          toClient[c] # <<>> /\ Head(toClient'[c]) = Head(toClient[c])
    BY <1>1, TrimKeepsHead
  <2> QED
    BY <1>1, <2>1 DEF CalmAt, Promises
<1> QED
  BY <1>2, <1>3, <1>4 DEF CalmAt

\* A request comes from a client that is there: it has walked to an entry, or
\* asks for new ones.
LEMMA CalmRequest ==
  ASSUME TypeOK, InStep, NEW c \in Client, CalmAt(c), Request(c)
  PROVE  /\ ClientEnd(c)
         /\ phase[c] = "sync"
         /\ refresh[c] = NoRefresh
         /\ upload[c] = NoTransfer
         /\ toClient[c] = <<>>
         /\ Named(c) => /\ pc[c] = "ackSync"
                        /\ Packet(c).filename \in EntryName
                        /\ Packet(c).filename = cur[c].name
                        /\ Packet(c).mtime = cur[c].mtime
                        /\ Packet(c).mtime \in Nat \ {0}
         /\ Packet(c).filename = NoName => pc[c] = "ackNew"
<1>1. InStepAt(c) /\ Remembers(c)
  BY DEF InStep, InStepAt
<1>2. /\ phase[c] = "sync"
      /\ refresh[c] = NoRefresh
      /\ toServer[c] # <<>>
  BY DEF Request
<1>3. ClientEnd(c)
  BY <1>2 DEF CalmAt, Leaves, ClientEnd
<1>4. /\ toClient[c] = <<>>
      /\ upload[c] = NoTransfer
      /\ pc[c] \in {"ackSync", "ackNew"}
      /\ Packet(c).filename = cur[c].name
      /\ Packet(c).mtime = cur[c].mtime
  BY <1>1, <1>3, RequestIsCurrent DEF CalmAt, Leaves, Waiting
<1>5. NoName \notin EntryName
  BY FileTableAssumption
<1>6. pc[c] = "ackSync" => /\ cur[c].name \in EntryName
                           /\ cur[c].mtime \in Nat \ {0}
  BY <1>1 DEF Remembers, CalmAt, Found
<1>7. pc[c] = "ackNew" => cur[c].name = NoName
  BY <1>1 DEF Remembers, NoTransfer
<1> QED
  BY <1>2, <1>3, <1>4, <1>5, <1>6, <1>7 DEF Named

\* The entry of a packet: its mtime is above zero only if the server has the
\* file.
Entered(c, i, t) ==
  /\ t \in Nat
  /\ Table(c, i, t) \in FileArray
  /\ Compact(Table(c, i, t))
  /\ Table(c, i, t)[i].filename = Packet(c).filename
  /\ Table(c, i, t)[i].mtime = t
  /\ \A k \in Slot : k # i => Table(c, i, t)[k] = files[c][k]
  /\ files[c][i].filename \in {NoName, Packet(c).filename}
  /\ ~ Exists(disk, Packet(c).filename) =>
       files[c][i].filename = NoName /\ t = 0

\* check_file and add_shared leave such an entry.
LEMMA CalmEntryTime ==
  ASSUME TypeOK, InStep, NEW c \in Client, CalmAt(c), Named(c),
         NEW i \in Slot, NEW t, Looked(c, i, t)
  PROVE  Entered(c, i, t)
<1>1. /\ Packet(c).filename \in EntryName
      /\ Packet(c).filename # NoName
      /\ phase[c] = "sync"
  BY CalmRequest, FileTableAssumption DEF Named
<1>2. files[c] \in FileArray /\ disk \in Folder /\ Compact(files[c])
  BY DEF TypeOK, CalmAt
<1>3. CheckFile(files[c], Packet(c).filename, i) /\ t \in EntryTime(c, i)
  BY DEF Looked
<1>4. t \in Nat
  BY <1>1, <1>3, EntryTimeIsTime
<1>5. /\ Table(c, i, t) \in FileArray
      /\ Compact(Table(c, i, t))
  BY <1>1, <1>2, <1>3, <1>4, RecordIsTable, RecordIsCompact DEF Table
<1>6. /\ Table(c, i, t)[i].filename = Packet(c).filename
      /\ Table(c, i, t)[i].mtime = t
      /\ \A k \in Slot : k # i => Table(c, i, t)[k] = files[c][k]
  BY <1>2 DEF Table, Record, FileArray
<1>7. files[c][i].filename \in {NoName, Packet(c).filename}
  BY <1>3 DEF CheckFile, Stops
<1>8. ASSUME ~ Exists(disk, Packet(c).filename)
      PROVE  files[c][i].filename = NoName /\ t = 0
  <2>1. files[c][i].filename # Packet(c).filename
    BY <1>1, <1>8 DEF CalmAt, Uploaded
  <2>2. t = files[c][i].mtime
    BY <1>1, <1>3, <1>8 DEF EntryTime, OnDisk
  <2> QED
    BY <1>2, <1>7, <2>1, <2>2 DEF Compact
<1> QED
  BY <1>4, <1>5, <1>6, <1>7, <1>8 DEF Entered

\* The answer to a request is what the client is going to read.
Answers(c, name, mtime) ==
  /\ toClient'[c] # <<>>
  /\ Head(toClient'[c]).filename = name
  /\ Head(toClient'[c]).mtime = mtime
  /\ \A d \in Client \ {c} : toClient'[d] = toClient[d]

\* A response is an answer.
LEMMA AnswerIsRead ==
  ASSUME TypeOK, InStep, NEW c \in Client, CalmAt(c), Request(c),
         NEW name \in EntryName \cup {NoName}, NEW mtime \in MTimes,
         Respond(c, Header(name, mtime))
  PROVE  Answers(c, name, mtime)
<1> DEFINE header == Header(name, mtime)
<1>1. /\ header \in Message
      /\ header.filename = name
      /\ header.mtime = mtime
  BY HeaderIsMessage
<1>2. ClientEnd(c) /\ toClient[c] = <<>>
  BY CalmRequest
<1> HIDE DEF header
<1>3. toClient'[c] = <<header>>
  BY <1>1, <1>2, OneMessage DEF Respond, Sent, TypeOK, header
<1>4. \A d \in Client \ {c} : toClient'[d] = toClient[d]
  BY DEF Respond, Sent, TypeOK
<1> QED
  BY <1>1, <1>3, <1>4, OneMessage DEF Answers

\* What an answer has to keep.
LEMMA AnswerIsCalm ==
  ASSUME TypeOK, InStep, CalmInv, NEW c \in Client, Request(c),
         Consume(c), UNCHANGED <<disk, clientVars, local>>,
         \A d \in Client \ {c} : /\ phase'[d] = phase[d]
                                 /\ upload'[d] = upload[d]
                                 /\ files'[d] = files[d]
                                 /\ refresh'[d] = refresh[d]
                                 /\ toClient'[d] = toClient[d],
         Compact(files[c])', Uploaded(c)', Promises(c)'
  PROVE  CalmInv'
<1>1. CalmAt(c) /\ ClientEnd(c)
  BY CalmRequest DEF CalmInv
<1>2. /\ Dated(local[c])'
      /\ Found(c)'
  BY <1>1 DEF CalmAt, Found, Dated, clientVars
<1>3. Leaves(c)'
  BY <1>1 DEF CalmAt, Leaves, clientVars, ClientEnd
<1>4. \A d \in Client \ {c} : SameCalm(d)
  BY DEF SameCalm, SameEnds, Consume, clientVars, TypeOK
<1>5. NothingGoes
  BY DEF NothingGoes
<1> QED
  BY <1>2, <1>3, <1>4, <1>5, CalmOthers DEF CalmAt, CalmInv, Dated

\* Of the entries that name files of the user, only the new one can name a file
\* that is missing; cleaning it restores the array.
Restored(c, i, t, j) ==
  /\ j = i /\ i <= fileLength[c]
  /\ At(Table(c, i, t), j).filename = Packet(c).filename
  /\ ~ Exists(disk, Packet(c).filename)
  /\ files[c][i].filename = NoName
  /\ Clean(Table(c, i, t), fileLength[c], j) = files[c]

\* That is what the search for missing files finds.
LEMMA MissingIsNew ==
  ASSUME TypeOK, InStep, NEW c \in Client, CalmAt(c), Named(c),
         NEW i \in Slot, NEW t, NEW j \in 1..fileLength[c], Looked(c, i, t),
         FirstMissing(Table(c, i, t), fileLength[c], disk, j)
  PROVE  Restored(c, i, t, j)
<1> DEFINE name == Packet(c).filename
<1>1. /\ files[c] \in FileArray /\ fileLength[c] \in Nat
      /\ Compact(files[c]) /\ Uploaded(c)
      /\ NoName \notin EntryName
  BY FileTableAssumption DEF TypeOK, CalmAt
<1>2. name \in EntryName /\ phase[c] = "sync"
  BY CalmRequest DEF Named
<1>3. Entered(c, i, t)
  BY CalmEntryTime
<1>4. ~ Exists(disk, At(Table(c, i, t), j).filename)
  BY DEF FirstMissing, Missing
<1>5. j \in Slot
  BY <1>1, <1>4 DEF At, Exists, EmptySlot, EntryName
<1>6. /\ Table(c, i, t)[j].filename # NoName
      /\ ~ Exists(disk, Table(c, i, t)[j].filename)
  BY <1>1, <1>4, <1>5 DEF At, Exists, EntryName
<1>7. j = i
  <2>1. SUFFICES ASSUME j # i PROVE FALSE
    OBVIOUS
  <2>2. Table(c, i, t)[j] = files[c][j]
    BY <1>3, <1>5, <2>1 DEF Entered
  <2> QED
    BY <1>1, <1>2, <1>5, <1>6, <2>2 DEF Uploaded
<1> HIDE DEF name
<1>8. Table(c, i, t)[i].filename = name
  BY <1>3 DEF Entered, name
<1>9. ~ Exists(disk, name)
  BY <1>6, <1>7, <1>8
<1>10. files[c][i].filename = NoName /\ t = 0
  BY <1>3, <1>9 DEF Entered, name
<1>11. Clean(Table(c, i, t), fileLength[c], j) = files[c]
  <2>1. Table(c, i, t) = Record(files[c], i, name, 0)
    BY <1>10 DEF Table, name
  <2> QED
    BY <1>1, <1>2, <1>7, <1>10, <2>1, CleanUndoes
<1> QED
  BY <1>5, <1>7, <1>8, <1>9, <1>10, <1>11 DEF Restored, At, name

\* Requests.
LEMMA CalmPacket ==
  ASSUME TypeOK, InStep, CalmInv, NEW c \in Client,
         UNCHANGED <<envVars, clientVars, local>>
  PROVE  /\ SendNewFile(c) => CalmInv'
         /\ NoNewFile(c) => CalmInv'
         /\ NotifyDeleted(c) => CalmInv'
         /\ AskForFile(c) => CalmInv'
         /\ SendNewer(c) => CalmInv'
         /\ AlreadyInSync(c) => CalmInv'
<1> DEFINE name == Packet(c).filename
<1>1. /\ CalmAt(c) /\ Dated(disk) /\ disk \in Folder
      /\ files[c] \in FileArray /\ Compact(files[c]) /\ Uploaded(c)
      /\ NoName \notin EntryName /\ FileName \subseteq EntryName
  BY FileTableAssumption DEF CalmInv, CalmAt, TypeOK, EntryName
<1>2. pc' = pc /\ cur' = cur /\ known' = known
  BY DEF clientVars
<1>3. ASSUME SendNewFile(c) PROVE CalmInv'
  <2>1. PICK new \in FileName, i \in Slot :
          /\ Unknown(c, new)
          /\ CheckFile(files[c], new, i)
          /\ Announce(c, "giveNew", Header(new, disk[new].mtime))
          /\ files' = [files EXCEPT
                         ![c] = Record(@, i, new, disk[new].mtime)]
    BY <1>3 DEF SendNewFile
  <2>2. /\ Exists(disk, new) /\ disk[new] # Absent
        /\ disk[new].mtime \in Nat \ {0} /\ disk[new].mtime \in MTimes
    BY <1>1, <2>1, FileInFolder DEF Unknown, Exists, Dated, MTimes
  <2>3. /\ Request(c) /\ Consume(c)
        /\ Packet(c).filename = NoName
        /\ UNCHANGED <<disk, refresh>>
    BY <1>3 DEF SendNewFile
  <2>4. /\ phase[c] = "sync" /\ pc[c] = "ackNew" /\ refresh[c] = NoRefresh
    BY <1>1, <2>3, CalmRequest
  <2>5. files'[c] = Record(files[c], i, new, disk[new].mtime)
    BY <2>1 DEF TypeOK
  <2>6. Compact(files[c])'
    BY <1>1, <2>1, <2>2, <2>5, RecordIsCompact
  <2>7. /\ Respond(c, Header(new, disk[new].mtime))
        /\ phase'[c] = "giveNew" /\ upload'[c].name = new
        /\ \A d \in Client \ {c} : /\ phase'[d] = phase[d]
                                   /\ upload'[d] = upload[d]
                                   /\ toClient'[d] = toClient[d]
    BY <1>1, <2>1, <2>2, Announced DEF Giving
  <2>8. Uploaded(c)'
    <3>1. \A k \in Slot : \/ files'[c][k] = files[c][k]
                          \/ files'[c][k].filename = new
      BY <1>1, <2>5 DEF Record, FileArray
    <3> QED
      BY <1>1, <2>2, <2>3, <2>4, <2>7, <3>1 DEF Uploaded, NoRefresh
  <2>9. /\ Head(toClient'[c]).filename = new
        /\ Head(toClient'[c]).mtime = disk[new].mtime
    BY <1>1, <2>2, <2>3, <2>7, AnswerIsRead DEF Answers
  <2>10. Promises(c)'
    BY <1>2, <2>2, <2>3, <2>4, <2>9 DEF Promises
  <2>11. \A d \in Client \ {c} : files'[d] = files[d] /\ refresh'[d] = refresh[d]
    BY <2>1, <2>3 DEF TypeOK
  <2> QED
    BY <2>3, <2>6, <2>7, <2>8, <2>10, <2>11, AnswerIsCalm
<1>4. ASSUME NoNewFile(c) PROVE CalmInv'
  <2>1. /\ Request(c) /\ Consume(c)
        /\ Packet(c).filename = NoName
        /\ Respond(c, Header(NoName, 0))
        /\ refresh' = [refresh EXCEPT ![c].entry = 1]
        /\ UNCHANGED <<disk, phase, files, upload>>
    BY <1>4 DEF NoNewFile
  <2>2. pc[c] = "ackNew" /\ refresh[c] = NoRefresh
    BY <1>1, <2>1, CalmRequest
  <2>3. /\ Head(toClient'[c]).filename = NoName
        /\ \A d \in Client \ {c} : toClient'[d] = toClient[d]
    BY <1>1, <2>1, AnswerIsRead DEF MTimes, Answers
  <2>4. Promises(c)'
    BY <1>2, <2>2, <2>3 DEF Promises
  <2>5. Compact(files[c])' /\ Uploaded(c)'
    BY <1>1, <2>1, <2>2 DEF Uploaded, NoRefresh, TypeOK
  <2>6. \A d \in Client \ {c} : refresh'[d] = refresh[d]
    BY <2>1 DEF TypeOK
  <2> QED
    BY <2>1, <2>3, <2>4, <2>5, <2>6, AnswerIsCalm
\* the answer to a packet of the walk
<1>5. ASSUME Named(c)
      PROVE  /\ Request(c)
             /\ phase[c] = "sync"
             /\ refresh[c] = NoRefresh
             /\ pc[c] = "ackSync"
             /\ name \in EntryName
             /\ name = cur[c].name
             /\ Packet(c).mtime = cur[c].mtime
             /\ Packet(c).mtime \in Nat \ {0}
  BY <1>1, <1>5, CalmRequest DEF Named
<1>6. ASSUME NotifyDeleted(c) PROVE CalmInv'
  <2>1. PICK i \in Slot : \E t \in EntryTime(c, i), j \in 1..fileLength[c] :
          /\ Looked(c, i, t)
          /\ FirstMissing(Table(c, i, t), fileLength[c], disk, j)
          /\ Respond(c, Header(At(Table(c, i, t), j).filename, Deleted))
          /\ files' = [files EXCEPT
                         ![c] = Clean(Table(c, i, t), fileLength[c], j)]
    BY <1>6 DEF NotifyDeleted
  <2>2. PICK t \in EntryTime(c, i), j \in 1..fileLength[c] :
          /\ Looked(c, i, t)
          /\ FirstMissing(Table(c, i, t), fileLength[c], disk, j)
          /\ Respond(c, Header(At(Table(c, i, t), j).filename, Deleted))
          /\ files' = [files EXCEPT
                         ![c] = Clean(Table(c, i, t), fileLength[c], j)]
    BY <2>1
  <2>3. /\ Named(c) /\ Consume(c)
        /\ UNCHANGED <<disk, phase, refresh, upload>>
    BY <1>6 DEF NotifyDeleted
  <2>4. fileLength[c] \in Nat
    BY DEF TypeOK
  <2> HIDE DEF name
  <2>5. Restored(c, i, t, j)
    BY <1>1, <2>2, <2>3, MissingIsNew
  <2>6. /\ files'[c] = files[c]
        /\ name \in FileName /\ disk[name] = Absent
    BY <2>2, <2>5 DEF TypeOK, Restored, name, Exists
  <2>7. Compact(files[c])' /\ Uploaded(c)'
    BY <1>1, <2>3, <2>6 DEF Uploaded, RefreshName
  <2>8. At(Table(c, i, t), j).filename = name
    BY <2>5 DEF Restored, name
  <2>9. /\ Head(toClient'[c]).filename = name
        /\ Head(toClient'[c]).mtime = Deleted
        /\ \A d \in Client \ {c} : toClient'[d] = toClient[d]
    <3>1. /\ Respond(c, Header(name, Deleted)) /\ Request(c)
          /\ name \in EntryName \cup {NoName} /\ Deleted \in MTimes
      BY <1>5, <2>2, <2>3, <2>8 DEF MTimes, name
    <3>2. Answers(c, name, Deleted)
      BY <1>1, <3>1, AnswerIsRead
    <3> QED
      BY <3>2 DEF Answers
  <2>10. known[c][name] <= 1
    <3>1. known[c][name] \in Nat
      BY <1>1, <2>6 DEF TypeOK
    <3> QED
      BY <1>1, <2>6, <3>1 DEF CalmAt, Found
  <2>11. Promises(c)'
    <3>1. ~ (Deleted > cur[c].mtime)
      BY <1>5, <2>3 DEF Deleted
    <3> QED
      BY <1>2, <1>5, <2>3, <2>6, <2>9, <2>10, <3>1 DEF Promises
  <2>12. \A d \in Client \ {c} : files'[d] = files[d]
    BY <2>2 DEF TypeOK
  <2> QED
    BY <1>5, <2>3, <2>7, <2>9, <2>11, <2>12, AnswerIsCalm
<1>7. ASSUME AskForFile(c) PROVE CalmInv'
  <2>1. PICK i \in Slot : \E t \in EntryTime(c, i) :
          /\ Answered(c, i, t)
          /\ Packet(c).mtime > t
          /\ Respond(c, Header(name, t))
          /\ files' = [files EXCEPT ![c] = Table(c, i, Packet(c).mtime)]
    BY <1>7 DEF AskForFile
  <2>2. PICK t \in EntryTime(c, i) :
          /\ Looked(c, i, t)
          /\ Packet(c).mtime > t
          /\ Respond(c, Header(name, t))
          /\ files' = [files EXCEPT ![c] = Table(c, i, Packet(c).mtime)]
    BY <2>1 DEF Answered
  <2>3. /\ Named(c) /\ Consume(c)
        /\ phase' = [phase EXCEPT ![c] = "getfile"]
        /\ upload' = [upload EXCEPT ![c] = [name |-> name,
                                            mtime |-> Packet(c).mtime,
                                            link |-> "gone"]]
        /\ UNCHANGED <<disk, refresh>>
    BY <1>7 DEF AskForFile
  <2>4. /\ phase'[c] = "getfile"
        /\ upload'[c].name = name
        /\ upload'[c].mtime = Packet(c).mtime
        /\ files'[c] = Record(files[c], i, name, Packet(c).mtime)
    BY <2>2, <2>3 DEF TypeOK, Table
  <2>5. Compact(files[c])'
    BY <1>1, <1>5, <2>2, <2>3, <2>4, RecordIsCompact DEF Looked
  <2>6. Uploaded(c)'
    <3>1. \A k \in Slot : \/ files'[c][k] = files[c][k]
                          \/ files'[c][k].filename = name
      BY <1>1, <2>4 DEF Record, FileArray
    <3>2. /\ \A k \in Slot : files[c][k].filename # NoName =>
               Exists(disk, files[c][k].filename)
          /\ ~ refresh'[c].found
      BY <1>1, <1>5, <2>3 DEF Uploaded, NoRefresh
    <3>3. \A k \in Slot : files'[c][k].filename # NoName =>
            \/ Exists(disk', files'[c][k].filename)
            \/ phase'[c] = "getfile" /\ upload'[c].name = files'[c][k].filename
      BY <2>3, <2>4, <3>1, <3>2
    <3> QED
      BY <1>5, <2>3, <2>4, <3>2, <3>3 DEF Uploaded, Giving
  <2>7. t \in Nat
    BY <1>1, <2>2, <2>3, CalmEntryTime DEF Entered
  <2>8. /\ Head(toClient'[c]).filename = name
        /\ Head(toClient'[c]).mtime = t
        /\ \A d \in Client \ {c} : toClient'[d] = toClient[d]
    BY <1>1, <1>5, <2>2, <2>3, <2>7, AnswerIsRead DEF MTimes, Answers
  <2>9. Promises(c)'
    BY <1>2, <1>5, <2>2, <2>3, <2>7, <2>8 DEF Promises, Deleted
  <2>10. \A d \in Client \ {c} : /\ files'[d] = files[d]
                                 /\ upload'[d] = upload[d]
                                 /\ phase'[d] = phase[d]
    BY <2>2, <2>3 DEF TypeOK
  <2> QED
    BY <1>5, <2>3, <2>5, <2>6, <2>8, <2>9, <2>10, AnswerIsCalm
\* an answer that leaves the entry with the mtime it was found with
<1>8. ASSUME NEW i \in Slot, NEW t \in EntryTime(c, i), Named(c), Consume(c),
             UNCHANGED <<disk, refresh>>, Looked(c, i, t), Exists(disk, name),
             files' = [files EXCEPT ![c] = Table(c, i, t)],
             Respond(c, Header(name, t)),
             \A d \in Client \ {c} : /\ phase'[d] = phase[d]
                                     /\ upload'[d] = upload[d],
             \/ phase'[c] = "sync" /\ upload'[c] = NoTransfer
             \/ phase'[c] = "give" /\ upload'[c].name = name
      PROVE  CalmInv'
  <2>6. /\ Compact(Table(c, i, t))
        /\ Table(c, i, t)[i].filename = name
        /\ \A k \in Slot : k # i => Table(c, i, t)[k] = files[c][k]
        /\ t \in Nat
    <3>1. Entered(c, i, t)
      BY <1>1, <1>8, CalmEntryTime
    <3> QED
      BY <3>1 DEF Entered
  <2>1. /\ Compact(files[c])'
        /\ \A k \in Slot : \/ files'[c][k] = files[c][k]
                           \/ files'[c][k].filename = name
        /\ t \in Nat
    BY <1>8, <2>6 DEF TypeOK
  <2>2. Uploaded(c)'
    <3>1. /\ \A k \in Slot : files[c][k].filename # NoName =>
               Exists(disk, files[c][k].filename)
          /\ ~ refresh'[c].found
      BY <1>1, <1>5, <1>8 DEF Uploaded, NoRefresh
    <3>2. \A k \in Slot : files'[c][k].filename # NoName =>
            Exists(disk', files'[c][k].filename)
      BY <1>8, <2>1, <3>1
    <3> QED
      BY <1>8, <3>1, <3>2 DEF Uploaded, Giving
  <2>3. /\ Head(toClient'[c]).filename = name
        /\ Head(toClient'[c]).mtime = t
        /\ \A d \in Client \ {c} : toClient'[d] = toClient[d]
    BY <1>1, <1>5, <1>8, <2>1, AnswerIsRead DEF MTimes, Answers
  <2>4. Promises(c)'
    BY <1>2, <1>5, <1>8, <2>1, <2>3 DEF Promises, Deleted
  <2>5. \A d \in Client \ {c} : files'[d] = files[d] /\ refresh'[d] = refresh[d]
    BY <1>8 DEF TypeOK
  <2> QED
    BY <1>5, <1>8, <2>1, <2>2, <2>3, <2>4, <2>5, AnswerIsCalm
\* an entry with an mtime above zero is that of a file the server has
<1>11. ASSUME NEW i \in Slot, NEW t \in EntryTime(c, i), Named(c),
              Looked(c, i, t), t > 0
       PROVE  Exists(disk, name) /\ t \in MTimes
  <2>1. Entered(c, i, t)
    BY <1>1, <1>11, CalmEntryTime
  <2> QED
    BY <1>11, <2>1 DEF Entered, MTimes
<1>9. ASSUME SendNewer(c) PROVE CalmInv'
  <2>1. PICK i \in Slot : \E t \in EntryTime(c, i) :
          /\ Answered(c, i, t)
          /\ Packet(c).mtime \in 0..(t-1)
          /\ Announce(c, "give", Header(name, t))
          /\ files' = [files EXCEPT ![c] = Table(c, i, t)]
    BY <1>9 DEF SendNewer
  <2>2. PICK t \in EntryTime(c, i) :
          /\ Looked(c, i, t)
          /\ Packet(c).mtime \in 0..(t-1)
          /\ Announce(c, "give", Header(name, t))
          /\ files' = [files EXCEPT ![c] = Table(c, i, t)]
    BY <2>1 DEF Answered
  <2>3. Named(c) /\ Consume(c) /\ UNCHANGED <<disk, refresh>>
    BY <1>9 DEF SendNewer
  <2>4. t \in Nat
    BY <1>1, <2>2, <2>3, CalmEntryTime DEF Entered
  <2>5. Exists(disk, name) /\ t \in MTimes
    <3>1. t > 0
      BY <2>2, <2>4
    <3> QED
      BY <1>11, <2>2, <2>3, <3>1
  <2>6. /\ Respond(c, Header(name, t))
        /\ phase'[c] = "give" /\ upload'[c].name = name
        /\ \A d \in Client \ {c} : /\ phase'[d] = phase[d]
                                   /\ upload'[d] = upload[d]
    BY <1>5, <2>2, <2>3, <2>5, Announced DEF Giving
  <2> QED
    BY <1>8, <2>2, <2>3, <2>5, <2>6
<1>10. ASSUME AlreadyInSync(c) PROVE CalmInv'
  <2>1. PICK i \in Slot : \E t \in EntryTime(c, i) :
          /\ Answered(c, i, t)
          /\ Packet(c).mtime = t
          /\ Respond(c, Header(name, t))
          /\ files' = [files EXCEPT ![c] = Table(c, i, t)]
    BY <1>10 DEF AlreadyInSync
  <2>2. PICK t \in EntryTime(c, i) :
          /\ Looked(c, i, t)
          /\ Packet(c).mtime = t
          /\ Respond(c, Header(name, t))
          /\ files' = [files EXCEPT ![c] = Table(c, i, t)]
    BY <2>1 DEF Answered
  <2>3. /\ Named(c) /\ Consume(c)
        /\ UNCHANGED <<disk, phase, refresh, upload>>
    BY <1>10 DEF AlreadyInSync
  <2>4. Exists(disk, name)
    BY <1>5, <1>11, <2>2, <2>3
  <2>5. phase[c] = "sync" /\ upload[c] = NoTransfer
    BY <1>1, <2>3, CalmRequest DEF Named
  <2> QED
    BY <1>8, <2>2, <2>3, <2>4, <2>5
<1> QED
  BY <1>3, <1>4, <1>6, <1>7, <1>9, <1>10

\* A step that leaves what the client reads first as it is.
LEMMA QuietIsCalm ==
  ASSUME CalmInv, NEW c \in Client,
         UNCHANGED <<clientVars, local>>, NothingGoes, Dated(disk)',
         \A d \in Client \ {c} : /\ SameEnds(d) /\ files'[d] = files[d]
                                 /\ refresh'[d] = refresh[d],
         \/ toClient'[c] = toClient[c]
         \/ /\ toClient[c] # <<>>
            /\ Head(toClient'[c]) = Head(toClient[c])
         \/ pc[c] \in {"recv", "recvNew"},
         Compact(files[c])', Uploaded(c)', Leaves(c)'
  PROVE  CalmInv'
<1> USE DEF clientVars
<1>1. CalmAt(c)
  BY DEF CalmInv
<1>2. Dated(local[c])' /\ Found(c)'
  BY <1>1 DEF CalmAt, Found, Dated, NothingGoes
<1>3. Promises(c)'
  BY <1>1 DEF CalmAt, Promises, NothingGoes, Exists
<1>4. \A d \in Client \ {c} : SameCalm(d)
  BY DEF SameCalm
<1> QED
  BY <1>2, <1>3, <1>4, CalmOthers DEF CalmAt, CalmInv

\* The refresh, and the end of a session.
LEMMA CalmSync ==
  ASSUME TypeOK, CalmInv, NEW c \in Client,
         UNCHANGED <<envVars, clientVars, local>>
  PROVE  /\ RefreshFinds(c) \/ RefreshSkips(c) \/ RefreshDone(c) => CalmInv'
         /\ RefreshTakes(c) => CalmInv'
         /\ ClientGone(c) => CalmInv'
<1> USE DEF wireVars, clientVars
<1>1. /\ CalmAt(c) /\ Dated(disk)
      /\ files[c] \in FileArray /\ Compact(files[c]) /\ Uploaded(c) /\ Leaves(c)
  BY DEF CalmInv, CalmAt, TypeOK
<1>2. ASSUME RefreshFinds(c) \/ RefreshSkips(c) \/ RefreshDone(c) PROVE CalmInv'
  <2>1. UNCHANGED <<disk, phase, files, upload, toServer, toClient>>
    BY <1>2 DEF RefreshFinds, RefreshSkips, RefreshDone
  <2>2. refresh'[c].found => /\ Exists(disk, RefreshName(c))
                             /\ refresh'[c].entry = refresh[c].entry
    <3>1. refresh[c] \in RefreshState
      BY DEF TypeOK
    <3>2. CASE RefreshFinds(c)
      BY <3>1, <3>2 DEF RefreshFinds, RefreshState, TypeOK
    <3>3. CASE RefreshSkips(c)
      BY <3>3 DEF RefreshSkips, NextEntry, TypeOK
    <3>4. CASE RefreshDone(c)
      BY <3>4 DEF RefreshDone, NoRefresh, TypeOK
    <3> QED
      BY <1>2, <3>2, <3>3, <3>4
  <2>3. Uploaded(c)' /\ Leaves(c)'
    BY <1>1, <2>1, <2>2 DEF Uploaded, Leaves, RefreshName
  <2>4. \A d \in Client \ {c} : SameEnds(d) /\ refresh'[d] = refresh[d]
    BY <1>2, <2>1 DEF RefreshFinds, RefreshSkips, RefreshDone, NextEntry,
                     SameEnds, TypeOK
  <2> QED
    BY <1>1, <2>1, <2>3, <2>4, QuietIsCalm DEF NothingGoes
<1>3. ASSUME RefreshTakes(c) PROVE CalmInv'
  <2> DEFINE i == refresh[c].entry
  <2>1. PICK t \in DirTime :
          files' = [files EXCEPT ![c] = RefreshEntry(@, i, disk, t)]
    BY <1>3 DEF RefreshTakes
  <2>2. /\ UNCHANGED <<disk, phase, upload, toServer, toClient>>
        /\ NextEntry(c)
        /\ RefreshName(c) # NoName
    BY <1>3 DEF RefreshTakes, AtEntry
  <2>3. i \in Slot /\ files[c][i].filename # NoName
    BY <2>2 DEF RefreshName, At, EmptySlot
  <2> HIDE DEF i
  <2>4. /\ files'[c] = RefreshEntry(files[c], i, disk, t)
        /\ \A d \in Client \ {c} : files'[d] = files[d]
    BY <2>1 DEF TypeOK
  <2>5. /\ Compact(files[c])'
        /\ \A k \in Slot : files'[c][k].filename = files[c][k].filename
    BY <1>1, <2>3, <2>4, RefreshIsCompact
  <2>6. /\ ~ refresh'[c].found
        /\ \A d \in Client \ {c} : SameEnds(d) /\ refresh'[d] = refresh[d]
    BY <2>2 DEF NextEntry, SameEnds, TypeOK
  <2>7. Uploaded(c)' /\ Leaves(c)'
    BY <1>1, <2>2, <2>5, <2>6 DEF Uploaded, Leaves
  <2> QED
    BY <1>1, <2>2, <2>4, <2>5, <2>6, <2>7, QuietIsCalm DEF NothingGoes
<1>4. ASSUME ClientGone(c) PROVE CalmInv'
  <2>1. /\ CloseConnection(c) /\ phase[c] = "sync" /\ ~ ClientEnd(c)
        /\ UNCHANGED <<disk, files, refresh, toClient>>
    BY <1>4 DEF ClientGone
  <2>2. /\ phase'[c] = "dead"
        /\ toServer'[c] = <<>>
        /\ \A d \in Client \ {c} : SameEnds(d)
    BY <2>1 DEF CloseConnection, SameEnds, TypeOK
  <2>3. Uploaded(c)' /\ Leaves(c)'
    BY <1>1, <2>1, <2>2 DEF Uploaded, Leaves, ClientEnd, Giving, RefreshName
  <2> QED
    BY <1>1, <2>1, <2>2, <2>3, QuietIsCalm DEF NothingGoes
<1> QED
  BY <1>2, <1>3, <1>4

\* The end of a request: what was announced is still there.
LEMMA CalmGive ==
  ASSUME TypeOK, InStep, CalmInv, NEW c \in Client,
         UNCHANGED <<envVars, clientVars, local>>
  PROVE  /\ GiveFile(c) => CalmInv'
         /\ ~ GiveNothing(c)
<1> USE DEF clientVars
<1>1. CalmAt(c) /\ InStepAt(c) /\ Dated(disk)
  BY DEF CalmInv, InStep
<1>2. ASSUME GiveFile(c) PROVE CalmInv'
  <2> DEFINE name == upload[c].name
  <2>1. /\ phase[c] \in Giving
        /\ Exists(disk, name)
        /\ IF name \in FileName THEN Respond(c, Body(disk[name].data))
           ELSE UNCHANGED toClient
        /\ phase' = [phase EXCEPT ![c] = "sync"]
        /\ upload' = [upload EXCEPT ![c] = NoTransfer]
        /\ UNCHANGED <<disk, files, refresh, toServer>>
    BY <1>2 DEF GiveFile
  <2>2. phase'[c] = "sync" /\ upload'[c] = NoTransfer
    BY <2>1 DEF TypeOK
  <2>3. \A d \in Client \ {c} : SameEnds(d)
    BY <2>1 DEF Respond, Sent, SameEnds, TypeOK
  <2>4. Uploaded(c)'
    <3>1. phase[c] # "getfile"
      BY <2>1 DEF Giving
    <3> QED
      BY <1>1, <2>1, <2>2, <3>1 DEF CalmAt, Uploaded, Giving, RefreshName
  <2>5. Leaves(c)' /\ Compact(files[c])'
    BY <1>1, <2>1, <2>2 DEF CalmAt, Leaves
  <2>6. \/ toClient'[c] = toClient[c]
        \/ /\ toClient[c] # <<>>
           /\ Head(toClient'[c]) = Head(toClient[c])
        \/ pc[c] \in {"recv", "recvNew"}
    <3>1. CASE name \notin FileName \/ ~ ClientEnd(c)
      BY <2>1, <3>1 DEF Respond, Sent
    <3>2. CASE name \in FileName /\ ClientEnd(c) /\ toClient[c] # <<>>
      <4>1. Body(disk[name].data) \in Message
        BY <2>1, <3>2, FileInFolder, BodyIsMessage DEF TypeOK
      <4>2. /\ toClient'[c] = Append(toClient[c], Body(disk[name].data))
            /\ toClient[c] \in Seq(Message)
        BY <2>1, <3>2 DEF Respond, Sent, TypeOK
      <4> QED
        BY <3>2, <4>1, <4>2, Appended
    <3>3. CASE ClientEnd(c) /\ toClient[c] = <<>>
      BY <1>1, <2>1, <3>3, GivingIsAnnounced DEF Replied
    <3> QED
      BY <3>1, <3>2, <3>3
  <2> QED
    BY <1>1, <2>1, <2>3, <2>4, <2>5, <2>6, QuietIsCalm DEF NothingGoes
<1>3. ~ GiveNothing(c)
  BY <1>1 DEF GiveNothing, CalmAt, Uploaded
<1> QED
  BY <1>2, <1>3

\* Uploads.
LEMMA CalmUpload ==
  ASSUME TypeOK, InStep, CalmInv, NEW c \in Client,
         UNCHANGED <<envVars, clientVars, local>>
  PROVE  /\ GetOpen(c) => CalmInv'
         /\ GetData(c) => CalmInv'
         /\ GetStamp(c) => CalmInv'
<1> USE DEF wireVars, clientVars
<1>1. /\ CalmAt(c) /\ Dated(disk) /\ disk \in Folder
      /\ files[c] \in FileArray /\ Compact(files[c]) /\ Uploaded(c) /\ Leaves(c)
      /\ Remembers(c)
      /\ now \in Nat \ {0}
  BY SyncAssumption
     DEF CalmInv, CalmAt, TypeOK, InStep, InStepAt
\* what is there stays there
<1>2. ASSUME NothingGoes, UNCHANGED <<files, refresh>>,
             phase[c] \in {"getfile", "writing", "stamp"},
             upload[c].name \in FileName, disk'[upload[c].name] # Absent,
             \/ phase'[c] = "sync"
             \/ /\ phase'[c] \in {"writing", "stamp"}
                /\ upload'[c].name = upload[c].name
                /\ upload'[c].mtime = upload[c].mtime
      PROVE  Uploaded(c)'
  <2>1. \A k \in Slot : files'[c][k].filename # NoName =>
          Exists(disk', files'[c][k].filename)
    BY <1>1, <1>2 DEF Uploaded, NothingGoes, Exists
  <2>2. refresh'[c].found => Exists(disk, RefreshName(c))'
    BY <1>1, <1>2 DEF Uploaded, NothingGoes, Exists, RefreshName
  <2> QED
    BY <1>1, <1>2, <2>1, <2>2 DEF Uploaded, Exists, Giving
\* writing an upload
<1>4. ASSUME NEW file \in File, file.mtime > 0, upload[c].name \in FileName,
             disk' = [disk EXCEPT ![upload[c].name] = file]
      PROVE  NothingGoes /\ Dated(disk)' /\ disk'[upload[c].name] # Absent
  <2>1. \A name \in FileName :
          disk'[name] = IF name = upload[c].name THEN file ELSE disk[name]
    BY <1>1, <1>4 DEF Folder
  <2> QED
    BY <1>1, <1>4, <2>1, AbsentAssumption DEF NothingGoes, Dated
<1>5. ASSUME GetOpen(c) PROVE CalmInv'
  <2>1. /\ phase[c] = "getfile" /\ upload[c].name \in FileName
        /\ disk' = [disk EXCEPT ![upload[c].name] =
                      [mtime |-> now, data |-> Torn(upload[c].name)]]
        /\ phase' = [phase EXCEPT ![c] = "writing"]
        /\ UNCHANGED <<files, refresh, toServer, toClient>>
    BY <1>5 DEF GetOpen
  <2>2. \A d \in Client :
          /\ upload'[d].name = upload[d].name
          /\ upload'[d].mtime = upload[d].mtime
          /\ upload[d] = NoTransfer => upload'[d] = NoTransfer
    BY <1>5, OpenKeeps
  <2> DEFINE file == [mtime |-> now, data |-> Torn(upload[c].name)]
  <2>3. file \in File /\ file.mtime > 0
    BY <1>1, <2>1, SyncAssumption DEF File, Torn, Content
  <2> HIDE DEF file
  <2>4. NothingGoes /\ Dated(disk)' /\ disk'[upload[c].name] # Absent
    <3>1. disk' = [disk EXCEPT ![upload[c].name] = file]
      BY <2>1 DEF file
    <3> QED
      BY <1>4, <2>1, <2>3, <3>1
  <2>5. phase'[c] = "writing" /\ \A d \in Client \ {c} : SameEnds(d)
    BY <2>1, <2>2 DEF SameEnds, TypeOK
  <2>6. Uploaded(c)'
    BY <1>2, <2>1, <2>2, <2>4, <2>5
  <2>7. Leaves(c)'
    BY <1>1, <2>1, <2>5 DEF Leaves
  <2> QED
    BY <1>1, <2>1, <2>4, <2>5, <2>6, <2>7, QuietIsCalm
<1>6. ASSUME GetData(c) PROVE CalmInv'
  <2>1. PICK data \in {Packet(c).data, Torn(upload[c].name)} :
          disk' = IF upload[c].link = "gone" THEN disk
                  ELSE [disk EXCEPT ![upload[c].name] =
                          [mtime |-> now, data |-> data]]
    BY <1>6 DEF GetData
  <2>2. /\ phase[c] = "writing" /\ toServer[c] # <<>>
        /\ Packet(c).kind = "body" /\ Consume(c)
        /\ phase' = [phase EXCEPT ![c] = "stamp"]
        /\ UNCHANGED <<files, refresh, upload, toClient>>
    BY <1>6 DEF GetData
  <2>3. upload[c].name \in FileName
    BY <1>1, <2>2 DEF Remembers
  <2> DEFINE file == [mtime |-> now, data |-> data]
  <2>4. file \in File /\ file.mtime > 0
    <3>1. data \in Content
      BY <2>1, <2>2, <2>3, RequestIsMessage, SyncAssumption DEF Torn, Content
    <3> QED
      BY <1>1, <3>1 DEF File
  <2>9. disk' = disk \/ disk' = [disk EXCEPT ![upload[c].name] = file]
    BY <2>1
  <2> HIDE DEF file
  <2>5. NothingGoes /\ Dated(disk)' /\ disk'[upload[c].name] # Absent
    <3>1. CASE disk' = disk
      BY <1>1, <2>2, <2>3, <3>1 DEF NothingGoes, Dated, Uploaded, Exists
    <3>2. CASE disk' = [disk EXCEPT ![upload[c].name] = file]
      BY <1>4, <2>3, <2>4, <3>2
    <3> QED
      BY <2>9, <3>1, <3>2
  <2>6. phase'[c] = "stamp" /\ \A d \in Client \ {c} : SameEnds(d)
    BY <2>2 DEF SameEnds, Consume, TypeOK
  <2>7. Uploaded(c)'
    BY <1>2, <2>2, <2>3, <2>5, <2>6
  <2>8. Leaves(c)'
    BY <1>1, <2>2, <2>6 DEF Leaves
  <2> QED
    BY <1>1, <2>2, <2>5, <2>6, <2>7, <2>8, QuietIsCalm
<1>7. ASSUME GetStamp(c) PROVE CalmInv'
  <2>1. phase[c] = "stamp" /\ upload[c].name \in FileName
    BY <1>1, <1>7 DEF GetStamp, Remembers
  <2>2. Exists(disk, upload[c].name)
    BY <1>1, <2>1 DEF Uploaded
  <2>3. /\ disk' = [disk EXCEPT ![upload[c].name].mtime = upload[c].mtime]
        /\ phase' = [phase EXCEPT ![c] = "sync"]
        /\ upload' = [upload EXCEPT ![c] = NoTransfer]
        /\ UNCHANGED <<files, refresh, toServer, toClient>>
    BY <1>7, <2>2 DEF GetStamp
  <2>4. /\ \A name \in FileName \ {upload[c].name} : disk'[name] = disk[name]
        /\ disk'[upload[c].name] # Absent
        /\ disk'[upload[c].name].mtime > 0
    <3>1. disk[upload[c].name] \in File
      BY <1>1, <2>1, <2>2, FileInFolder
    <3>2. upload[c].mtime \in Nat \ {0}
      BY <1>1, <2>1 DEF Remembers, Uploaded
    <3>3. /\ [disk[upload[c].name] EXCEPT !.mtime = upload[c].mtime] \in File
          /\ [disk[upload[c].name] EXCEPT !.mtime = upload[c].mtime].mtime
               = upload[c].mtime
      BY <3>1, <3>2 DEF File
    <3>4. disk'[upload[c].name]
            = [disk[upload[c].name] EXCEPT !.mtime = upload[c].mtime]
      BY <1>1, <2>1, <2>3 DEF Folder
    <3>5. \A name \in FileName \ {upload[c].name} : disk'[name] = disk[name]
      BY <1>1, <2>3 DEF Folder
    <3> QED
      BY <3>2, <3>3, <3>4, <3>5, AbsentAssumption
  <2>5. NothingGoes /\ Dated(disk)'
    BY <1>1, <2>4 DEF NothingGoes, Dated
  <2>6. phase'[c] = "sync" /\ \A d \in Client \ {c} : SameEnds(d)
    BY <2>3 DEF SameEnds, TypeOK
  <2>7. Uploaded(c)'
    BY <1>2, <2>1, <2>3, <2>4, <2>5, <2>6
  <2>8. Leaves(c)'
    BY <1>1, <2>1, <2>3, <2>6 DEF Leaves
  <2> QED
    BY <1>1, <2>3, <2>5, <2>6, <2>7, <2>8, QuietIsCalm
<1> QED
  BY <1>5, <1>6, <1>7

\* What the server never does: a client that has gone has left no request, the
\* array has room, and nothing that was found is missing.
LEMMA CalmNever ==
  ASSUME Calm, TypeOK, InStep, CalmInv, NEW c \in Client
  PROVE  /\ ~ BrokenPipe(c) /\ ~ NewFileOverflow(c) /\ ~ AddSharedOverflow(c)
         /\ ~ RefuseFile(c) /\ ~ AcceptDeletion(c) /\ ~ RefreshFails(c)
         /\ ~ GetEof(c)
<1>1. /\ CalmAt(c) /\ files[c] \in FileArray /\ Compact(files[c]) /\ Leaves(c)
      /\ Uploaded(c)
  BY DEF CalmInv, CalmAt, TypeOK
<1>2. ~ BrokenPipe(c)
  <2>1. upload[c].name \in FileName => upload[c].name \notin DirName
    BY FileTableAssumption
  <2> QED
    BY <1>1, <2>1, CalmRequest DEF BrokenPipe, Leaves, ClientEnd, Giving
<1>3. \A name \in EntryName : ~ TableFull(files[c], name)
  BY <1>1, RoomForName
<1>4. ~ NewFileOverflow(c)
  BY <1>3 DEF NewFileOverflow, EntryName
<1>5. ASSUME Named(c)
      PROVE Packet(c).filename \in EntryName /\ Packet(c).mtime \in Nat \ {0}
  BY <1>1, <1>5, CalmRequest DEF Named
<1>6. ~ AddSharedOverflow(c) /\ ~ RefuseFile(c)
  BY <1>3, <1>5 DEF AddSharedOverflow, RefuseFile
<1>7. ~ AcceptDeletion(c)
  BY <1>5 DEF AcceptDeletion, Deleted
<1>8. ~ RefreshFails(c)
  BY <1>1 DEF RefreshFails, AtEntry, Refreshing, Uploaded
<1>9. ~ GetEof(c)
  BY <1>1 DEF GetEof, Leaves, ClientEnd
<1> QED
  BY <1>2, <1>4, <1>6, <1>7, <1>8, <1>9

\* Every step of the server.
LEMMA CalmServer ==
  ASSUME Calm, TypeOK, InStep, CalmInv, NEW c \in Client, ServerNext(c)
  PROVE  CalmInv'
<1>1. ServerStep(c) /\ UNCHANGED <<envVars, clientVars, local>>
  BY DEF ServerNext
<1>2. GetDirectory(c) => CalmInv'
  BY <1>1, CalmDeath DEF GetDirectory
<1> QED
  BY <1>1, <1>2, CalmPacket, CalmSync, CalmGive, CalmUpload, CalmNever
     DEF ServerStep

-----------------------------------------------------------------------------
(* Steps of a client, connecting, and the environment. *)

\* What a step of a client has to keep.
LEMMA ClientIsCalm ==
  ASSUME CalmInv, NEW c \in Client, UNCHANGED <<disk, slotVars>>,
         \A d \in Client \ {c} : SameEnds(d) /\ local'[d] = local[d]
                                             /\ todo'[d] = todo[d],
         Dated(local[c])', Found(c)', Leaves(c)', Promises(c)'
  PROVE  CalmInv'
<1>1. Compact(files[c])' /\ Uploaded(c)'
  BY DEF CalmInv, CalmAt, Uploaded, RefreshName, slotVars
<1>2. \A d \in Client \ {c} : SameCalm(d)
  BY DEF SameCalm, slotVars
<1>3. NothingGoes /\ Dated(disk)'
  BY DEF NothingGoes, CalmInv, Dated
<1> QED
  BY <1>1, <1>2, <1>3, CalmOthers DEF CalmAt

\* What a client at work finds.
LEMMA CalmClient ==
  ASSUME TypeOK, InStep, CalmInv, NEW c \in Client
  PROVE  /\ CalmAt(c) /\ Found(c) /\ Leaves(c) /\ Promises(c)
         /\ Dated(local[c]) /\ local[c] \in Folder
         /\ known[c] \in [EntryName -> Nat] /\ todo[c] \subseteq EntryName
         /\ NoName \notin EntryName /\ FileName \subseteq EntryName
         /\ InStepAt(c) /\ Remembers(c)
         /\ pc[c] \in {"scan", "walk"} => toClient[c] = <<>>
         /\ pc[c] = "scan" \/ ~ ServerEnd(c) =>
              phase[c] \in {"dead", "sync"} /\ toServer[c] = <<>>
<1>1. CalmAt(c) /\ InStepAt(c)
  BY DEF CalmInv, InStep
<1>2. pc[c] \in {"scan", "walk"} => toClient[c] = <<>>
  BY <1>1, Quiet
<1>3. pc[c] = "scan" \/ ~ ServerEnd(c) =>
        phase[c] \in {"dead", "sync"} /\ toServer[c] = <<>>
  BY <1>1 DEF InStepAt, Connected, ServerLeft, ServerEnd, ClientEnd
<1> QED
  BY <1>1, <1>2, <1>3, FileTableAssumption
     DEF CalmAt, InStepAt, TypeOK, EntryName

\* A client leaves: its session waits for a request, is over, or is about to
\* send it a directory.
LEMMA CalmExit ==
  ASSUME TypeOK, InStep, CalmInv, NEW c \in Client,
         UNCHANGED <<envVars, disk, slotVars>>, ExitOnly(c),
         toServer[c] = <<>>,
         \/ phase[c] \in {"dead", "sync"}
         \/ phase[c] = "give" /\ upload[c].name \in DirName
  PROVE  CalmInv'
<1> USE DEF slotVars
<1>1. Dated(local[c]) /\ Found(c)
  BY CalmClient
<1>2. /\ pc'[c] = "off"
      /\ \A name \in FileName : known'[c][name] = 0
      /\ todo'[c] = {}
      /\ toClient'[c] = <<>>
      /\ UNCHANGED <<local, toServer>>
  BY DEF ExitOnly, Exit, NothingKnown, TypeOK, EntryName
<1>3. Dated(local[c])' /\ Found(c)' /\ Leaves(c)' /\ Promises(c)'
  BY <1>1, <1>2 DEF Found, Leaves, Promises, Dated
<1>4. \A d \in Client \ {c} : SameEnds(d) /\ todo'[d] = todo[d]
  BY DEF ExitOnly, Exit, SameEnds, TypeOK
<1> QED
  BY <1>2, <1>3, <1>4, ClientIsCalm

\* Scan and readdir.
LEMMA CalmCycle ==
  ASSUME TypeOK, InStep, CalmInv, NEW c \in Client,
         UNCHANGED <<envVars, disk, slotVars>>
  PROVE  /\ StartWalk(c) => CalmInv'
         /\ NullName(c) => CalmInv'
         /\ (\E name \in EntryName : Walk(c, name)) => CalmInv'
         /\ WalkDone(c) => CalmInv'
<1> USE DEF slotVars, wireVars
<1>1. /\ CalmAt(c) /\ Found(c) /\ Leaves(c) /\ Promises(c)
      /\ Dated(local[c]) /\ local[c] \in Folder
      /\ known[c] \in [EntryName -> Nat] /\ todo[c] \subseteq EntryName
      /\ NoName \notin EntryName /\ FileName \subseteq EntryName
      /\ InStepAt(c) /\ Remembers(c)
      /\ pc[c] \in {"scan", "walk"} => toClient[c] = <<>>
  BY CalmClient
<1>2. ASSUME StartWalk(c) PROVE CalmInv'
  <2>1. /\ pc[c] = "scan" /\ pc'[c] = "walk"
        /\ todo'[c] = Present(local[c])
        /\ UNCHANGED <<known, cur, local, toServer, toClient>>
        /\ \A d \in Client \ {c} : pc'[d] = pc[d] /\ todo'[d] = todo[d]
    BY <1>2 DEF StartWalk, TypeOK
  <2>2. Dated(local[c])' /\ Found(c)' /\ Leaves(c)' /\ Promises(c)'
    BY <1>1, <2>1 DEF Found, Leaves, Promises, Dated
  <2>3. \A d \in Client \ {c} : SameEnds(d)
    BY <2>1 DEF SameEnds
  <2> QED
    BY <2>1, <2>2, <2>3, ClientIsCalm
<1>3. ASSUME NullName(c) PROVE CalmInv'
  <2>1. pc[c] = "scan" /\ ExitOnly(c)
    BY <1>3 DEF NullName
  <2> QED
    BY <2>1, CalmClient, CalmExit
<1>4. ASSUME NEW name \in EntryName, Walk(c, name) PROVE CalmInv'
  <2>1. PICK t \in DirTime :
          /\ Send(c, Header(name, MTime(local[c], name, t)))
          /\ cur' = [cur EXCEPT ![c] =
                       [name |-> name, mtime |-> MTime(local[c], name, t),
                        link |-> "gone"]]
    BY <1>4 DEF Walk
  <2>2. /\ pc[c] = "walk" /\ name \in todo[c]
        /\ known' = [known EXCEPT ![c][name] = IF @ = 0 THEN 1 ELSE @]
        /\ todo' = [todo EXCEPT ![c] = @ \ {name}]
        /\ pc' = [pc EXCEPT ![c] = "ackSync"]
        /\ UNCHANGED <<local, toClient>>
    BY <1>4 DEF Walk
  <2>3. /\ Exists(local[c], name)
        /\ toClient[c] = <<>>
    BY <1>1, <1>4, <2>2 DEF Walk
  <2>4. /\ pc'[c] = "ackSync" /\ todo'[c] \subseteq todo[c]
        /\ cur'[c].name = name /\ cur'[c].mtime = MTime(local[c], name, t)
    BY <1>1, <2>1, <2>2 DEF TypeOK
  <2>5. \A other \in FileName :
          known'[c][other] = IF other = name /\ known[c][name] = 0 THEN 1
                             ELSE known[c][other]
    BY <1>1, <2>2 DEF TypeOK
  <2>6. Found(c)'
    <3>1. MTime(local[c], name, t) > 0
      <4>1. CASE name \in DirName
        BY <4>1, SyncAssumption DEF MTime, DirTime, TypeOK
      <4>2. CASE name \notin DirName
        BY <1>1, <2>3, <4>2 DEF MTime, Dated, Exists, EntryName
      <4> QED
        BY <4>1, <4>2
    <3>2. \A other \in FileName : known'[c][other] > 0 =>
            \/ known[c][other] > 0
            \/ other = name /\ local[c][name] # Absent
      BY <2>3, <2>5 DEF Exists
    <3>3. \A other \in FileName : known'[c][other] > 1 => known[c][other] > 1
      BY <2>5
    <3> QED
      BY <1>1, <2>2, <2>3, <2>4, <3>1, <3>2, <3>3 DEF Found
  <2>7. Dated(local[c])' /\ Leaves(c)' /\ Promises(c)'
    BY <1>1, <2>2, <2>3, <2>4 DEF Leaves, Promises, Dated
  <2>8. \A d \in Client \ {c} : SameEnds(d) /\ todo'[d] = todo[d]
    BY <2>1, <2>2 DEF Send, SameEnds, TypeOK
  <2> QED
    BY <2>2, <2>6, <2>7, <2>8, ClientIsCalm
<1>5. ASSUME WalkDone(c) PROVE CalmInv'
  <2>1. /\ pc[c] = "walk" /\ pc'[c] = "ackNew"
        /\ todo'[c] = {}
        /\ UNCHANGED <<known, local, toClient>>
    BY <1>5 DEF WalkDone, AskNew, TypeOK
  <2>2. toClient[c] = <<>>
    BY <1>1, <2>1
  <2>3. Dated(local[c])' /\ Found(c)' /\ Leaves(c)' /\ Promises(c)'
    BY <1>1, <2>1, <2>2 DEF Found, Leaves, Promises, Dated
  <2>4. \A d \in Client \ {c} : SameEnds(d) /\ todo'[d] = todo[d]
    BY <1>5 DEF WalkDone, AskNew, Send, SameEnds, TypeOK
  <2> QED
    BY <2>1, <2>3, <2>4, ClientIsCalm
<1> QED
  BY <1>2, <1>3, <1>4, <1>5

\* Reading a response, or the file behind it.
LEMMA CalmResponse ==
  ASSUME TypeOK, InStep, CalmInv, NEW c \in Client,
         UNCHANGED <<envVars, disk, slotVars>>
  PROVE  /\ RemoveFile(c) => CalmInv'
         /\ SendFile(c) \/ SameTime(c) \/ CycleDone(c) => CalmInv'
         /\ GetNewer(c) \/ GetNew(c) => CalmInv'
         /\ GetDone(c) \/ GetNewDone(c) => CalmInv'
<1> USE DEF slotVars, wireVars
<1>1. /\ CalmAt(c) /\ Found(c) /\ Leaves(c) /\ Promises(c)
      /\ Dated(local[c]) /\ local[c] \in Folder
      /\ known[c] \in [EntryName -> Nat] /\ todo[c] \subseteq EntryName
      /\ NoName \notin EntryName /\ FileName \subseteq EntryName
      /\ InStepAt(c) /\ Remembers(c)
      /\ pc[c] \in {"scan", "walk"} => toClient[c] = <<>>
  BY CalmClient
<1>2. ASSUME RemoveFile(c) PROVE CalmInv'
  <2> DEFINE name == Response(c).filename
  <2>1. /\ pc[c] = "ackSync" /\ toClient[c] # <<>> /\ Response(c).mtime = Deleted
        /\ pc' = [pc EXCEPT ![c] = "walk"]
        /\ todo' = [todo EXCEPT ![c] = Present(local'[c])]
        /\ UNCHANGED toServer
    BY <1>2 DEF RemoveFile, SyncAcked, Acked
  <2>2. name \in FileName /\ known[c][name] <= 1
    BY <1>1, <2>1 DEF Promises, Response
  <2>3. /\ local' = [local EXCEPT ![c][name] = Absent]
        /\ \E left \in 0..(known[c][name] \div 2) :
             known' = [known EXCEPT ![c][name] = left]
    BY <1>2, <2>2 DEF RemoveFile
  <2>4. known' = [known EXCEPT ![c][name] = 0]
    <3>1. known[c][name] \in Nat
      BY <1>1, <2>2
    <3>2. 0..(known[c][name] \div 2) = {0}
      BY <2>2, <3>1
    <3> QED
      BY <2>3, <3>2
  <2> HIDE DEF name
  <2>5. /\ \A other \in FileName :
             /\ known'[c][other] = IF other = name THEN 0 ELSE known[c][other]
             /\ local'[c][other] = IF other = name THEN Absent
                                   ELSE local[c][other]
        /\ pc'[c] = "walk"
        /\ todo'[c] = Present(local'[c])
    BY <1>1, <2>1, <2>2, <2>3, <2>4 DEF TypeOK, Folder
  <2>6. Dated(local[c])' /\ Found(c)'
    BY <1>1, <2>5 DEF Found, Dated
  <2>7. Leaves(c)' /\ Promises(c)'
    BY <1>1, <2>1, <2>5 DEF Leaves, Promises
  <2>8. \A d \in Client \ {c} : SameEnds(d) /\ local'[d] = local[d]
                                            /\ todo'[d] = todo[d]
    BY <1>2, <2>1, <2>3, <2>4 DEF RemoveFile, Receive, SameEnds, TypeOK
  <2> QED
    BY <2>6, <2>7, <2>8, ClientIsCalm
<1>3. ASSUME SendFile(c) \/ SameTime(c) \/ CycleDone(c) PROVE CalmInv'
  <2>1. /\ pc[c] \in {"ackSync", "ackNew"} /\ pc'[c] \in {"walk", "scan"}
        /\ UNCHANGED <<known, todo, local>>
    BY <1>3 DEF SendFile, SameTime, CycleDone, SyncAcked, TypeOK
  <2>2. Dated(local[c])' /\ Found(c)' /\ Leaves(c)' /\ Promises(c)'
    BY <1>1, <2>1 DEF Found, Leaves, Promises, Dated
  <2>3. \A d \in Client \ {c} : SameEnds(d)
    BY <1>3 DEF SendFile, SameTime, CycleDone, Send, Receive, SameEnds, TypeOK
  <2> QED
    BY <2>1, <2>2, <2>3, ClientIsCalm
<1>4. ASSUME NEW position \in {"recv", "recvNew"}, GetOpenLocal(c, position),
             toClient[c] # <<>>, pc[c] \in {"ackSync", "ackNew"},
             Exists(disk, Response(c).filename), Response(c).mtime > 0
      PROVE  CalmInv'
  <2> DEFINE name == Response(c).filename
             file == [mtime |-> now, data |-> Torn(name)]
  <2>1. /\ name \in FileName
        /\ local' = [local EXCEPT ![c][name] = file]
        /\ known' = [known EXCEPT ![c][name] = @ + 1]
        /\ cur' = [cur EXCEPT ![c] = [name |-> name,
                                      mtime |-> Response(c).mtime,
                                      link |-> "own"]]
        /\ pc' = [pc EXCEPT ![c] = position]
        /\ Receive(c)
        /\ UNCHANGED <<todo, toServer>>
    BY <1>4 DEF GetOpenLocal
  <2>2. file \in File /\ file.mtime > 0
    BY <2>1, SyncAssumption DEF File, Torn, Content, TypeOK
  <2> HIDE DEF name, file
  <2>3. /\ \A other \in FileName :
             /\ known'[c][other] = IF other = name THEN known[c][other] + 1
                                   ELSE known[c][other]
             /\ local'[c][other] = IF other = name THEN file
                                   ELSE local[c][other]
        /\ pc'[c] = position
        /\ cur'[c].name = name /\ cur'[c].mtime = Response(c).mtime
    BY <1>1, <2>1 DEF TypeOK, Folder
  <2>4. file # Absent
    BY <2>2, AbsentAssumption
  <2>5. Dated(local[c])'
    BY <1>1, <2>2, <2>3 DEF Dated
  <2>6. Found(c)'
    <3>1. \A other \in FileName :
            known'[c][other] > 0 => local'[c][other] # Absent
      BY <1>1, <2>3, <2>4 DEF Found
    <3>2. \A other \in FileName : known'[c][other] > 1 => disk[other] # Absent
      BY <1>1, <1>4, <2>1, <2>3 DEF Found, name, Exists
    <3>3. todo[c] \subseteq Present(local'[c])
      BY <1>1, <2>3, <2>4 DEF Found, Present, Exists
    <3> QED
      BY <1>4, <2>1, <2>3, <2>4, <3>1, <3>2, <3>3 DEF Found, Exists, name
  <2>7. Leaves(c)' /\ Promises(c)'
    BY <1>1, <1>4, <2>1, <2>3 DEF Leaves, Promises
  <2>8. \A d \in Client \ {c} : SameEnds(d) /\ local'[d] = local[d]
    BY <2>1 DEF Receive, SameEnds, TypeOK
  <2> QED
    BY <2>1, <2>5, <2>6, <2>7, <2>8, ClientIsCalm
<1>5. ASSUME GetNewer(c) \/ GetNew(c) PROVE CalmInv'
  <2>1. CASE GetNewer(c)
    <3>1. /\ pc[c] = "ackSync" /\ toClient[c] # <<>>
          /\ Response(c).mtime > cur[c].mtime /\ GetOpenLocal(c, "recv")
      BY <2>1 DEF GetNewer, SyncAcked, Acked
    <3>2. Exists(disk, Response(c).filename)
      BY <1>1, <3>1 DEF Promises, Response
    <3>3. Response(c).mtime > 0
      <4>1. cur[c].mtime \in Nat /\ Response(c).mtime \in MTimes
        BY <1>1, <3>1, ResponseIsMessage DEF Remembers
      <4> QED
        BY <3>1, <4>1 DEF MTimes, Deleted
    <3> QED
      BY <1>4, <3>1, <3>2, <3>3
  <2>2. CASE GetNew(c)
    <3>1. /\ pc[c] = "ackNew" /\ toClient[c] # <<>>
          /\ Response(c).filename # NoName /\ GetOpenLocal(c, "recvNew")
      BY <2>2 DEF GetNew, Acked
    <3>2. Exists(disk, Response(c).filename) /\ Response(c).mtime > 0
      BY <1>1, <3>1 DEF Promises, Response
    <3> QED
      BY <1>4, <3>1, <3>2
  <2> QED
    BY <1>5, <2>1, <2>2
<1>6. ASSUME GetDone(c) \/ GetNewDone(c) PROVE CalmInv'
  <2> DEFINE name == cur[c].name
             file == [mtime |-> cur[c].mtime,
                      data |-> IF cur[c].link = "gone" THEN local[c][name].data
                               ELSE Response(c).data]
  <2>1. /\ pc[c] \in {"recv", "recvNew"} /\ pc'[c] \in {"walk", "ackNew"}
        /\ Exists(local[c], name)
        /\ local' = [local EXCEPT ![c][name] = file]
        /\ Receive(c)
        /\ UNCHANGED <<known, todo>>
    BY <1>6 DEF GetDone, GetNewDone, Received, AskNew, TypeOK
  <2>2. name \in FileName /\ cur[c].mtime > 0
    BY <1>1, <2>1 DEF Remembers, Found
  <2>3. toClient'[c] = <<>>
    <3>1. Tail(toClient[c]) = <<>>
      BY <1>1, <1>6, <2>1, FileRead DEF GetDone, GetNewDone, Received
    <3> QED
      BY <2>1, <3>1 DEF Receive, TypeOK
  <2>4. file # Absent /\ file.mtime > 0
    <3>1. toClient[c] # <<>> /\ Response(c).kind = "body"
      BY <1>6 DEF GetDone, GetNewDone, Received
    <3>2. file \in File
      BY <1>1, <2>1, <2>2, <3>1, FileInFolder, ResponseIsMessage
         DEF Remembers, File
    <3> QED
      BY <2>2, <3>2, AbsentAssumption
  <2> HIDE DEF name, file
  <2>5. \A other \in FileName :
          local'[c][other] = IF other = name THEN file ELSE local[c][other]
    BY <1>1, <2>1 DEF TypeOK, Folder
  <2>6. Dated(local[c])' /\ Found(c)'
    BY <1>1, <2>1, <2>4, <2>5 DEF Dated, Found, Present, Exists
  <2>7. Leaves(c)' /\ Promises(c)'
    BY <1>1, <2>1, <2>3 DEF Leaves, Promises
  <2>8. \A d \in Client \ {c} : SameEnds(d) /\ local'[d] = local[d]
    BY <1>6, <2>1 DEF GetDone, GetNewDone, AskNew, Send, Receive, SameEnds,
                      TypeOK
  <2> QED
    BY <2>1, <2>6, <2>7, <2>8, ClientIsCalm
<1> QED
  BY <1>2, <1>3, <1>5, <1>6

\* What a client never does: every file it looks for is there.
LEMMA CalmClientNever ==
  ASSUME TypeOK, InStep, CalmInv, NEW c \in Client
  PROVE  /\ ~ ReportDeleted(c) /\ ~ AckDeletion(c) /\ ~ WalkVanished(c)
         /\ ~ SendVanished(c) /\ ~ GetVanished(c)
<1>1. Found(c) /\ Leaves(c)
  BY CalmClient
<1>2. ~ ReportDeleted(c)
  BY <1>1 DEF ReportDeleted, Gone, Found, Exists
<1>3. ~ AckDeletion(c)
  BY <1>1 DEF AckDeletion, Leaves
<1>4. ~ WalkVanished(c)
  BY <1>1 DEF WalkVanished, Found, Present
<1>5. ~ SendVanished(c) /\ ~ GetVanished(c)
  BY <1>1 DEF SendVanished, SyncAcked, GetVanished, Found
<1> QED
  BY <1>2, <1>3, <1>4, <1>5

\* A client exits within a cycle when the server has died, or when it is to
\* open a directory.
LEMMA CalmQuit ==
  ASSUME TypeOK, InStep, CalmInv, NEW c \in Client,
         UNCHANGED <<envVars, disk, slotVars>>
  PROVE  Unanswered(c) \/ GetNewerDirectory(c) => CalmInv'
<1>1. ASSUME Unanswered(c) PROVE CalmInv'
  <2>1. pc[c] # "off" /\ ~ ServerEnd(c) /\ ExitOnly(c)
    BY <1>1 DEF Unanswered
  <2> QED
    BY <2>1, CalmClient, CalmExit
<1>2. ASSUME GetNewerDirectory(c) PROVE CalmInv'
  <2>1. /\ pc[c] = "ackSync" /\ toClient[c] # <<>> /\ ClientEnd(c)
        /\ Response(c).mtime > cur[c].mtime
        /\ Response(c).filename \in DirName
        /\ ExitOnly(c)
    BY <1>2 DEF GetNewerDirectory, SyncAcked, Acked, ClientEnd
  <2>2. InStepAt(c) /\ cur[c].mtime \in Nat /\ cur[c].name \in EntryName
    BY <2>1, CalmClient DEF Remembers
  <2>3. CASE ServerEnd(c)
    <3>1. Replied(c)
      BY <2>1, <2>2, <2>3 DEF InStepAt, Connected, Asked
    <3>2. Announces(c, "give", Response(c), Tail(toClient[c]))
      BY <2>1, <2>2, <3>1 DEF Replied, Response, Deleted
    <3>3. /\ toServer[c] = <<>>
          /\ \/ phase[c] = "sync"
             \/ phase[c] = "give" /\ upload[c].name \in DirName
      BY <2>1, <3>1, <3>2 DEF Replied, Announces
    <3> QED
      BY <2>1, <3>3, CalmExit
  <2>4. CASE ~ ServerEnd(c)
    BY <2>1, <2>4, CalmClient, CalmExit
  <2> QED
    BY <2>3, <2>4
<1> QED
  BY <1>1, <1>2

\* There is a slot for every client; a client that is back starts over.
LEMMA CalmLogin ==
  ASSUME Calm, TypeOK, InStep, CalmInv, NEW c \in Client
  PROVE  /\ Login(c) => CalmInv'
         /\ ~ LoginFails(c)
<1>1. ASSUME Login(c) PROVE CalmInv'
  <2>1. /\ pc[c] = "off" /\ pc'[c] = "scan" /\ phase'[c] = "sync"
        /\ known'[c] = [name \in EntryName |->
             IF name \in FileName /\ Exists(local[c], name) THEN 1 ELSE 0]
        /\ refresh'[c] = NoRefresh
        /\ UNCHANGED <<disk, files, upload, toServer, toClient, todo, cur, local>>
        /\ \A d \in Client \ {c} : /\ phase'[d] = phase[d] /\ pc'[d] = pc[d]
                                   /\ known'[d] = known[d]
                                   /\ refresh'[d] = refresh[d]
    BY <1>1 DEF Login, ServerLogin, ClientStart, wireVars, TypeOK
  <2>2. CalmAt(c) /\ phase[c] = "dead" /\ FileName \subseteq EntryName
    BY <1>1, CalmClient DEF Login, ServerLogin
  <2>3. Uploaded(c)' /\ Leaves(c)' /\ Promises(c)'
    BY <2>1, <2>2 DEF CalmAt, Uploaded, Leaves, Promises, Giving, NoRefresh
  <2>4. Found(c)'
    <3>1. \A name \in FileName :
            known'[c][name] = IF local[c][name] # Absent THEN 1 ELSE 0
      BY <2>1, <2>2 DEF Exists
    <3> QED
      BY <2>1, <2>2, <3>1 DEF CalmAt, Found
  <2>5. \A d \in Client \ {c} : SameCalm(d)
    BY <2>1 DEF SameCalm, SameEnds
  <2>6. CalmAt(c)'
    BY <2>1, <2>2, <2>3, <2>4 DEF CalmAt, Dated
  <2> QED
    BY <2>1, <2>5, <2>6, CalmOthers DEF CalmInv, NothingGoes, Dated
<1>2. ASSUME LoginFails(c) PROVE FALSE
  <2>1. c \notin slots /\ Cardinality(slots) >= MaxClients
    BY <1>2 DEF LoginFails, LoginRefused
  <2>2. /\ slots \subseteq Client \ {c}
        /\ IsFiniteSet(Client) /\ Cardinality(Client) <= MaxClients
    BY <2>1 DEF TypeOK, Calm
  <2>3. /\ IsFiniteSet(Client \ {c})
        /\ Cardinality(Client \ {c}) = Cardinality(Client) - 1
        /\ Cardinality(Client) \in Nat
    BY <2>2, FS_RemoveElement, FS_CardinalityType
  <2>4. /\ IsFiniteSet(slots)
        /\ Cardinality(slots) <= Cardinality(Client \ {c})
    BY <2>2, <2>3, FS_Subset
  <2>5. Cardinality(slots) \in Nat /\ MaxClients \in Nat
    BY <2>4, FS_CardinalityType, SyncAssumption
  <2> QED
    BY <2>1, <2>2, <2>3, <2>4, <2>5
<1> QED
  BY <1>1, <1>2

\* Users and the operator write files, and the clock advances.
LEMMA CalmEnv ==
  ASSUME Calm, TypeOK, InStep, CalmInv, EnvNext
  PROVE  CalmInv'
<1> USE DEF envVars, slotVars, wireVars, clientVars
<1>1. CASE Tick
  <2>1. \A c \in Client : SameCalm(c) /\ CalmAt(c)
    BY <1>1 DEF Tick, SameCalm, SameEnds, CalmInv
  <2>2. NothingGoes /\ Dated(disk)'
    BY <1>1 DEF Tick, NothingGoes, CalmInv, Dated
  <2> QED
    BY <2>1, <2>2, CalmFrame DEF CalmInv
<1>2. ASSUME NEW name \in FileName, NEW author \in Client \cup {NoClient},
             NEW t \in NewTime(name), ops < MaxOps
      PROVE  /\ NewFile(name, author, t) # Absent
             /\ NewFile(name, author, t).mtime > 0
  <2>1. NewFile(name, author, t) \in File
    BY <1>2, NewFileIsFile
  <2>2. NewFile(name, author, t).mtime = t /\ t \in 1..now
    BY DEF NewFile, NewTime
  <2> QED
    BY <2>1, <2>2, AbsentAssumption, SyncAssumption DEF TypeOK
<1>3. ASSUME NEW c \in Client, NEW name \in FileName, UserWrite(c, name)
      PROVE  CalmInv'
  <2>1. PICK t \in NewTime(name) :
          local' = [local EXCEPT ![c][name] = NewFile(name, c, t)]
    BY <1>3 DEF UserWrite
  <2>2. /\ cur' = [cur EXCEPT ![c] = Unlink(@, name)]
        /\ UNCHANGED <<serverUp, disk, slotVars, wireVars, pc, known, todo>>
        /\ ops < MaxOps
    BY <1>3 DEF UserWrite, Event
  <2> DEFINE file == NewFile(name, c, t)
  <2>3. file # Absent /\ file.mtime > 0
    BY <1>2, <2>2
  <2> HIDE DEF file
  <2>4. \A other \in FileName :
          local'[c][other] = IF other = name THEN file ELSE local[c][other]
    BY <2>1 DEF TypeOK, Folder, file
  <2>5. \A d \in Client : SameEnds(d)
    BY <2>2, UnlinkKeeps DEF SameEnds, TypeOK
  <2>6. \A d \in Client \ {c} : local'[d] = local[d]
    BY <2>1 DEF TypeOK
  <2>7. Found(c) /\ Dated(local[c]) /\ Leaves(c) /\ Promises(c)
    BY CalmClient
  <2>8. Dated(local[c])'
    BY <2>3, <2>4, <2>7 DEF Dated
  <2>9. Found(c)'
    <3>1. Present(local[c]) \subseteq Present(local'[c])
      BY <2>3, <2>4 DEF Present, Exists
    <3>2. \A other : Exists(local[c], other) => Exists(local'[c], other)
      BY <2>3, <2>4 DEF Exists
    <3> QED
      BY <2>2, <2>3, <2>4, <2>5, <2>7, <3>1, <3>2 DEF Found, SameEnds
  <2>10. Leaves(c)' /\ Promises(c)'
    BY <2>2, <2>5, <2>7 DEF Leaves, Promises, SameEnds
  <2> QED
    BY <2>2, <2>5, <2>6, <2>8, <2>9, <2>10, ClientIsCalm
<1>4. ASSUME NEW name \in FileName, AdminWrite(name) PROVE CalmInv'
  <2>1. PICK t \in NewTime(name) :
          disk' = [disk EXCEPT ![name] = NewFile(name, NoClient, t)]
    BY <1>4 DEF AdminWrite
  <2>2. /\ upload' = [c \in Client |-> Unlink(upload[c], name)]
        /\ UNCHANGED <<phase, files, refresh, wireVars, clientVars, local>>
        /\ ops < MaxOps
    BY <1>4 DEF AdminWrite, Event
  <2> DEFINE file == NewFile(name, NoClient, t)
  <2>3. file # Absent /\ file.mtime > 0
    BY <1>2, <2>2
  <2> HIDE DEF file
  <2>4. \A other \in FileName :
          disk'[other] = IF other = name THEN file ELSE disk[other]
    BY <2>1 DEF TypeOK, Folder, file
  <2>5. NothingGoes /\ Dated(disk)'
    BY <2>3, <2>4 DEF NothingGoes, Dated, CalmInv
  <2>6. \A c \in Client : SameCalm(c) /\ CalmAt(c)
    BY <2>2, UnlinkKeeps DEF SameCalm, SameEnds, CalmInv, TypeOK
  <2> QED
    BY <2>2, <2>5, <2>6, CalmFrame DEF CalmInv
<1>5. Env \cap {"delete", "adminDelete", "clientCrash", "serverCrash"} = {}
  BY DEF Calm
<1> QED
  BY <1>1, <1>3, <1>4, <1>5
     DEF EnvNext, UserDelete, AdminDelete, AdminDeleteFailsStat, ClientCrash,
         ServerCrash, Event

\* Nothing is there at the start.
LEMMA InitIsCalm == Init => CalmInv
<1> SUFFICES ASSUME Init, NEW c \in Client PROVE CalmAt(c)
  BY DEF CalmInv, Init, Dated
<1>1. /\ files[c] = clear_files /\ refresh[c] = NoRefresh
      /\ phase[c] = "dead" /\ pc[c] = "off"
      /\ toServer[c] = <<>> /\ toClient[c] = <<>>
      /\ \A name \in FileName : disk[name] = Absent /\ local[c][name] = Absent
      /\ \A name \in FileName : known[c][name] = 0
      /\ todo[c] = {}
  BY DEF Init, SlotsInit, ClientInit, Everywhere, NothingKnown, EntryName
<1>2. Compact(files[c])
  BY <1>1 DEF Compact, clear_files, EmptySlot
<1>3. Uploaded(c)
  BY <1>1 DEF Uploaded, clear_files, EmptySlot, NoRefresh, Giving
<1> QED
  BY <1>1, <1>2, <1>3
     DEF Init, Dated, CalmAt, Found, Leaves, Promises

\* CalmInv is inductive, together with the invariant of Sync.
LEMMA CalmStep ==
  ASSUME Calm, IInv, CalmInv, [Next]_vars
  PROVE  CalmInv'
<1>1. TypeOK /\ InStep
  BY DEF IInv
<1>2. CASE UNCHANGED vars \/ Boot
  <2>1. \A c \in Client : SameCalm(c) /\ CalmAt(c)
    BY <1>2 DEF vars, slotVars, wireVars, clientVars, SameCalm, SameEnds, CalmInv,
               Boot, ServerBoots
  <2>2. NothingGoes /\ Dated(disk)'
    BY <1>2 DEF vars, NothingGoes, CalmInv, Dated, Boot, ServerBoots
  <2> QED
    BY <2>1, <2>2, CalmFrame DEF CalmInv
<1>3. ASSUME NEW c \in Client, ClientNext(c) PROVE CalmInv'
  <2>1. ClientStep(c) /\ UNCHANGED <<envVars, disk, slotVars>>
    BY <1>3 DEF ClientNext
  <2> QED
    BY <1>1, <2>1, CalmCycle, CalmResponse, CalmClientNever, CalmQuit
       DEF ClientStep
<1> QED
  BY <1>1, <1>2, <1>3, CalmLogin, CalmServer, CalmEnv DEF Next

\* The invariant of a calm system holds in every reachable state: every name in
\* a session's array is in server_files/ or on its way there, a client is never
\* told to remove what the server has, and leaves no session in an upload.
THEOREM CalmInvariance == ASSUME Calm PROVE Spec => [](IInv /\ CalmInv)
<1>1. IInv /\ CalmInv /\ [Next]_vars => (IInv /\ CalmInv)'
  BY CalmStep, StepKeepsInvariant
<1> QED
  BY <1>1, InitIsInvariant, InitIsCalm, PTL DEF Spec

\* What stops the server.
LEMMA CalmStop ==
  ASSUME Calm, IInv, CalmInv, [Next]_vars, serverUp, ~ serverUp'
  PROVE  \E c \in Client : GetDirectory(c)
<1>1. TypeOK /\ InStep
  BY DEF IInv
<1>2. PICK c \in Client : ServerNext(c)
  <2>1. ~ UNCHANGED serverUp
    OBVIOUS
  <2>2. \A c \in Client : ~ Login(c) /\ ~ LoginFails(c) /\ ~ ClientNext(c)
    BY <1>1, <2>1, CalmLogin DEF Login, ServerLogin, ClientNext
  <2>3. ~ Boot
    BY DEF Boot, ServerBoots
  <2>4. ~ EnvNext
    BY <2>1 DEF Calm, EnvNext, Tick, UserWrite, UserDelete, AdminWrite,
       AdminDelete, AdminDeleteFailsStat, ClientCrash, ServerCrash, Event
  <2>5. ~ UNCHANGED vars
    BY <2>1 DEF vars
  <2> QED
    BY <2>2, <2>3, <2>4, <2>5 DEF Next
<1>3. ServerStep(c) /\ UNCHANGED <<envVars, clientVars, local>>
  BY <1>2 DEF ServerNext
<1>4. ~ GetStamp(c)
  <2>1. SUFFICES ASSUME GetStamp(c) PROVE FALSE
    OBVIOUS
  <2>2. Exists(disk, upload[c].name)
    BY <2>1 DEF GetStamp, CalmInv, CalmAt, Uploaded
  <2> QED
    BY <2>1, <2>2 DEF GetStamp
<1> QED
  BY <1>1, <1>3, <1>4, CalmNever, CalmGive
     DEF ServerStep, RefreshFinds, RefreshSkips, RefreshTakes, RefreshDone,
         ClientGone, SendNewFile, NoNewFile, NotifyDeleted, AskForFile,
         SendNewer, AlreadyInSync, GiveFile, GetOpen, GetData

\* While nobody deletes a file, no process is killed and there is room for every
\* client and every name, a step that stops the server is one in which it cannot
\* open the directory that it has asked a client for; none of the other exit(1)
\* calls and fatal signals of dbserver.c is reached.
THEOREM CalmOnlyDirectoriesStop == ASSUME Calm PROVE Spec => OnlyDirectoriesStop
<1> DEFINE Stop == serverUp /\ ~ serverUp' => \E c \in Client : GetDirectory(c)
<1>1. IInv /\ CalmInv /\ [Next]_vars => [Stop]_vars
  BY CalmStop
<1> HIDE DEF Stop
<1>2. Spec => [][Stop]_vars
  BY <1>1, CalmInvariance, PTL DEF Spec
<1> QED
  BY <1>2 DEF OnlyDirectoriesStop, Stop

-----------------------------------------------------------------------------
(***************************************************************************)
(* The same for a user who is alone.                                       *)
(***************************************************************************)
Solo ==
  /\ Calm
  /\ "adminWrite" \notin Env
  /\ \E c \in Client : Client = {c}

Pending(c, name) ==
  phase[c] \in {"getfile", "writing", "stamp"} /\ upload[c].name = name

\* The array is true, apart from the file that is being uploaded; the name of
\* a directory is in it only while the server waits for its content.
TrueAt(c) ==
  \A i \in Entries(c) :
    LET name == files[c][i].filename
    IN  IF Pending(c, name) THEN files[c][i].mtime = upload[c].mtime
        ELSE /\ name \in FileName
             /\ disk[name] # Absent
             /\ disk[name].mtime = files[c][i].mtime

\* fileLength reaches every entry, or will when the transfer is complete.
CoveredAt(c) ==
  \A i \in Entries(c) :
    \/ i <= fileLength[c]
    \/ /\ phase[c] \in {"getfile", "writing", "giveNew"}
       /\ upload[c].name = files[c][i].filename
       /\ i = fileLength[c] + 1

Whole(channel) ==
  \A k \in 1..Len(channel) :
    channel[k].kind = "body" => channel[k].data.id # 0

\* Content is incomplete only where the receiver is writing it.
WholeAt(c) ==
  /\ \A name \in FileName :
       /\ disk[name] # Absent /\ disk[name].data.id = 0 =>
            phase[c] = "writing" /\ upload[c].name = name
       /\ local[c][name] # Absent /\ local[c][name].data.id = 0 =>
            /\ pc[c] \in {"recv", "recvNew"}
            /\ cur[c].name = name
            /\ cur[c].link # "gone"
  /\ phase[c] = "writing" => upload[c].link = "own"
  /\ Whole(toServer[c])
  /\ Whole(toClient[c])

SoloAt(c) ==
  /\ ~ sharing[c]
  /\ TrueAt(c)
  /\ CoveredAt(c)
  /\ WholeAt(c)

SoloInv == CalmInv /\ \A c \in Client : SoloAt(c)

\* What there is to know of the only client.
LEMMA Alone ==
  ASSUME Solo, TypeOK, InStep, SoloInv, NEW c \in Client
  PROVE  /\ Calm /\ CalmInv /\ CalmAt(c) /\ Compact(files[c])
         /\ SoloAt(c) /\ TrueAt(c) /\ CoveredAt(c) /\ WholeAt(c) /\ ~ sharing[c]
         /\ Client = {c}
         /\ NoName \notin EntryName /\ FileName \subseteq EntryName
         /\ Remembers(c)
         /\ files[c] \in FileArray /\ fileLength[c] \in Nat
         /\ disk \in Folder /\ local[c] \in Folder
         /\ upload[c] \in Transfer /\ cur[c] \in Transfer
         /\ toServer[c] \in Seq(Message) /\ toClient[c] \in Seq(Message)
<1>1. CalmAt(c) /\ SoloAt(c) /\ InStepAt(c)
  BY DEF SoloInv, CalmInv, InStep
<1>2. Client = {c}
  BY DEF Solo
<1>3. NoName \notin EntryName /\ FileName \subseteq EntryName
  BY FileTableAssumption DEF EntryName
<1>4. Remembers(c) /\ Compact(files[c])
  BY <1>1 DEF InStepAt, CalmAt
<1>5. TrueAt(c) /\ CoveredAt(c) /\ WholeAt(c) /\ ~ sharing[c]
  BY <1>1 DEF SoloAt
<1> QED
  BY <1>1, <1>2, <1>3, <1>4, <1>5 DEF Solo, SoloInv, TypeOK

\* Writing to and reading from a channel that holds no incomplete content.
LEMMA WholeChannel ==
  ASSUME NEW s \in Seq(Message), Whole(s)
  PROVE  /\ \A m \in Message :
              (m.kind = "body" => m.data.id # 0) => Whole(Append(s, m))
         /\ s # <<>> => /\ Whole(Tail(s))
                        /\ Head(s).kind = "body" => Head(s).data.id # 0
<1>1. ASSUME NEW m \in Message, m.kind = "body" => m.data.id # 0
      PROVE  Whole(Append(s, m))
  <2>1. /\ Len(Append(s, m)) = Len(s) + 1
        /\ \A k \in 1..Len(s) : Append(s, m)[k] = s[k]
        /\ Append(s, m)[Len(s) + 1] = m
        /\ Len(s) \in Nat
    BY AppendProperties, LenProperties
  <2> QED
    BY <1>1, <2>1 DEF Whole
<1>2. ASSUME s # <<>>
      PROVE  /\ Whole(Tail(s))
             /\ Head(s).kind = "body" => Head(s).data.id # 0
  <2>1. /\ Len(Tail(s)) = Len(s) - 1
        /\ \A k \in 1..Len(Tail(s)) : Tail(s)[k] = s[k+1]
        /\ Head(s) = s[1]
    BY <1>2, HeadTailProperties
  <2>2. Len(s) \in Nat \ {0}
    BY <1>2, SMT
  <2> QED
    BY <2>1, <2>2 DEF Whole
<1> QED
  BY <1>1, <1>2

\* The entry that check_file finds or makes is not beyond the end of the array
\* as fileLength has it, or just there.
LEMMA EntryInReach ==
  ASSUME Solo, TypeOK, InStep, SoloInv, NEW c \in Client, phase[c] = "sync",
         NEW name, NEW i \in Slot, CheckFile(files[c], name, i)
  PROVE  /\ i <= fileLength[c] + 1
         /\ \A k \in Entries(c) : k <= fileLength[c]
<1>1. CoveredAt(c) /\ fileLength[c] \in Nat
  BY Alone
<1>2. \A k \in Entries(c) : k <= fileLength[c]
  BY <1>1 DEF CoveredAt
<1>3. CASE i = 1
  BY <1>1, <1>2, <1>3
<1>4. CASE i # 1
  <2>1. i - 1 \in Entries(c)
    <3>1. i - 1 \in Slot /\ i - 1 \in 1..(i-1)
      <4>1. i \in Nat /\ i > 1 /\ i <= MaxFiles /\ MaxFiles \in Nat
        BY <1>4, FileTableAssumption DEF Slot
      <4> QED
        BY <4>1 DEF Slot
    <3>2. ~ Stops(files[c], name, i - 1)
      BY <3>1 DEF CheckFile
    <3> QED
      BY <3>1, <3>2 DEF Stops, Entries
  <2> QED
    BY <1>1, <1>2, <2>1 DEF Slot
<1> QED
  BY <1>2, <1>3, <1>4

\* Finding an entry does not change the array; a new one has mtime 0.
LEMMA SoloEntry ==
  ASSUME Solo, TypeOK, InStep, SoloInv, NEW c \in Client, Named(c),
         NEW i \in Slot, NEW t, Looked(c, i, t)
  PROVE  /\ Entered(c, i, t)
         /\ t # 0 => Table(c, i, t) = files[c]
<1>1. /\ CalmAt(c) /\ Compact(files[c]) /\ ~ sharing[c]
      /\ files[c] \in FileArray
  BY Alone
<1>2. Entered(c, i, t)
  BY <1>1, CalmEntryTime
<1>3. t = files[c][i].mtime
  BY <1>1 DEF Looked, EntryTime, OnDisk
<1>4. ASSUME t # 0 PROVE Table(c, i, t) = files[c]
  <2>1. files[c][i].filename # NoName
    BY <1>1, <1>3, <1>4 DEF Compact
  <2>2. files[c][i] = [filename |-> Packet(c).filename, mtime |-> t]
    <3>1. files[c][i].filename = Packet(c).filename
      BY <1>2, <2>1 DEF Entered
    <3> QED
      BY <1>1, <1>3, <3>1 DEF FileArray, FileInfo
  <2> QED
    BY <1>1, <2>2 DEF Table, Record, FileArray
<1> QED
  BY <1>2, <1>4

\* A step that changes neither the array nor the server's folder.
LEMMA SameArray ==
  ASSUME NEW c \in Client, TrueAt(c), CoveredAt(c),
         UNCHANGED <<disk, phase, upload>>, files'[c] = files[c],
         fileLength'[c] = fileLength[c]
  PROVE  TrueAt(c)' /\ CoveredAt(c)'
  BY DEF TrueAt, CoveredAt, Pending, Entries

\* A step after which the server's folder and the client's are what they were.
LEMMA SameFolders ==
  ASSUME NEW c \in Client, WholeAt(c), UNCHANGED disk, local'[c] = local[c],
         phase[c] = "writing" \/ phase'[c] = "writing" =>
           phase'[c] = phase[c] /\ upload'[c] = upload[c],
         pc[c] \in {"recv", "recvNew"} => pc'[c] = pc[c] /\ cur'[c] = cur[c],
         Whole(toServer'[c]), Whole(toClient'[c])
  PROVE  WholeAt(c)'
  BY DEF WholeAt

-----------------------------------------------------------------------------
(* The steps of the server. *)

\* An answer to a request.
LEMMA SoloAnswer ==
  ASSUME Solo, TypeOK, InStep, SoloInv, NEW c \in Client, Request(c),
         Consume(c), UNCHANGED <<disk, clientVars, local, sharing>>,
         NEW name \in EntryName \cup {NoName}, NEW mtime \in MTimes,
         Respond(c, Header(name, mtime)),
         phase'[c] # "writing", TrueAt(c)', CoveredAt(c)'
  PROVE  SoloAt(c)'
<1>1. /\ WholeAt(c) /\ ~ sharing[c]
      /\ toServer[c] \in Seq(Message) /\ toClient[c] \in Seq(Message)
  BY Alone
<1>2. phase[c] = "sync" /\ toServer[c] # <<>>
  BY DEF Request
<1>3. Whole(toServer'[c])
  <2>1. toServer'[c] = Tail(toServer[c])
    BY DEF Consume, TypeOK
  <2> QED
    BY <1>1, <1>2, <2>1, WholeChannel DEF WholeAt
<1> DEFINE header == Header(name, mtime)
<1>4. header \in Message /\ header.kind = "header"
  BY HeaderIsMessage DEF Header
<1>5. Whole(Append(toClient[c], header)) /\ Whole(toClient[c])
  BY <1>1, <1>4, WholeChannel DEF WholeAt
<1>6. Whole(toClient'[c])
  BY <1>5 DEF Respond, Sent, TypeOK
<1>7. WholeAt(c)'
  BY <1>1, <1>2, <1>3, <1>6, SameFolders DEF clientVars
<1> QED
  BY <1>1, <1>7 DEF SoloAt

\* Requests.
LEMMA SoloPacket ==
  ASSUME Solo, TypeOK, InStep, SoloInv, NEW c \in Client,
         UNCHANGED <<envVars, clientVars, local>>
  PROVE  /\ SendNewFile(c) => SoloAt(c)'
         /\ NoNewFile(c) => SoloAt(c)'
         /\ NotifyDeleted(c) => SoloAt(c)'
         /\ AskForFile(c) => SoloAt(c)'
         /\ SendNewer(c) => SoloAt(c)'
         /\ AlreadyInSync(c) => SoloAt(c)'
<1>1. /\ CalmAt(c) /\ Compact(files[c]) /\ Uploaded(c)
      /\ TrueAt(c) /\ CoveredAt(c)
      /\ NoName \notin EntryName /\ FileName \subseteq EntryName
      /\ files[c] \in FileArray /\ fileLength[c] \in Nat /\ disk \in Folder
  BY Alone DEF CalmAt
<1>2. ASSUME phase[c] = "sync"
      PROVE  \A k \in Entries(c) :
               /\ k <= fileLength[c]
               /\ files[c][k].filename \in FileName
               /\ disk[files[c][k].filename] # Absent
               /\ disk[files[c][k].filename].mtime = files[c][k].mtime
  BY <1>1, <1>2 DEF TrueAt, CoveredAt, Pending
<1>3. ASSUME SendNewFile(c) PROVE SoloAt(c)'
  <2>1. PICK new \in FileName, i \in Slot :
          /\ Unknown(c, new)
          /\ CheckFile(files[c], new, i)
          /\ Announce(c, "giveNew", Header(new, disk[new].mtime))
          /\ files' = [files EXCEPT
                         ![c] = Record(@, i, new, disk[new].mtime)]
    BY <1>3 DEF SendNewFile
  <2>2. /\ Request(c) /\ Consume(c) /\ phase[c] = "sync"
        /\ UNCHANGED <<disk, sharing, fileLength>>
    BY <1>3 DEF SendNewFile, Request
  <2>3. /\ Exists(disk, new) /\ disk[new] # Absent
        /\ disk[new].mtime \in Nat
    BY <1>1, <2>1, FileInFolder DEF Unknown, Exists
  <2>4. /\ files'[c][i].filename = new
        /\ files'[c][i].mtime = disk[new].mtime
        /\ \A k \in Slot \ {i} : files'[c][k] = files[c][k]
    BY <1>1, <2>1 DEF TypeOK, Record, FileArray
  <2>5. /\ Respond(c, Header(new, disk[new].mtime))
        /\ phase'[c] = "giveNew"
        /\ upload'[c].name = new
    BY <1>1, <2>1, <2>3, Announced DEF Giving, MTimes
  <2>6. TrueAt(c)'
    <3>1. \A k \in Slot \ {i} : k \in Entries(c)' => k \in Entries(c)
      BY <2>4 DEF Entries
    <3>2. \A k \in Entries(c)' :
            /\ files'[c][k].filename \in FileName
            /\ disk[files'[c][k].filename] # Absent
            /\ disk[files'[c][k].filename].mtime = files'[c][k].mtime
      BY <1>2, <2>2, <2>3, <2>4, <3>1 DEF Entries
    <3> QED
      BY <2>2, <2>5, <3>2 DEF TrueAt, Pending
  <2>7. CoveredAt(c)'
    <3>1. i <= fileLength[c] \/ i = fileLength[c] + 1
      <4>1. i <= fileLength[c] + 1
        BY <2>1, <2>2, EntryInReach
      <4> QED
        BY <1>1, <4>1 DEF Slot
    <3>2. \A k \in Entries(c)' \ {i} : k <= fileLength[c]
      BY <1>2, <2>2, <2>4 DEF Entries
    <3> QED
      BY <2>2, <2>4, <2>5, <3>1, <3>2 DEF CoveredAt
  <2> QED
    BY <1>1, <2>2, <2>3, <2>5, <2>6, <2>7, SoloAnswer DEF MTimes
<1>4. ASSUME NoNewFile(c) PROVE SoloAt(c)'
  <2>1. /\ Request(c) /\ Consume(c) /\ phase[c] = "sync"
        /\ Respond(c, Header(NoName, 0))
        /\ UNCHANGED <<disk, phase, upload, sharing, files, fileLength>>
    BY <1>4 DEF NoNewFile, Request
  <2>2. TrueAt(c)' /\ CoveredAt(c)'
    BY <1>1, <2>1, SameArray
  <2> QED
    BY <2>1, <2>2, SoloAnswer DEF MTimes
\* the answer to a packet of the walk
<1>5. ASSUME Named(c)
      PROVE  /\ Request(c) /\ phase[c] = "sync"
             /\ Packet(c).filename \in EntryName
             /\ Packet(c).mtime \in Nat \ {0}
  BY <1>1, <1>5, CalmRequest DEF Named
<1>6. ASSUME NotifyDeleted(c) PROVE SoloAt(c)'
  <2>1. /\ Named(c) /\ Consume(c)
        /\ fileLength' = [fileLength EXCEPT ![c] = @ - 1]
        /\ UNCHANGED <<disk, phase, upload, sharing>>
    BY <1>6 DEF NotifyDeleted
  <2>2. PICK i \in Slot : \E t \in EntryTime(c, i), j \in 1..fileLength[c] :
          /\ Looked(c, i, t)
          /\ FirstMissing(Table(c, i, t), fileLength[c], disk, j)
          /\ Respond(c, Header(At(Table(c, i, t), j).filename, Deleted))
          /\ files' = [files EXCEPT
                         ![c] = Clean(Table(c, i, t), fileLength[c], j)]
    BY <1>6 DEF NotifyDeleted
  <2>3. PICK t \in EntryTime(c, i), j \in 1..fileLength[c] :
          /\ Looked(c, i, t)
          /\ FirstMissing(Table(c, i, t), fileLength[c], disk, j)
          /\ Respond(c, Header(At(Table(c, i, t), j).filename, Deleted))
          /\ files' = [files EXCEPT
                         ![c] = Clean(Table(c, i, t), fileLength[c], j)]
    BY <2>2
  <2>4. Restored(c, i, t, j)
    BY <1>1, <2>1, <2>3, MissingIsNew
  <2>5. files'[c] = files[c]
    BY <2>3, <2>4 DEF TypeOK, Restored
  <2>6. fileLength'[c] = fileLength[c] - 1
    BY <2>1 DEF TypeOK
  <2>7. TrueAt(c)'
    BY <1>1, <2>1, <2>5 DEF TrueAt, Pending, Entries
  <2>8. CoveredAt(c)'
    <3>1. \A k \in Entries(c) : k < i
      BY <1>1, <2>4 DEF Restored, Compact, Entries, Slot
    <3>2. i <= fileLength[c]
      BY <2>3, <2>4 DEF Restored
    <3>3. \A k \in Entries(c)' : k <= fileLength'[c]
      BY <1>1, <2>5, <2>6, <3>1, <3>2 DEF Entries, Slot
    <3> QED
      BY <3>3 DEF CoveredAt
  <2>9. /\ Respond(c, Header(Packet(c).filename, Deleted))
        /\ Deleted \in MTimes
    BY <2>3, <2>4 DEF Restored, MTimes
  <2> QED
    BY <1>5, <2>1, <2>7, <2>8, <2>9, SoloAnswer
<1>7. ASSUME AskForFile(c) PROVE SoloAt(c)'
  <2>1. PICK i \in Slot : \E t \in EntryTime(c, i) :
          /\ Answered(c, i, t)
          /\ Respond(c, Header(Packet(c).filename, t))
          /\ files' = [files EXCEPT ![c] = Table(c, i, Packet(c).mtime)]
    BY <1>7 DEF AskForFile
  <2>2. PICK t \in EntryTime(c, i) :
          /\ Looked(c, i, t)
          /\ Respond(c, Header(Packet(c).filename, t))
          /\ files' = [files EXCEPT ![c] = Table(c, i, Packet(c).mtime)]
    BY <2>1 DEF Answered
  <2>3. /\ Named(c) /\ Consume(c)
        /\ phase' = [phase EXCEPT ![c] = "getfile"]
        /\ upload' = [upload EXCEPT ![c] = [name |-> Packet(c).filename,
                                            mtime |-> Packet(c).mtime,
                                            link |-> "gone"]]
        /\ UNCHANGED <<disk, sharing, fileLength>>
    BY <1>7 DEF AskForFile
  <2>4. /\ phase'[c] = "getfile"
        /\ upload'[c].name = Packet(c).filename
        /\ upload'[c].mtime = Packet(c).mtime
        /\ files'[c][i].filename = Packet(c).filename
        /\ files'[c][i].mtime = Packet(c).mtime
        /\ \A k \in Slot \ {i} : files'[c][k] = files[c][k]
    BY <1>1, <2>2, <2>3 DEF TypeOK, Table, Record, FileArray
  <2>5. Entered(c, i, t) /\ t \in MTimes
    BY <2>2, <2>3, SoloEntry DEF Entered, MTimes
  <2>6. \A k \in Slot \ {i} : files[c][k].filename # Packet(c).filename
    <3>1. \A k \in Slot : k < i => files[c][k].filename # Packet(c).filename
      BY <2>2 DEF Looked, CheckFile, Stops, Slot
    <3>2. \A k \in Slot : k > i => files[c][k].filename # Packet(c).filename
      BY <1>1, <1>5, <2>3, <2>5 DEF Entered, Compact
    <3> QED
      BY <3>1, <3>2 DEF Slot
  <2>7. TrueAt(c)'
    <3>1. \A k \in Entries(c)' \ {i} :
            /\ files'[c][k].filename \in FileName
            /\ disk[files'[c][k].filename] # Absent
            /\ disk[files'[c][k].filename].mtime = files'[c][k].mtime
            /\ files'[c][k].filename # Packet(c).filename
      BY <1>2, <1>5, <2>3, <2>4, <2>6 DEF Entries
    <3> QED
      BY <2>3, <2>4, <3>1 DEF TrueAt, Pending
  <2>8. CoveredAt(c)'
    <3>1. \A k \in Entries(c)' \ {i} : k <= fileLength[c]
      BY <1>2, <1>5, <2>3, <2>4 DEF Entries
    <3>2. i <= fileLength[c] \/ i = fileLength[c] + 1
      <4>1. i <= fileLength[c] + 1
        BY <1>5, <2>2, <2>3, EntryInReach DEF Looked
      <4> QED
        BY <1>1, <4>1 DEF Slot
    <3> QED
      BY <2>3, <2>4, <3>1, <3>2 DEF CoveredAt
  <2> QED
    BY <1>5, <2>2, <2>3, <2>4, <2>5, <2>7, <2>8, SoloAnswer
\* an answer that leaves the array alone
<1>8. ASSUME NEW i \in Slot, NEW t \in EntryTime(c, i), Named(c), Consume(c),
             UNCHANGED <<disk, sharing, fileLength>>,
             UNCHANGED <<phase, upload>> \/ phase'[c] = "give",
             Looked(c, i, t), t # 0,
             files' = [files EXCEPT ![c] = Table(c, i, t)],
             Respond(c, Header(Packet(c).filename, t))
      PROVE  SoloAt(c)'
  <2>1. Entered(c, i, t) /\ Table(c, i, t) = files[c]
    BY <1>8, SoloEntry
  <2>2. files'[c] = files[c] /\ t \in MTimes
    BY <1>8, <2>1 DEF TypeOK, Entered, MTimes
  <2>3. TrueAt(c)' /\ CoveredAt(c)'
    BY <1>2, <1>5, <1>8, <2>2 DEF TrueAt, CoveredAt, Pending, Entries
  <2>4. phase'[c] # "writing"
    BY <1>5, <1>8
  <2> QED
    BY <2>4, <1>5, <1>8, <2>2, <2>3, SoloAnswer
<1>9. ASSUME SendNewer(c) PROVE SoloAt(c)'
  <2>1. PICK i \in Slot : \E t \in EntryTime(c, i) :
          /\ Answered(c, i, t)
          /\ Packet(c).mtime \in 0..(t-1)
          /\ Announce(c, "give", Header(Packet(c).filename, t))
          /\ files' = [files EXCEPT ![c] = Table(c, i, t)]
    BY <1>9 DEF SendNewer
  <2>2. PICK t \in EntryTime(c, i) :
          /\ Looked(c, i, t)
          /\ Packet(c).mtime \in 0..(t-1)
          /\ Announce(c, "give", Header(Packet(c).filename, t))
          /\ files' = [files EXCEPT ![c] = Table(c, i, t)]
    BY <2>1 DEF Answered
  <2>3. /\ Named(c) /\ Consume(c)
        /\ UNCHANGED <<disk, sharing, fileLength>>
    BY <1>9 DEF SendNewer
  <2>4. t # 0
    BY <2>2
  <2>5. t \in MTimes
    BY <2>2, <2>3, SoloEntry DEF Entered, MTimes
  <2>6. /\ Respond(c, Header(Packet(c).filename, t))
        /\ phase'[c] = "give"
    BY <1>5, <2>2, <2>3, <2>5, Announced DEF Giving
  <2> QED
    BY <1>8, <2>2, <2>3, <2>4, <2>6
<1>10. ASSUME AlreadyInSync(c) PROVE SoloAt(c)'
  <2>1. PICK i \in Slot : \E t \in EntryTime(c, i) :
          /\ Answered(c, i, t)
          /\ Packet(c).mtime = t
          /\ Respond(c, Header(Packet(c).filename, t))
          /\ files' = [files EXCEPT ![c] = Table(c, i, t)]
    BY <1>10 DEF AlreadyInSync
  <2>2. PICK t \in EntryTime(c, i) :
          /\ Looked(c, i, t)
          /\ Packet(c).mtime = t
          /\ Respond(c, Header(Packet(c).filename, t))
          /\ files' = [files EXCEPT ![c] = Table(c, i, t)]
    BY <2>1 DEF Answered
  <2>3. /\ Named(c) /\ Consume(c)
        /\ UNCHANGED <<disk, phase, upload, sharing, fileLength>>
    BY <1>10 DEF AlreadyInSync
  <2>4. t # 0
    BY <1>5, <2>2, <2>3
  <2> QED
    BY <1>8, <2>2, <2>3, <2>4
<1> QED
  BY <1>3, <1>4, <1>6, <1>7, <1>9, <1>10

\* A refresh finds nothing that is newer than the array says.
LEMMA SoloRefresh ==
  ASSUME Solo, TypeOK, InStep, SoloInv, NEW c \in Client,
         UNCHANGED <<envVars, clientVars, local>>,
         \/ RefreshFinds(c) \/ RefreshSkips(c) \/ RefreshDone(c)
         \/ RefreshTakes(c)
  PROVE  SoloAt(c)'
<1>1. /\ TrueAt(c) /\ CoveredAt(c) /\ WholeAt(c) /\ ~ sharing[c]
      /\ files[c] \in FileArray
  BY Alone
<1>2. /\ phase[c] = "sync"
      /\ UNCHANGED <<disk, phase, sharing, fileLength, upload, wireVars>>
  BY DEF RefreshFinds, RefreshSkips, RefreshDone, RefreshTakes, AtEntry,
         Refreshing
<1>3. files'[c] = files[c]
  <2>1. CASE files' = files
    BY <2>1
  <2>2. CASE RefreshTakes(c)
    <3> DEFINE i == refresh[c].entry
    <3>1. PICK t \in DirTime :
            files' = [files EXCEPT ![c] = RefreshEntry(@, i, disk, t)]
      BY <2>2 DEF RefreshTakes
    <3>2. i \in Entries(c)
      BY <2>2 DEF RefreshTakes, AtEntry, RefreshName, At, EmptySlot, Entries
    <3> HIDE DEF i
    <3>3. /\ files[c][i].filename \in FileName
          /\ disk[files[c][i].filename].mtime = files[c][i].mtime
          /\ files[c][i].mtime \in Nat
      BY <1>1, <1>2, <3>2 DEF TrueAt, Pending, FileArray, FileInfo, Entries
    <3>4. MTime(disk, files[c][i].filename, t) = files[c][i].mtime
      BY <3>3, FileTableAssumption DEF MTime
    <3>5. RefreshEntry(files[c], i, disk, t) = files[c]
      BY <3>3, <3>4 DEF RefreshEntry
    <3> QED
      BY <3>1, <3>5 DEF TypeOK
  <2> QED
    BY <2>1, <2>2 DEF RefreshFinds, RefreshSkips, RefreshDone
<1>4. TrueAt(c)' /\ CoveredAt(c)'
  BY <1>1, <1>2, <1>3, SameArray
<1>5. WholeAt(c)'
  BY <1>1, <1>2, SameFolders DEF wireVars, clientVars, WholeAt
<1> QED
  BY <1>1, <1>2, <1>4, <1>5 DEF SoloAt

\* The end of a request: the file is whole, as nobody is writing it.
LEMMA SoloGive ==
  ASSUME Solo, TypeOK, InStep, SoloInv, NEW c \in Client,
         UNCHANGED <<envVars, clientVars, local>>, GiveFile(c)
  PROVE  SoloAt(c)'
<1> DEFINE name == upload[c].name
           body == Body(disk[name].data)
<1>1. /\ TrueAt(c) /\ CoveredAt(c) /\ WholeAt(c) /\ ~ sharing[c]
      /\ fileLength[c] \in Nat /\ disk \in Folder
      /\ toClient[c] \in Seq(Message)
  BY Alone
<1>2. /\ phase[c] \in Giving
      /\ Exists(disk, name)
      /\ IF name \in FileName THEN Respond(c, body) ELSE UNCHANGED toClient
      /\ phase'[c] = "sync"
      /\ fileLength'[c] = IF phase[c] = "giveNew" THEN fileLength[c] + 1
                         ELSE fileLength[c]
      /\ UNCHANGED <<disk, sharing, files, toServer>>
  BY DEF GiveFile, TypeOK
<1>3. phase[c] \notin {"getfile", "writing", "stamp"}
  BY <1>2 DEF Giving
<1>4. TrueAt(c)'
  BY <1>1, <1>2, <1>3 DEF TrueAt, Pending, Entries
<1>5. CoveredAt(c)'
  <2>1. \A i \in Entries(c) : i \in Nat
    BY DEF Entries, Slot
  <2> QED
    BY <1>1, <1>2, <1>3, <2>1 DEF CoveredAt, Entries
<1>6. Whole(toClient'[c])
  <2>1. CASE name \in FileName
    <3>1. body \in Message /\ body.data = disk[name].data
      BY <1>1, <1>2, <2>1, FileInFolder, BodyIsMessage
    <3>2. disk[name].data.id # 0
      BY <1>1, <1>2, <1>3, <2>1 DEF WholeAt, Exists
    <3> HIDE DEF body
    <3>3. Whole(Append(toClient[c], body)) /\ Whole(toClient[c])
      BY <1>1, <3>1, <3>2, WholeChannel DEF WholeAt
    <3> QED
      BY <1>2, <2>1, <3>3 DEF Respond, Sent, TypeOK
  <2>2. CASE name \notin FileName
    BY <1>1, <1>2, <2>2 DEF WholeAt
  <2> QED
    BY <2>1, <2>2
<1>7. WholeAt(c)'
  BY <1>1, <1>2, <1>3, <1>6, SameFolders DEF clientVars, WholeAt
<1> QED
  BY <1>1, <1>2, <1>4, <1>5, <1>7 DEF SoloAt

\* The server stops before it has opened a file: the arrays are empty again,
\* and nothing in its folder is incomplete.
LEMMA SoloDeath ==
  ASSUME Solo, TypeOK, InStep, SoloInv, NEW c \in Client,
         UNCHANGED <<envVars, clientVars, local>>, GetDirectory(c)
  PROVE  SoloAt(c)'
<1>1. WholeAt(c) /\ toClient[c] \in Seq(Message)
  BY Alone
<1>2. phase[c] = "getfile" /\ ServerDies /\ UNCHANGED disk
  BY DEF GetDirectory
<1>3. /\ files'[c] = clear_files /\ phase'[c] = "dead" /\ ~ sharing'[c]
      /\ toServer'[c] = <<>>
      /\ toClient'[c] \in {toClient[c], Trim(toClient[c])}
  BY <1>2 DEF ServerDies, DiesHavingSent, SlotsReset, Everywhere
<1>4. Entries(c)' = {}
  BY <1>3 DEF Entries, clear_files, EmptySlot
<1>5. Whole(toServer'[c])
  BY <1>3 DEF Whole
<1>6. Whole(toClient'[c])
  <2> DEFINE s == toClient[c]
             last == Len(s)
  <2>1. Whole(s)
    BY <1>1 DEF WholeAt
  <2>2. ASSUME s # <<>>
        PROVE  /\ Len(SubSeq(s, 1, last - 1)) = last - 1
               /\ \A k \in 1..(last - 1) : SubSeq(s, 1, last - 1)[k] = s[k]
               /\ last \in Nat
    BY <1>1, <2>2, SMT
  <2> HIDE DEF s, last
  <2>3. Whole(Trim(s))
    BY <2>1, <2>2 DEF Trim, Whole, last
  <2> QED
    BY <1>3, <2>1, <2>3 DEF s
<1>7. WholeAt(c)'
  BY <1>1, <1>2, <1>3, <1>5, <1>6, SameFolders DEF clientVars
<1> QED
  BY <1>3, <1>4, <1>7 DEF SoloAt, TrueAt, CoveredAt

\* The end of a session, and uploads.
LEMMA SoloUpload ==
  ASSUME Solo, TypeOK, InStep, SoloInv, NEW c \in Client,
         UNCHANGED <<envVars, clientVars, local>>
  PROVE  /\ ClientGone(c) => SoloAt(c)'
         /\ GetOpen(c) => SoloAt(c)'
         /\ GetData(c) => SoloAt(c)'
         /\ GetStamp(c) => SoloAt(c)'
<1> USE DEF wireVars, clientVars
<1>1. /\ TrueAt(c) /\ CoveredAt(c) /\ WholeAt(c) /\ ~ sharing[c]
      /\ Client = {c} /\ Remembers(c)
      /\ files[c] \in FileArray /\ fileLength[c] \in Nat /\ disk \in Folder
      /\ upload[c] \in Transfer
      /\ toServer[c] \in Seq(Message) /\ toClient[c] \in Seq(Message)
  BY Alone
<1>2. Whole(toServer[c]) /\ Whole(toClient[c])
  BY <1>1 DEF WholeAt
<1>4. ASSUME ClientGone(c) PROVE SoloAt(c)'
  <2>1. /\ phase[c] = "sync" /\ phase'[c] = "dead" /\ toServer'[c] = <<>>
        /\ UNCHANGED <<disk, sharing, files, fileLength, toClient>>
    BY <1>4 DEF ClientGone, CloseConnection, TypeOK
  <2>2. TrueAt(c)' /\ CoveredAt(c)'
    BY <1>1, <2>1 DEF TrueAt, CoveredAt, Pending, Entries
  <2>3. Whole(toServer'[c])
    BY <2>1 DEF Whole
  <2>4. WholeAt(c)'
    BY <1>1, <1>2, <2>1, <2>3, SameFolders
  <2> QED
    BY <1>1, <2>1, <2>2, <2>4 DEF SoloAt
<1>5. ASSUME GetOpen(c) PROVE SoloAt(c)'
  <2> DEFINE name == upload[c].name
             file == [mtime |-> now, data |-> Torn(name)]
  <2>1. /\ phase[c] = "getfile" /\ name \in FileName
        /\ disk' = [disk EXCEPT ![name] = file]
        /\ phase'[c] = "writing"
        /\ UNCHANGED <<sharing, files, fileLength, toServer, toClient>>
    BY <1>5 DEF GetOpen, TypeOK
  <2>2. upload'[c].name = name /\ upload'[c].mtime = upload[c].mtime
    BY <1>5, OpenKeeps
  <2>3. upload'[c].link = "own"
    BY <1>1, <1>5 DEF GetOpen, Transfer
  <2>4. file.data.id = 0
    BY DEF Torn
  <2> HIDE DEF name, file
  <2>5. \A other \in FileName :
          disk'[other] = IF other = name THEN file ELSE disk[other]
    BY <1>1, <2>1 DEF Folder
  <2>6. TrueAt(c)' /\ CoveredAt(c)'
    <3>1. \A i \in Entries(c) :
            files[c][i].filename \in FileName \/ Pending(c, files[c][i].filename)
      BY <1>1 DEF TrueAt
    <3>2. Entries(c)' = Entries(c)
      BY <2>1 DEF Entries
    <3> QED
      BY <1>1, <2>1, <2>2, <2>5, <3>1, <3>2 DEF TrueAt, CoveredAt, Pending, name
  <2>7. WholeAt(c)'
    BY <1>1, <1>2, <2>1, <2>2, <2>3, <2>5 DEF WholeAt, name
  <2> QED
    BY <1>1, <2>1, <2>6, <2>7 DEF SoloAt
<1>6. ASSUME GetData(c) PROVE SoloAt(c)'
  <2> DEFINE name == upload[c].name
             file == [mtime |-> now, data |-> Packet(c).data]
  <2>1. /\ phase[c] = "writing" /\ toServer[c] # <<>>
        /\ Packet(c).kind = "body"
        /\ phase'[c] = "stamp" /\ toServer'[c] = Tail(toServer[c])
        /\ fileLength'[c] = fileLength[c] + 1
        /\ UNCHANGED <<sharing, files, upload, toClient>>
    BY <1>6 DEF GetData, Consume, TypeOK
  <2>2. upload[c].link = "own"
    BY <1>1, <2>1 DEF WholeAt
  <2>3. disk' = [disk EXCEPT ![name] = file]
    BY <1>6, <2>2 DEF GetData
  <2>4. file.data.id # 0 /\ Whole(toServer'[c])
    BY <1>1, <1>2, <2>1, WholeChannel DEF Packet
  <2>5. file # Absent
    <3>1. Packet(c).data \in Content
      BY <2>1, RequestIsMessage
    <3>2. file \in File
      BY <3>1, SyncAssumption DEF File, TypeOK
    <3> QED
      BY <3>2, AbsentAssumption
  <2> HIDE DEF name, file
  <2>6. \A other \in FileName :
          disk'[other] = IF other = name THEN file ELSE disk[other]
    BY <1>1, <2>3 DEF Folder
  <2>7. TrueAt(c)'
    <3>1. \A i \in Entries(c) :
            files[c][i].filename \in FileName \/ Pending(c, files[c][i].filename)
      BY <1>1 DEF TrueAt
    <3>2. Entries(c)' = Entries(c)
      BY <2>1 DEF Entries
    <3> QED
      BY <1>1, <2>1, <2>6, <3>1, <3>2 DEF TrueAt, Pending, name
  <2>8. CoveredAt(c)'
    <3>1. \A i \in Entries(c) : i <= fileLength[c] + 1
      BY <1>1 DEF CoveredAt, Entries, Slot
    <3> QED
      BY <2>1, <3>1 DEF CoveredAt, Entries
  <2>9. WholeAt(c)'
    BY <1>1, <1>2, <2>1, <2>4, <2>6 DEF WholeAt, name
  <2> QED
    BY <1>1, <2>1, <2>7, <2>8, <2>9 DEF SoloAt
<1>7. ASSUME GetStamp(c) PROVE SoloAt(c)'
  <2> DEFINE name == upload[c].name
             file == [disk[name] EXCEPT !.mtime = upload[c].mtime]
  <2>1. phase[c] = "stamp" /\ name \in FileName
    BY <1>1, <1>7 DEF GetStamp, Remembers
  <2>2. Exists(disk, name)
    <3>1. CalmAt(c)
      BY Alone
    <3> QED
      BY <2>1, <3>1 DEF CalmAt, Uploaded, Exists
  <2>3. /\ disk' = [disk EXCEPT ![name].mtime = upload[c].mtime]
        /\ phase'[c] = "sync"
        /\ UNCHANGED <<sharing, files, fileLength, toServer, toClient>>
    BY <1>7, <2>2 DEF GetStamp, TypeOK
  <2>4. /\ file.mtime = upload[c].mtime /\ file.data = disk[name].data
        /\ file # Absent
    <3>1. disk[name] \in File
      BY <1>1, <2>1, <2>2, FileInFolder
    <3>2. file \in File
      BY <1>1, <3>1 DEF File, Remembers
    <3> QED
      BY <3>1, <3>2, AbsentAssumption DEF File
  <2>5. \A other \in FileName :
          disk'[other] = IF other = name THEN file ELSE disk[other]
    BY <1>1, <2>1, <2>3 DEF Folder
  <2> HIDE DEF name, file
  <2>6. TrueAt(c)'
    <3>1. \A i \in Entries(c) :
            files[c][i].filename \in FileName \/ Pending(c, files[c][i].filename)
      BY <1>1 DEF TrueAt
    <3>2. Entries(c)' = Entries(c)
      BY <2>3 DEF Entries
    <3> QED
      BY <1>1, <2>1, <2>3, <2>4, <2>5, <3>1, <3>2 DEF TrueAt, Pending, name
  <2>7. CoveredAt(c)'
    BY <1>1, <2>1, <2>3 DEF CoveredAt, Entries
  <2>8. WholeAt(c)'
    BY <1>1, <1>2, <2>1, <2>2, <2>3, <2>4, <2>5 DEF WholeAt, name, Exists
  <2> QED
    BY <1>1, <2>3, <2>6, <2>7, <2>8 DEF SoloAt
<1> QED
  BY <1>4, <1>5, <1>6, <1>7

-----------------------------------------------------------------------------
(* Steps of the client, connecting, and the environment. *)

\* What the client puts on the wire and takes from it leaves it whole.
LEMMA SoloWire ==
  ASSUME Solo, TypeOK, InStep, SoloInv, NEW c \in Client
  PROVE  /\ Whole(toServer[c]) /\ Whole(toClient[c])
         /\ \A m \in Message :
              (m.kind = "body" => m.data.id # 0) /\ Send(c, m) =>
                Whole(toServer'[c])
         /\ toClient[c] # <<>> =>
              /\ Receive(c) => Whole(toClient'[c])
              /\ Response(c).kind = "body" => Response(c).data.id # 0
<1>1. /\ Whole(toServer[c]) /\ Whole(toClient[c])
      /\ toServer[c] \in Seq(Message) /\ toClient[c] \in Seq(Message)
  BY Alone DEF WholeAt
<1>2. ASSUME NEW m \in Message, m.kind = "body" => m.data.id # 0, Send(c, m)
      PROVE  Whole(toServer'[c])
  <2>1. toServer'[c] \in {toServer[c], Append(toServer[c], m)}
    BY <1>2 DEF Send, TypeOK
  <2> QED
    BY <1>1, <1>2, <2>1, WholeChannel
<1>3. ASSUME toClient[c] # <<>>
      PROVE  /\ Receive(c) => Whole(toClient'[c])
             /\ Response(c).kind = "body" => Response(c).data.id # 0
  <2>1. Receive(c) => toClient'[c] = Tail(toClient[c])
    BY DEF Receive, TypeOK
  <2> QED
    BY <1>1, <1>3, <2>1, WholeChannel DEF Response
<1> QED
  BY <1>1, <1>2, <1>3

\* The client does not touch what the server has.
LEMMA SoloClient ==
  ASSUME Solo, TypeOK, InStep, SoloInv, NEW c \in Client,
         UNCHANGED <<disk, slotVars>>, WholeAt(c)'
  PROVE  SoloAt(c)'
<1>1. ~ sharing[c] /\ TrueAt(c) /\ CoveredAt(c)
  BY Alone
<1>2. TrueAt(c)' /\ CoveredAt(c)'
  BY <1>1, SameArray DEF slotVars
<1> QED
  BY <1>1, <1>2 DEF SoloAt, slotVars

\* Steps after which the folder is what it was.
LEMMA SoloCycle ==
  ASSUME Solo, TypeOK, InStep, SoloInv, NEW c \in Client,
         UNCHANGED <<envVars, disk, slotVars>>
  PROVE  /\ StartWalk(c) => SoloAt(c)'
         /\ NullName(c) => SoloAt(c)'
         /\ (\E name \in EntryName : Walk(c, name)) => SoloAt(c)'
         /\ WalkDone(c) => SoloAt(c)'
         /\ SendFile(c) => SoloAt(c)'
         /\ SameTime(c) => SoloAt(c)'
         /\ CycleDone(c) => SoloAt(c)'
         /\ Unanswered(c) \/ GetNewerDirectory(c) => SoloAt(c)'
<1> USE DEF slotVars, wireVars
<1>1. /\ WholeAt(c) /\ Remembers(c) /\ local[c] \in Folder
  BY Alone
<1>2. /\ Whole(toServer[c]) /\ Whole(toClient[c])
      /\ \A m \in Message :
           (m.kind = "body" => m.data.id # 0) /\ Send(c, m) =>
             Whole(toServer'[c])
      /\ toClient[c] # <<>> /\ Receive(c) => Whole(toClient'[c])
  BY SoloWire
<1>3. ASSUME pc[c] \notin {"recv", "recvNew"}, local'[c] = local[c],
             Whole(toServer'[c]), Whole(toClient'[c])
      PROVE  SoloAt(c)'
  <2>1. WholeAt(c)'
    BY <1>1, <1>3, SameFolders
  <2> QED
    BY <2>1, SoloClient
<1>4. ASSUME NEW name \in EntryName \cup {NoName}, NEW mtime \in MTimes,
             Send(c, Header(name, mtime))
      PROVE  Whole(toServer'[c])
  <2>1. Header(name, mtime) \in Message /\ Header(name, mtime).kind = "header"
    BY HeaderIsMessage DEF Header
  <2> QED
    BY <1>2, <1>4, <2>1
<1>5. ASSUME StartWalk(c) PROVE SoloAt(c)'
  BY <1>2, <1>3, <1>5 DEF StartWalk
<1>6. ASSUME NullName(c) \/ Unanswered(c) \/ GetNewerDirectory(c)
      PROVE  SoloAt(c)'
  <2>1. /\ toClient'[c] = <<>> /\ UNCHANGED <<local, toServer>>
        /\ pc[c] \notin {"recv", "recvNew"}
    BY <1>6 DEF NullName, Unanswered, GetNewerDirectory, SyncAcked, ExitOnly,
               Exit, TypeOK
  <2>2. Whole(toClient'[c])
    BY <2>1 DEF Whole
  <2> QED
    BY <1>2, <1>3, <2>1, <2>2
<1>7. ASSUME NEW name \in EntryName, Walk(c, name) PROVE SoloAt(c)'
  <2>1. PICK t \in DirTime : Send(c, Header(name, MTime(local[c], name, t)))
    BY <1>7 DEF Walk
  <2>2. pc[c] = "walk" /\ UNCHANGED <<local, toClient>> /\ Exists(local[c], name)
    BY <1>7 DEF Walk
  <2>3. MTime(local[c], name, t) \in MTimes
    BY <1>1, <2>2, FileInFolder, DirTimeIsTime DEF MTime, MTimes, EntryName
  <2>4. Whole(toServer'[c])
    BY <1>4, <2>1, <2>3
  <2> QED
    BY <1>2, <1>3, <2>2, <2>4
<1>8. ASSUME WalkDone(c) PROVE SoloAt(c)'
  <2>1. /\ pc[c] = "walk" /\ UNCHANGED <<local, toClient>>
        /\ Send(c, Header(NoName, 0))
    BY <1>8 DEF WalkDone, AskNew
  <2>2. Whole(toServer'[c])
    BY <1>4, <2>1 DEF MTimes
  <2> QED
    BY <1>2, <1>3, <2>1, <2>2
<1>9. ASSUME SendFile(c) PROVE SoloAt(c)'
  <2> DEFINE name == cur[c].name
             body == Body(local[c][name].data)
  <2>1. /\ pc[c] = "ackSync" /\ toClient[c] # <<>> /\ Receive(c)
        /\ local' = local /\ Exists(local[c], name)
        /\ IF name \in FileName THEN Send(c, body) ELSE UNCHANGED toServer
    BY <1>9 DEF SendFile, SyncAcked, Acked
  <2>2. ASSUME name \in FileName PROVE body \in Message /\ body.data.id # 0
    <3>1. body \in Message /\ body.data = local[c][name].data
      BY <1>1, <2>1, <2>2, FileInFolder, BodyIsMessage DEF Body
    <3>2. local[c][name].data.id # 0
      BY <1>1, <2>1, <2>2 DEF WholeAt, Exists
    <3> QED
      BY <3>1, <3>2
  <2>3. Whole(toServer'[c])
    BY <1>2, <2>1, <2>2
  <2> QED
    BY <1>2, <1>3, <2>1, <2>3
<1>10. ASSUME SameTime(c) \/ CycleDone(c) PROVE SoloAt(c)'
  <2>1. /\ pc[c] \in {"ackSync", "ackNew"} /\ toClient[c] # <<>> /\ Receive(c)
        /\ UNCHANGED <<local, toServer>>
    BY <1>10 DEF SameTime, CycleDone, SyncAcked, Acked
  <2> QED
    BY <1>2, <1>3, <2>1
<1> QED
  BY <1>5, <1>6, <1>7, <1>8, <1>9, <1>10

\* Steps that change the folder.
LEMMA SoloResponse ==
  ASSUME Solo, TypeOK, InStep, SoloInv, NEW c \in Client,
         UNCHANGED <<envVars, disk, slotVars>>
  PROVE  /\ RemoveFile(c) => SoloAt(c)'
         /\ GetNewer(c) \/ GetNew(c) => SoloAt(c)'
         /\ GetDone(c) \/ GetNewDone(c) => SoloAt(c)'
<1> USE DEF slotVars, wireVars
<1>1. /\ WholeAt(c) /\ Remembers(c)
      /\ local[c] \in Folder /\ cur[c] \in Transfer
  BY Alone
<1>2. /\ Whole(toServer[c]) /\ Whole(toClient[c])
      /\ \A m \in Message :
           (m.kind = "body" => m.data.id # 0) /\ Send(c, m) =>
             Whole(toServer'[c])
      /\ toClient[c] # <<>> =>
           /\ Receive(c) => Whole(toClient'[c])
           /\ Response(c).kind = "body" => Response(c).data.id # 0
  BY SoloWire
<1>3. ASSUME RemoveFile(c) PROVE SoloAt(c)'
  <2> DEFINE name == Response(c).filename
  <2>1. /\ pc[c] = "ackSync" /\ toClient[c] # <<>> /\ Receive(c)
        /\ UNCHANGED toServer
        /\ local' = IF name \in FileName
                    THEN [local EXCEPT ![c][name] = Absent] ELSE local
    BY <1>3 DEF RemoveFile, SyncAcked, Acked
  <2> HIDE DEF name
  <2>2. \A other \in FileName : local'[c][other] \in {Absent, local[c][other]}
    BY <1>1, <2>1 DEF TypeOK, Folder
  <2>3. WholeAt(c)'
    BY <1>1, <1>2, <2>1, <2>2 DEF WholeAt
  <2> QED
    BY <2>3, SoloClient
<1>4. ASSUME NEW position \in {"recv", "recvNew"}, GetOpenLocal(c, position),
             toClient[c] # <<>>, pc[c] \in {"ackSync", "ackNew"}
      PROVE  SoloAt(c)'
  <2> DEFINE name == Response(c).filename
             file == [mtime |-> now, data |-> Torn(name)]
  <2>1. /\ name \in FileName
        /\ local' = [local EXCEPT ![c][name] = file]
        /\ cur' = [cur EXCEPT ![c] = [name |-> name,
                                      mtime |-> Response(c).mtime,
                                      link |-> "own"]]
        /\ pc' = [pc EXCEPT ![c] = position]
        /\ Receive(c)
        /\ UNCHANGED toServer
    BY <1>4 DEF GetOpenLocal
  <2> HIDE DEF name, file
  <2>2. /\ \A other \in FileName :
             local'[c][other] = IF other = name THEN file ELSE local[c][other]
        /\ pc'[c] = position
        /\ cur'[c].name = name /\ cur'[c].link = "own"
    BY <1>1, <2>1 DEF TypeOK, Folder
  <2>3. WholeAt(c)'
    BY <1>1, <1>2, <1>4, <2>1, <2>2 DEF WholeAt
  <2> QED
    BY <2>3, SoloClient
<1>5. ASSUME GetNewer(c) \/ GetNew(c) PROVE SoloAt(c)'
  BY <1>4, <1>5 DEF GetNewer, GetNew, SyncAcked, Acked
<1>6. ASSUME GetDone(c) \/ GetNewDone(c) PROVE SoloAt(c)'
  <2> DEFINE name == cur[c].name
             file == [mtime |-> cur[c].mtime,
                      data |-> IF cur[c].link = "gone" THEN local[c][name].data
                               ELSE Response(c).data]
  <2>1. /\ pc[c] \in {"recv", "recvNew"} /\ toClient[c] # <<>>
        /\ Response(c).kind = "body"
        /\ Exists(local[c], name)
        /\ local' = [local EXCEPT ![c][name] = file]
        /\ Receive(c)
        /\ toServer' = toServer \/ Send(c, Header(NoName, 0))
    BY <1>6 DEF GetDone, GetNewDone, Received, AskNew
  <2>2. name \in FileName
    BY <1>1, <2>1 DEF Remembers
  \* a user who has saved the file meanwhile keeps that version
  <2>3. file.data.id # 0
    BY <1>1, <1>2, <2>1, <2>2 DEF WholeAt, Exists
  <2>4. Whole(toServer'[c])
    <3>1. Header(NoName, 0) \in Message /\ Header(NoName, 0).kind = "header"
      BY HeaderIsMessage DEF Header, MTimes
    <3> QED
      BY <1>2, <2>1, <3>1
  <2> HIDE DEF file
  <2>5. \A other \in FileName :
          local'[c][other] = IF other = name THEN file ELSE local[c][other]
    BY <1>1, <2>1 DEF TypeOK, Folder
  <2>6. \A other \in FileName :
          local'[c][other] # Absent => local'[c][other].data.id # 0
    BY <1>1, <2>1, <2>3, <2>5 DEF WholeAt
  <2>7. WholeAt(c)'
    BY <1>1, <1>2, <2>1, <2>4, <2>6 DEF WholeAt
  <2> QED
    BY <2>7, SoloClient
<1> QED
  BY <1>3, <1>5, <1>6

\* Nobody else has a slot, so a user is not taken to share the directory.
LEMMA SoloLogin ==
  ASSUME Solo, TypeOK, InStep, SoloInv, NEW c \in Client, Login(c)
  PROVE  SoloAt(c)'
<1>1. /\ WholeAt(c) /\ TrueAt(c) /\ CoveredAt(c) /\ Client = {c}
  BY Alone
<1>2. /\ phase[c] = "dead" /\ phase'[c] = "sync"
      /\ pc[c] = "off"
      /\ UNCHANGED <<disk, files, fileLength, upload, toServer, toClient, cur,
                     local>>
      /\ sharing'[c] = (\E o \in slots \ {c} : DirOf[o] = DirOf[c])
  BY DEF Login, ServerLogin, ClientStart, wireVars, TypeOK
<1>3. ~ sharing'[c]
  BY <1>1, <1>2 DEF TypeOK
<1>4. TrueAt(c)' /\ CoveredAt(c)'
  BY <1>1, <1>2 DEF TrueAt, CoveredAt, Pending, Entries
<1>5. WholeAt(c)'
  BY <1>1, <1>2, SameFolders DEF WholeAt
<1> QED
  BY <1>3, <1>4, <1>5 DEF SoloAt

\* The clock, and the user who saves a file: what was being received under its
\* name is not completed any more.
LEMMA SoloEnv ==
  ASSUME Solo, TypeOK, InStep, SoloInv, NEW c \in Client, EnvNext
  PROVE  SoloAt(c)'
<1> USE DEF slotVars, wireVars, clientVars
<1>1. /\ WholeAt(c) /\ Client = {c} /\ cur[c] \in Transfer
      /\ local[c] \in Folder
  BY Alone
<1>2. CASE Tick
  <2>1. WholeAt(c)'
    BY <1>1, <1>2 DEF Tick, WholeAt
  <2> QED
    BY <1>2, <2>1, SoloClient DEF Tick
<1>3. ASSUME NEW name \in FileName, UserWrite(c, name) PROVE SoloAt(c)'
  <2>1. PICK t \in NewTime(name) :
          local' = [local EXCEPT ![c][name] = NewFile(name, c, t)]
    BY <1>3 DEF UserWrite
  <2>2. /\ cur'[c] = Unlink(cur[c], name)
        /\ UNCHANGED <<serverUp, disk, slotVars, wireVars, pc>>
    BY <1>3 DEF UserWrite, TypeOK
  <2> DEFINE file == NewFile(name, c, t)
  <2>3. file.data.id # 0
    BY DEF NewFile, TypeOK
  <2> HIDE DEF file
  <2>4. \A other \in FileName :
          local'[c][other] = IF other = name THEN file ELSE local[c][other]
    BY <1>1, <2>1 DEF Folder, TypeOK, file
  <2>5. /\ cur'[c].name = cur[c].name
        /\ cur[c].name # name => cur'[c].link = cur[c].link
    BY <1>1, <2>2 DEF Unlink, Transfer
  <2>6. WholeAt(c)'
    BY <1>1, <2>2, <2>3, <2>4, <2>5 DEF WholeAt
  <2> QED
    BY <2>2, <2>6, SoloClient
<1>4. Env \cap {"delete", "adminWrite", "adminDelete", "clientCrash",
                "serverCrash"} = {}
  BY DEF Solo, Calm
<1> QED
  BY <1>1, <1>2, <1>3, <1>4
     DEF EnvNext, UserDelete, AdminWrite, AdminDelete, AdminDeleteFailsStat,
         ClientCrash, ServerCrash, Event

LEMMA InitIsSolo == Init => SoloInv
<1> SUFFICES ASSUME Init, NEW c \in Client PROVE SoloAt(c)
  BY InitIsCalm DEF SoloInv
<1>1. /\ files[c] = clear_files /\ phase[c] = "dead" /\ ~ sharing[c]
      /\ toServer[c] = <<>> /\ toClient[c] = <<>>
      /\ \A name \in FileName : disk[name] = Absent /\ local[c][name] = Absent
  BY DEF Init, SlotsInit, Everywhere
<1>2. Entries(c) = {}
  BY <1>1 DEF Entries, clear_files, EmptySlot
<1>3. Whole(toServer[c]) /\ Whole(toClient[c])
  BY <1>1 DEF Whole
<1> QED
  BY <1>1, <1>2, <1>3 DEF SoloAt, TrueAt, CoveredAt, WholeAt

\* SoloInv is inductive, together with the invariant of Sync.
LEMMA SoloStep ==
  ASSUME Solo, IInv, SoloInv, [Next]_vars
  PROVE  SoloInv'
<1>1. TypeOK /\ InStep /\ Calm /\ CalmInv
  BY DEF IInv, Solo, SoloInv
<1>2. CalmInv'
  BY <1>1, CalmStep
<1> SUFFICES ASSUME NEW c \in Client PROVE SoloAt(c)'
  BY <1>2 DEF SoloInv
<1>3. Client = {c}
  BY <1>1, Alone
<1>4. CASE UNCHANGED vars \/ Boot
  <2>1. UNCHANGED <<disk, slotVars, wireVars, clientVars, local>>
    BY <1>4 DEF vars, Boot, ServerBoots
  <2>2. WholeAt(c)'
    BY <1>1, <2>1, Alone DEF wireVars, slotVars, clientVars, WholeAt
  <2> QED
    BY <1>1, <2>1, <2>2, SoloClient
<1>5. ASSUME ServerNext(c) PROVE SoloAt(c)'
  <2>1. ServerStep(c) /\ UNCHANGED <<envVars, clientVars, local>>
    BY <1>5 DEF ServerNext
  <2> QED
    BY <1>1, <2>1, SoloPacket, SoloRefresh, SoloGive, SoloDeath, SoloUpload,
       CalmNever, CalmGive
       DEF ServerStep
<1>6. ASSUME ClientNext(c) PROVE SoloAt(c)'
  <2>1. ClientStep(c) /\ UNCHANGED <<envVars, disk, slotVars>>
    BY <1>6 DEF ClientNext
  <2> QED
    BY <1>1, <2>1, SoloCycle, SoloResponse, CalmClientNever DEF ClientStep
<1>7. ~ LoginFails(c)
  BY <1>1, CalmLogin
<1> QED
  BY <1>1, <1>3, <1>4, <1>5, <1>6, <1>7, SoloLogin, SoloEnv DEF Next

\* The invariant of a user who is alone holds in every reachable state.
THEOREM SoloInvariance == ASSUME Solo PROVE Spec => [](IInv /\ SoloInv)
<1>1. IInv /\ SoloInv /\ [Next]_vars => (IInv /\ SoloInv)'
  BY SoloStep, StepKeepsInvariant
<1> QED
  BY <1>1, InitIsInvariant, InitIsSolo, PTL DEF Spec

\* The file_info array of a user alone is true whenever the server takes a
\* request: every entry of a file names one in server_files/ and has its mtime.
\* What process_client_request decides rests on this.
THEOREM SoloTableIsTrue == ASSUME Solo PROVE Spec => []TableIsTrue
<1>1. SoloInv => TableIsTrue
  <2> SUFFICES ASSUME SoloInv, NEW c \in Client, phase[c] = "sync",
                      NEW i \in Entries(c), files[c][i].filename \in FileName
               PROVE  /\ disk[files[c][i].filename] # Absent
                      /\ disk[files[c][i].filename].mtime = files[c][i].mtime
    BY DEF TableIsTrue
  <2>1. TrueAt(c)
    BY DEF SoloInv, SoloAt
  <2> QED
    BY <2>1 DEF TrueAt, Pending
<1> QED
  BY <1>1, SoloInvariance, PTL

\* The search for deleted files reaches every entry that the array of a user
\* alone has between two requests: no entry is above fileLength.
THEOREM SoloSearchCovers == ASSUME Solo PROVE Spec => []SearchCoversTable
<1>1. SoloInv => SearchCoversTable
  <2> SUFFICES ASSUME SoloInv, NEW c \in Client, phase[c] = "sync",
                      NEW i \in Entries(c)
               PROVE  i <= fileLength[c]
    BY DEF SearchCoversTable
  <2>1. CoveredAt(c)
    BY DEF SoloInv, SoloAt
  <2> QED
    BY <2>1 DEF CoveredAt, Entries, Slot
<1> QED
  BY <1>1, SoloInvariance, PTL

\* A half-written file of a user alone in server_files/ is being written: no
\* upload ends with the file left incomplete.
THEOREM SoloTornWhileWriting == ASSUME Solo PROVE Spec => []TornOnlyWhileWriting
<1>1. SoloInv => TornOnlyWhileWriting
  <2> SUFFICES ASSUME SoloInv, NEW name \in FileName, disk[name] # Absent,
                      disk[name].data = Torn(name)
               PROVE  \E c \in Client : phase[c] = "writing"
                                        /\ upload[c].name = name
    BY DEF TornOnlyWhileWriting
  <2>1. disk[name].data.id = 0
    BY DEF Torn
  <2>2. PICK c \in Client : WholeAt(c)
    BY DEF Solo, SoloInv, SoloAt
  <2> QED
    BY <2>1, <2>2 DEF WholeAt
<1> QED
  BY <1>1, SoloInvariance, PTL
-----------------------------------------------------------------------------
(***************************************************************************)
(* A user alone with one file, next to any number of directories; clients  *)
(* and server crash and come back.                                         *)
(***************************************************************************)
OneFile ==
  /\ \E c \in Client : Client = {c}
  /\ \E name \in FileName : FileName = {name}
  /\ Env \subseteq {"write", "collide", "clientCrash", "serverCrash", "reboot"}

InArray(c) == files[c][1].filename \in FileName

\* The server has asked for a directory: it takes no request any more, and
\* stops when it opens that.
Doomed(c) == phase[c] = "getfile" /\ upload[c].name \in DirName

\* The server knows of every file that it has.
Reported(c) == InArray(c) \/ \A name \in FileName : disk[name] = Absent

\* The entry of the file is the first one; it is as old as the file in
\* server_files/, apart from an upload, and no newer than the user's file.
EntryAt(c) ==
  /\ ~ sharing[c]
  /\ \A i \in Slot :
       /\ files[c][i].filename = NoName => files[c][i].mtime = 0
       /\ files[c][i].filename \in FileName => i = 1
       /\ files[c][i].filename \in DirName => Doomed(c)
  /\ ~ InArray(c) /\ ~ Doomed(c) => fileLength[c] = 0
  /\ InArray(c) =>
       LET name == files[c][1].filename
       IN  /\ local[c][name] # Absent
           /\ files[c][1].mtime <= local[c][name].mtime
           /\ IF Pending(c, name)
              THEN /\ files[c][1].mtime = upload[c].mtime
                   /\ phase[c] # "getfile" => disk[name] # Absent
              ELSE /\ disk[name] # Absent
                   /\ disk[name].mtime = files[c][1].mtime
  /\ phase[c] \in {"getfile", "writing", "stamp"} => InArray(c) \/ Doomed(c)
  /\ phase[c] \in Giving => InArray(c) /\ ~ ClientEnd(c)

\* The server has no file that the user does not have.
OwnedAt(c) ==
  /\ \A name \in FileName :
       /\ local[c][name] # Absent =>
            local[c][name].mtime > 0 /\ local[c][name].mtime <= now
       /\ disk[name] # Absent => local[c][name] # Absent
       /\ known[c][name] > 0 => local[c][name] # Absent
  /\ todo[c] \subseteq Present(local[c])

\* A request, which may be of a client that has crashed, names a version that
\* is no newer than the user's file; new files are asked for last.
Due(c, m) ==
  m.kind = "header" =>
    IF m.filename = NoName
    THEN Reported(c)
    ELSE /\ m.mtime > 0
         /\ m.filename \in FileName => /\ local[c][m.filename] # Absent
                                      /\ m.mtime <= local[c][m.filename].mtime

DueAt(c) ==
  Doomed(c) \/ \A k \in 1..Len(toServer[c]) : Due(c, toServer[c][k])

\* A cycle offers the file before it asks for new ones, unless it has offered a
\* directory; it is never answered with a newer file.
OffersAt(c) ==
  /\ pc[c] \notin {"ackDel", "recv", "recvNew"}
  /\ pc[c] = "walk" /\ (todo[c] = {} \/ count[c] > 0) /\ phase[c] # "dead" =>
       Reported(c) \/ Doomed(c)
  /\ pc[c] = "ackSync" =>
       /\ count[c] > 0
       /\ cur[c].mtime > 0
       /\ cur[c].name \in FileName =>
            /\ local[c][cur[c].name] # Absent
            /\ cur[c].mtime <= local[c][cur[c].name].mtime
            /\ InArray(c) => files[c][1].mtime <= cur[c].mtime
       /\ toClient[c] # <<>> =>
            /\ Head(toClient[c]).mtime \in 0..cur[c].mtime
            /\ phase[c] # "dead" => InArray(c) \/ Doomed(c)
  /\ pc[c] = "ackNew" /\ toClient[c] # <<>> =>
       Head(toClient[c]).filename = NoName

OneFileInv ==
  \A c \in Client : EntryAt(c) /\ OwnedAt(c) /\ DueAt(c) /\ OffersAt(c)

OnlyFile == CHOOSE name : name \in FileName

\* What there is to know of the only client and the only file.
LEMMA OneUser ==
  ASSUME OneFile, TypeOK, InStep, OneFileInv, NEW c \in Client
  PROVE  /\ EntryAt(c) /\ OwnedAt(c) /\ DueAt(c) /\ OffersAt(c)
         /\ Client = {c} /\ FileName = {OnlyFile}
         /\ EntryName = FileName \cup DirName /\ NoName \notin EntryName
         /\ OnlyFile \notin DirName
         /\ InStepAt(c) /\ Remembers(c)
         /\ 1 \in Slot /\ Slot \subseteq Nat \ {0}
         /\ files[c] \in FileArray /\ fileLength[c] \in Nat
         /\ files[c][1].mtime \in Nat
         /\ files[c][1].filename \in {NoName, OnlyFile} \cup DirName
         /\ ~ Doomed(c) => files[c][1].filename \in {NoName, OnlyFile}
         /\ disk \in Folder /\ local[c] \in Folder
         /\ upload[c] \in Transfer /\ cur[c] \in Transfer
         /\ toServer[c] \in Seq(Message) /\ toClient[c] \in Seq(Message)
         /\ now \in Nat
<1>1. Client = {c} /\ FileName = {OnlyFile}
  BY DEF OneFile, OnlyFile
<1>2. /\ EntryName = FileName \cup DirName /\ NoName \notin EntryName
      /\ OnlyFile \notin DirName
  BY <1>1, FileTableAssumption DEF EntryName
<1>3. 1 \in Slot /\ Slot \subseteq Nat \ {0}
  BY FileTableAssumption DEF Slot
<1>4. InStepAt(c) /\ Remembers(c)
  BY DEF InStep, InStepAt
<1>5. /\ files[c] \in FileArray /\ fileLength[c] \in Nat
      /\ disk \in Folder /\ local[c] \in Folder
      /\ upload[c] \in Transfer /\ cur[c] \in Transfer
      /\ toServer[c] \in Seq(Message) /\ toClient[c] \in Seq(Message)
      /\ now \in Nat
  BY SyncAssumption DEF TypeOK
<1>6. /\ files[c][1].mtime \in Nat
      /\ files[c][1].filename \in {NoName, OnlyFile} \cup DirName
  BY <1>1, <1>2, <1>3, <1>5 DEF FileArray, FileInfo
<1>7. EntryAt(c) /\ OwnedAt(c) /\ DueAt(c) /\ OffersAt(c)
  BY DEF OneFileInv
<1>8. ~ Doomed(c) => files[c][1].filename \in {NoName, OnlyFile}
  BY <1>3, <1>6, <1>7 DEF EntryAt
<1> QED
  BY <1>1, <1>2, <1>3, <1>4, <1>5, <1>6, <1>7, <1>8

\* Every message of a channel is one of another channel.
Within(s, old) == \A k \in 1..Len(s) : \E j \in 1..Len(old) : s[k] = old[j]

\* Reading from a channel, and cutting it, adds nothing.
LEMMA LessIsWithin ==
  ASSUME NEW s \in Seq(Message)
  PROVE  /\ Within(s, s) /\ Within(<<>>, s) /\ Within(Trim(s), s)
         /\ s # <<>> => Within(Tail(s), s)
<1>1. Len(s) \in Nat /\ Len(<<>>) = 0
  BY LenProperties, SMT
<1>2. Within(s, s) /\ Within(<<>>, s)
  BY <1>1 DEF Within
<1>3. ASSUME s # <<>> PROVE Within(Tail(s), s)
  <2>1. /\ Len(Tail(s)) = Len(s) - 1
        /\ \A k \in 1..Len(Tail(s)) : Tail(s)[k] = s[k+1]
    BY <1>3, HeadTailProperties
  <2>2. \A k \in 1..Len(Tail(s)) : k + 1 \in 1..Len(s)
    BY <1>1, <2>1
  <2> QED
    BY <2>1, <2>2 DEF Within
<1>4. ASSUME s # <<>> PROVE Within(SubSeq(s, 1, Len(s) - 1), s)
  <2> DEFINE n == Len(s) - 1
  <2>1. n \in Nat /\ n < Len(s)
    BY <1>1, <1>4, SMT
  <2>2. \A k \in 1..n : s[k] \in Message
    BY <1>1, <2>1, ElementOfSeq
  <2> HIDE DEF n
  <2>3. /\ Len(SubSeq(s, 1, n)) = IF 1 <= n THEN n - 1 + 1 ELSE 0
        /\ \A k \in 1..(n-1+1) : SubSeq(s, 1, n)[k] = s[1+k-1]
    BY <2>1, <2>2, SubSeqProperties
  <2>4. Within(SubSeq(s, 1, n), s)
    BY <1>1, <2>1, <2>3 DEF Within
  <2> QED
    BY <2>4 DEF n
<1>5. Within(Trim(s), s)
  BY <1>2, <1>4 DEF Trim
<1> QED
  BY <1>2, <1>3, <1>5

\* Requests stay due.
LEMMA DueKept ==
  ASSUME NEW c \in Client, DueAt(c), Within(toServer'[c], toServer[c]),
         Reported(c) => Reported(c)',
         Doomed(c) => Doomed(c)',
         \A name \in FileName : local[c][name] # Absent =>
           /\ local'[c][name] # Absent
           /\ local'[c][name].mtime >= local[c][name].mtime
           /\ local'[c][name].mtime \in Nat /\ local[c][name].mtime \in Nat,
         toServer[c] \in Seq(Message)
  PROVE  DueAt(c)'
<1>1. ASSUME NEW m \in Message, Due(c, m) PROVE Due(c, m)'
  <2>1. m.filename \in EntryName \cup {NoName} /\ m.mtime \in MTimes
    BY MessageFields
  <2> QED
    BY <1>1, <2>1 DEF Due, MTimes, Deleted
<1>2. \A j \in 1..Len(toServer[c]) : toServer[c][j] \in Message
  BY ElementOfSeq
<1> QED
  BY <1>1, <1>2 DEF DueAt, Within

-----------------------------------------------------------------------------
(* The steps of the server. *)

\* A step of the server after which the client finds what it found before.
LEMMA OneQuiet ==
  ASSUME OneFile, TypeOK, InStep, OneFileInv, NEW c \in Client,
         UNCHANGED <<now, clientVars, local, toClient>>,
         files'[c] = files[c],
         phase[c] = "dead" => phase'[c] = "dead",
         ~ Doomed(c),
         Within(toServer'[c], toServer[c]),
         \A name \in FileName :
           disk'[name] # Absent => disk[name] # Absent \/ InArray(c),
         EntryAt(c)'
  PROVE  OneFileInv'
<1>1. /\ EntryAt(c) /\ OwnedAt(c) /\ DueAt(c) /\ OffersAt(c)
      /\ Client = {c} /\ FileName = {OnlyFile}
      /\ local[c] \in Folder /\ toServer[c] \in Seq(Message)
  BY OneUser
<1>2. /\ InArray(c)' = InArray(c)
      /\ Reported(c) => Reported(c)'
  BY DEF InArray, Reported
<1>3. OwnedAt(c)'
  BY <1>1 DEF OwnedAt, EntryAt, InArray, clientVars
<1>4. DueAt(c)'
  <2>1. \A name \in FileName : local[c][name] # Absent =>
          local[c][name].mtime \in Nat
    BY <1>1, FileInFolder DEF Exists
  <2> QED
    BY <1>1, <1>2, <2>1, DueKept
<1>5. OffersAt(c)'
  BY <1>1, <1>2 DEF OffersAt, clientVars
<1> QED
  BY <1>1, <1>3, <1>4, <1>5 DEF OneFileInv

\* Steps of the server other than the answer to a request.
LEMMA OneSession ==
  ASSUME OneFile, TypeOK, InStep, OneFileInv, NEW c \in Client,
         UNCHANGED <<envVars, clientVars, local>>
  PROVE  /\ RefreshFinds(c) \/ RefreshSkips(c) \/ RefreshDone(c) => OneFileInv'
         /\ RefreshTakes(c) => OneFileInv'
         /\ ClientGone(c) \/ RefuseFile(c) => OneFileInv'
         /\ GiveFile(c) => OneFileInv'
         /\ GetOpen(c) => OneFileInv'
         /\ GetData(c) => OneFileInv'
         /\ GetStamp(c) => OneFileInv'
<1> USE DEF wireVars, envVars, clientVars, Doomed, Giving, ClientEnd
<1>1. /\ EntryAt(c) /\ FileName = {OnlyFile} /\ NoName \notin EntryName
      /\ EntryName = FileName \cup DirName /\ OnlyFile \notin DirName
      /\ Remembers(c) /\ 1 \in Slot /\ files[c] \in FileArray
      /\ ~ Doomed(c) => files[c][1].filename \in {NoName, OnlyFile}
      /\ disk \in Folder /\ upload[c] \in Transfer
      /\ toServer[c] \in Seq(Message)
  BY OneUser
<1>2. /\ Within(toServer[c], toServer[c]) /\ Within(<<>>, toServer[c])
      /\ toServer[c] # <<>> => Within(Tail(toServer[c]), toServer[c])
  BY <1>1, LessIsWithin
<1>3. ASSUME phase[c] = "sync", files'[c] = files[c],
             UNCHANGED <<disk, phase, sharing, fileLength, upload, toServer,
                         toClient>>
      PROVE  OneFileInv'
  <2>1. EntryAt(c)'
    BY <1>1, <1>3 DEF EntryAt, InArray, Pending
  <2> QED
    BY <1>2, <1>3, <2>1, OneQuiet
<1>8. ASSUME RefreshFinds(c) \/ RefreshSkips(c) \/ RefreshDone(c)
      PROVE  OneFileInv'
  BY <1>3, <1>8 DEF RefreshFinds, RefreshSkips, RefreshDone, AtEntry, Refreshing
<1>9. ASSUME RefreshTakes(c) PROVE OneFileInv'
  <2> DEFINE i == refresh[c].entry
  <2>1. PICK t \in DirTime :
          files' = [files EXCEPT ![c] = RefreshEntry(@, i, disk, t)]
    BY <1>9 DEF RefreshTakes
  <2>2. /\ phase[c] = "sync"
        /\ UNCHANGED <<disk, phase, sharing, fileLength, upload, toServer,
                       toClient>>
    BY <1>9 DEF RefreshTakes, AtEntry, Refreshing
  <2>3. i \in Slot /\ files[c][i].filename # NoName
    BY <1>9 DEF RefreshTakes, AtEntry, RefreshName, At, EmptySlot
  <2> HIDE DEF i
  \* the file is as old as its entry says
  <2>4. /\ files[c][i].filename \in FileName
        /\ disk[files[c][i].filename].mtime = files[c][i].mtime
        /\ files[c][i].mtime \in Nat
    <3>1. files[c][i].filename \in FileName /\ i = 1
      BY <1>1, <2>2, <2>3 DEF EntryAt, FileArray, FileInfo
    <3> QED
      BY <1>1, <2>2, <2>3, <3>1 DEF EntryAt, InArray, Pending, FileArray, FileInfo
  <2>5. RefreshEntry(files[c], i, disk, t) = files[c]
    BY <1>1, <2>4 DEF RefreshEntry, MTime
  <2>6. files'[c] = files[c]
    BY <2>1, <2>5 DEF TypeOK
  <2> QED
    BY <1>3, <2>2, <2>6
\* the client that asked is gone
<1>10. ASSUME GiveFile(c) PROVE OneFileInv'
  <2>1. /\ phase[c] \in Giving /\ InArray(c) /\ ~ ClientEnd(c)
    BY <1>1, <1>10 DEF GiveFile, EntryAt
  <2>2. /\ phase'[c] = "sync"
        /\ UNCHANGED <<disk, sharing, files, toServer, toClient>>
    BY <1>10, <2>1 DEF GiveFile, Respond, Sent, TypeOK
  <2>3. EntryAt(c)'
    BY <1>1, <2>1, <2>2 DEF EntryAt, InArray, Pending
  <2> QED
    BY <1>2, <2>1, <2>2, <2>3, OneQuiet
<1>4. ASSUME ClientGone(c) \/ RefuseFile(c) PROVE OneFileInv'
  <2>1. /\ phase[c] = "sync" /\ phase'[c] = "dead" /\ toServer'[c] = <<>>
        /\ UNCHANGED <<disk, sharing, files, fileLength, toClient>>
    BY <1>4 DEF ClientGone, RefuseFile, Named, Request, CloseConnection, TypeOK
  <2>2. EntryAt(c)'
    BY <1>1, <2>1 DEF EntryAt, InArray, Pending
  <2> QED
    BY <1>2, <2>1, <2>2, OneQuiet
<1>5. ASSUME GetOpen(c) PROVE OneFileInv'
  <2> DEFINE name == upload[c].name
             file == [mtime |-> now, data |-> Torn(name)]
  <2>1. /\ phase[c] = "getfile" /\ name = OnlyFile
        /\ disk' = [disk EXCEPT ![name] = file]
        /\ phase'[c] = "writing"
        /\ UNCHANGED <<sharing, files, fileLength, toServer, toClient>>
    BY <1>1, <1>5 DEF GetOpen, TypeOK
  <2>2. upload'[c].name = name /\ upload'[c].mtime = upload[c].mtime
    BY <1>5, OpenKeeps
  <2>3. file # Absent
    <3>1. file \in File
      BY <1>1, <2>1, SyncAssumption DEF File, Torn, Content, TypeOK
    <3> QED
      BY <3>1, AbsentAssumption
  <2> HIDE DEF name, file
  <2>4. disk'[OnlyFile] = file
    BY <1>1, <2>1 DEF Folder
  <2>5. InArray(c) /\ ~ Doomed(c)
    BY <1>1, <2>1 DEF EntryAt, name
  <2>6. EntryAt(c)'
    BY <1>1, <2>1, <2>2, <2>3, <2>4, <2>5 DEF EntryAt, InArray, Pending, name
  <2> QED
    BY <1>2, <2>1, <2>5, <2>6, OneQuiet
<1>6. ASSUME GetData(c) PROVE OneFileInv'
  <2>1. /\ phase[c] = "writing" /\ toServer[c] # <<>>
        /\ Packet(c).kind = "body"
        /\ phase'[c] = "stamp" /\ toServer'[c] = Tail(toServer[c])
        /\ UNCHANGED <<sharing, files, upload, toClient>>
    BY <1>6 DEF GetData, Consume, TypeOK
  <2>2. upload[c].name = OnlyFile /\ InArray(c) /\ disk[OnlyFile] # Absent
    <3>1. upload[c].name = OnlyFile /\ InArray(c)
      BY <1>1, <2>1 DEF Remembers, EntryAt
    <3> QED
      BY <1>1, <2>1, <3>1 DEF EntryAt, InArray, Pending
  <2>3. disk'[OnlyFile] # Absent
    <3>1. PICK data \in {Packet(c).data, Torn(OnlyFile)} :
            disk' = IF upload[c].link = "gone" THEN disk
                    ELSE [disk EXCEPT ![OnlyFile] = [mtime |-> now,
                                                     data |-> data]]
      BY <1>6, <2>2 DEF GetData
    <3>2. data \in Content
      BY <1>1, <2>1, <3>1, RequestIsMessage, SyncAssumption DEF Torn, Content
    <3>3. [mtime |-> now, data |-> data] \in File
      BY <3>2, SyncAssumption DEF File, TypeOK
    <3> QED
      BY <1>1, <2>2, <3>1, <3>3, AbsentAssumption DEF Folder
  <2>4. EntryAt(c)'
    BY <1>1, <2>1, <2>2, <2>3 DEF EntryAt, InArray, Pending
  <2> QED
    BY <1>2, <2>1, <2>2, <2>4, OneQuiet
<1>7. ASSUME GetStamp(c) PROVE OneFileInv'
  <2> DEFINE file == [disk[OnlyFile] EXCEPT !.mtime = upload[c].mtime]
  <2>1. /\ phase[c] = "stamp" /\ upload[c].name = OnlyFile /\ InArray(c)
        /\ files[c][1].mtime = upload[c].mtime
        /\ disk[OnlyFile] # Absent
    <3>1. phase[c] = "stamp" /\ upload[c].name = OnlyFile /\ InArray(c)
      BY <1>1, <1>7 DEF GetStamp, Remembers, EntryAt
    <3> QED
      BY <1>1, <3>1 DEF EntryAt, InArray, Pending
  <2>2. /\ disk' = [disk EXCEPT ![OnlyFile].mtime = upload[c].mtime]
        /\ phase'[c] = "sync"
        /\ UNCHANGED <<sharing, files, fileLength, toServer, toClient>>
    BY <1>7, <2>1 DEF GetStamp, TypeOK, Exists
  <2>3. file.mtime = upload[c].mtime /\ file # Absent
    <3>1. disk[OnlyFile] \in File
      BY <1>1, <2>1, FileInFolder DEF Exists
    <3>2. file \in File
      BY <1>1, <3>1 DEF File, Remembers
    <3> QED
      BY <3>1, <3>2, AbsentAssumption DEF File
  <2>4. disk'[OnlyFile] = file
    BY <1>1, <2>2 DEF Folder
  <2> HIDE DEF file
  <2>5. EntryAt(c)'
    BY <1>1, <2>1, <2>2, <2>3, <2>4 DEF EntryAt, InArray, Pending
  <2> QED
    BY <1>2, <2>1, <2>2, <2>5, OneQuiet
<1> QED
  BY <1>4, <1>5, <1>6, <1>7, <1>8, <1>9, <1>10

\* The server dies: it forgets what it knew of the files, and the client finds
\* at most what was sent before.
LEMMA OneDeath ==
  ASSUME OneFile, TypeOK, InStep, OneFileInv, ServerDies,
         UNCHANGED <<now, disk, clientVars, local>>
  PROVE  OneFileInv'
<1> SUFFICES ASSUME NEW c \in Client
             PROVE  EntryAt(c)' /\ OwnedAt(c)' /\ DueAt(c)' /\ OffersAt(c)'
  BY DEF OneFileInv
<1>1. /\ EntryAt(c) /\ OwnedAt(c) /\ OffersAt(c)
      /\ 1 \in Slot /\ Slot \subseteq Nat \ {0}
      /\ toClient[c] \in Seq(Message)
  BY OneUser
<1>2. /\ sharing'[c] = FALSE /\ files'[c] = clear_files /\ fileLength'[c] = 0
      /\ phase'[c] = "dead" /\ toServer'[c] = <<>>
      /\ toClient'[c] \in {toClient[c], Trim(toClient[c])}
  BY DEF ServerDies, DiesHavingSent, SlotsReset, Everywhere
<1>3. /\ \A i \in Slot : files'[c][i] = EmptySlot
      /\ EmptySlot.filename \notin EntryName /\ EmptySlot.mtime = 0
      /\ ~ InArray(c)'
  BY <1>1, <1>2, FileTableAssumption DEF clear_files, EmptySlot, InArray, EntryName
<1>4. EntryAt(c)'
  BY <1>1, <1>2, <1>3, FileTableAssumption DEF EntryAt, EntryName, Giving
<1>5. OwnedAt(c)'
  BY <1>1 DEF OwnedAt, clientVars
<1>6. DueAt(c)'
  BY <1>2 DEF DueAt
<1>7. toClient'[c] # <<>> =>
        toClient[c] # <<>> /\ Head(toClient'[c]) = Head(toClient[c])
  <2>1. Trim(toClient[c]) # <<>> =>
          toClient[c] # <<>> /\ Head(Trim(toClient[c])) = Head(toClient[c])
    BY <1>1, TrimKeepsHead
  <2> QED
    BY <1>2, <2>1
<1>8. OffersAt(c)'
  BY <1>1, <1>2, <1>3, <1>7 DEF OffersAt, clientVars
<1> QED
  BY <1>4, <1>5, <1>6, <1>8

\* What a request finds: the entry of the file is the first one, and as old as
\* the file.
LEMMA OneRequest ==
  ASSUME OneFile, TypeOK, InStep, OneFileInv, NEW c \in Client, Request(c)
  PROVE  /\ phase[c] = "sync" /\ upload[c] = NoTransfer /\ ~ Doomed(c)
         /\ Packet(c).filename = NoName => Reported(c)
         /\ ClientEnd(c) => /\ toClient[c] = <<>>
                            /\ Packet(c).filename = cur[c].name
                            /\ Packet(c).mtime = cur[c].mtime
                            /\ pc[c] \in {"ackSync", "ackNew"}
         /\ Named(c) => /\ Packet(c).filename \in EntryName
                        /\ Packet(c).mtime \in Nat \ {0}
         /\ Packet(c).filename \in FileName =>
              /\ Packet(c).filename = OnlyFile
              /\ local[c][OnlyFile] # Absent
              /\ Packet(c).mtime <= local[c][OnlyFile].mtime
         /\ InArray(c) => /\ files[c][1].filename = OnlyFile
                          /\ disk[OnlyFile] # Absent
                          /\ files[c][1].mtime = disk[OnlyFile].mtime
<1>1. /\ EntryAt(c) /\ DueAt(c) /\ OffersAt(c) /\ InStepAt(c)
      /\ FileName = {OnlyFile} /\ NoName \notin EntryName
      /\ FileName \subseteq EntryName
      /\ toServer[c] \in Seq(Message)
  BY OneUser
<1>2. /\ phase[c] = "sync" /\ upload[c] = NoTransfer /\ ~ Doomed(c)
      /\ ClientEnd(c) => /\ toClient[c] = <<>>
                         /\ Packet(c).filename = cur[c].name
                         /\ Packet(c).mtime = cur[c].mtime
                         /\ pc[c] \in {"ackSync", "ackNew"}
  BY <1>1, RequestIsCurrent DEF OffersAt, Waiting, Doomed
<1>3. /\ toServer[c] # <<>> /\ Packet(c).kind = "header"
      /\ Packet(c).filename \in EntryName \cup {NoName}
      /\ Packet(c).mtime \in MTimes
  BY <1>1, RequestIsMessage DEF Request
<1>4. Due(c, Packet(c))
  <2>1. Packet(c) = toServer[c][1] /\ 1 \in 1..Len(toServer[c])
    BY <1>1, <1>3, HeadTailProperties, LenProperties, SMT DEF Packet
  <2> QED
    BY <1>1, <1>2, <2>1 DEF DueAt
<1>5. /\ Named(c) => /\ Packet(c).filename \in EntryName
                     /\ Packet(c).mtime \in Nat \ {0}
      /\ Packet(c).filename \in FileName =>
           /\ Packet(c).filename = OnlyFile
           /\ local[c][OnlyFile] # Absent
           /\ Packet(c).mtime <= local[c][OnlyFile].mtime
      /\ Packet(c).filename = NoName => Reported(c)
  BY <1>1, <1>3, <1>4 DEF Due, Named, MTimes, Deleted
<1>6. InArray(c) => /\ files[c][1].filename = OnlyFile
                    /\ disk[OnlyFile] # Absent
                    /\ files[c][1].mtime = disk[OnlyFile].mtime
  BY <1>1, <1>2 DEF EntryAt, InArray, Pending
<1> QED
  BY <1>2, <1>5, <1>6

\* The entry that check_file returns for the file.
FirstEntry(c, i, t) ==
  /\ i = 1
  /\ t = files[c][1].mtime
  /\ NoneMissing(Table(c, 1, t), fileLength[c], disk)
  /\ \A u : /\ Table(c, 1, u)[1] = [filename |-> OnlyFile, mtime |-> u]
            /\ \A k \in Slot : k # 1 => Table(c, 1, u)[k] = files[c][k]
  /\ InArray(c) => Table(c, 1, t) = files[c]

LEMMA OneEntry ==
  ASSUME OneFile, TypeOK, InStep, OneFileInv, NEW c \in Client, Named(c),
         Packet(c).filename \in FileName,
         NEW i \in Slot, NEW t \in EntryTime(c, i), Looked(c, i, t)
  PROVE  FirstEntry(c, i, t)
<1>1. /\ EntryAt(c) /\ FileName = {OnlyFile} /\ NoName \notin EntryName
      /\ FileName \subseteq EntryName
      /\ ~ Doomed(c) => files[c][1].filename \in {NoName, OnlyFile}
      /\ files[c] \in FileArray /\ fileLength[c] \in Nat
      /\ 1 \in Slot /\ Slot \subseteq Nat \ {0}
  BY OneUser
<1>2. /\ Packet(c).filename = OnlyFile /\ ~ Doomed(c)
      /\ InArray(c) => /\ files[c][1].filename = OnlyFile
                       /\ disk[OnlyFile] # Absent
  BY OneRequest DEF Named
<1>3. i = 1
  <2>1. Stops(files[c], Packet(c).filename, 1)
    BY <1>1, <1>2 DEF Stops
  <2>2. i # 1 => 1 \in 1..(i-1)
    BY <1>1
  <2> QED
    BY <2>1, <2>2 DEF Looked, CheckFile
<1>4. t = files[c][1].mtime
  BY <1>1, <1>3 DEF EntryTime, OnDisk, EntryAt
<1>5. ASSUME NEW u
      PROVE  /\ Table(c, 1, u)[1] = [filename |-> OnlyFile, mtime |-> u]
             /\ \A k \in Slot : k # 1 => Table(c, 1, u)[k] = files[c][k]
  BY <1>1, <1>2 DEF Table, Record, FileArray
<1>6. InArray(c) => Table(c, 1, t) = files[c]
  BY <1>1, <1>2, <1>4 DEF Table, Record, FileArray, FileInfo
<1>7. NoneMissing(Table(c, 1, t), fileLength[c], disk)
  <2>1. CASE ~ InArray(c)
    BY <1>1, <1>2, <2>1 DEF EntryAt, NoneMissing
  <2>2. CASE InArray(c)
    BY <1>1, <1>2, <1>6, <2>2, FileTableAssumption
       DEF NoneMissing, Missing, Exists, At, EmptySlot
  <2> QED
    BY <2>1, <2>2
<1> QED
  BY <1>3, <1>4, <1>5, <1>6, <1>7 DEF FirstEntry

\* The entry that it returns for a directory, which was never used.
BlankEntry(c, i, t) ==
  /\ t = 0
  /\ InArray(c) => i # 1
  /\ NoneMissing(Table(c, i, t), fileLength[c], disk)
  /\ \A u : /\ Table(c, i, u)[i] = [filename |-> Packet(c).filename, mtime |-> u]
            /\ \A k \in Slot : k # i => Table(c, i, u)[k] = files[c][k]

LEMMA OneDirectory ==
  ASSUME OneFile, TypeOK, InStep, OneFileInv, NEW c \in Client, Named(c),
         Packet(c).filename \in DirName,
         NEW i \in Slot, NEW t \in EntryTime(c, i), Looked(c, i, t)
  PROVE  BlankEntry(c, i, t)
<1>1. /\ EntryAt(c) /\ FileName = {OnlyFile} /\ NoName \notin EntryName
      /\ EntryName = FileName \cup DirName /\ OnlyFile \notin DirName
      /\ files[c] \in FileArray /\ fileLength[c] \in Nat
      /\ 1 \in Slot /\ Slot \subseteq Nat \ {0}
  BY OneUser
<1>2. /\ ~ Doomed(c)
      /\ InArray(c) => /\ files[c][1].filename = OnlyFile
                       /\ disk[OnlyFile] # Absent
  BY OneRequest DEF Named
<1>3. files[c][i].filename = NoName
  <2>1. files[c][i].filename \in {Packet(c).filename, NoName}
    BY DEF Looked, CheckFile, Stops
  <2> QED
    BY <1>1, <1>2, <2>1 DEF EntryAt
<1>4. t = 0
  BY <1>1, <1>3 DEF EntryTime, OnDisk, EntryAt
<1>5. InArray(c) => i # 1
  BY <1>1, <1>3 DEF InArray
<1>6. ASSUME NEW u
      PROVE  /\ Table(c, i, u)[i] = [filename |-> Packet(c).filename,
                                     mtime |-> u]
             /\ \A k \in Slot : k # i => Table(c, i, u)[k] = files[c][k]
  BY <1>1 DEF Table, Record, FileArray
<1>7. ASSUME NEW k \in 1..fileLength[c] PROVE ~ Missing(Table(c, i, t), disk, k)
  <2> SUFFICES ASSUME At(Table(c, i, t), k).filename \in FileName
               PROVE  disk[OnlyFile] # Absent
    BY <1>1 DEF Missing, Exists
  <2>1. k \in Slot
    BY <1>1 DEF At, EmptySlot
  <2>2. Table(c, i, t)[k].filename \in FileName
    BY <2>1 DEF At
  <2>3. k # i
    <3>1. Table(c, i, t)[i].filename = Packet(c).filename
      BY <1>1 DEF Table, Record, FileArray
    <3> QED
      BY <1>1, <2>2, <3>1
  <2>4. files[c][k].filename \in FileName
    BY <1>6, <2>1, <2>2, <2>3
  <2> QED
    BY <1>1, <1>2, <2>1, <2>4 DEF EntryAt, InArray
<1> QED
  BY <1>4, <1>5, <1>6, <1>7 DEF BlankEntry, NoneMissing

\* Either way no file of the array is missing.
LEMMA OneFindsAll ==
  ASSUME OneFile, TypeOK, InStep, OneFileInv, NEW c \in Client, Named(c),
         NEW i \in Slot, NEW t \in EntryTime(c, i), Looked(c, i, t)
  PROVE  NoneMissing(Table(c, i, t), fileLength[c], disk)
<1>1. Packet(c).filename \in FileName \cup DirName
  BY OneRequest, OneUser DEF Named
<1> QED
  BY <1>1, OneEntry, OneDirectory DEF FirstEntry, BlankEntry

\* What the server never does: it has no file to send that is new to the client,
\* and misses none.
LEMMA OneNever ==
  ASSUME OneFile, TypeOK, InStep, OneFileInv, NEW c \in Client
  PROVE  /\ ~ SendNewFile(c) /\ ~ NewFileOverflow(c)
         /\ ~ NotifyDeleted(c) /\ ~ AcceptDeletion(c)
<1>1. /\ FileName = {OnlyFile} /\ fileLength[c] \in Nat /\ 1 \in Slot
  BY OneUser
<1>2. ASSUME Request(c), Packet(c).filename = NoName
      PROVE  \A name \in FileName : ~ Unknown(c, name)
  <2>1. Reported(c) /\ (InArray(c) => files[c][1].filename = OnlyFile)
    BY <1>2, OneRequest
  <2>2. InArray(c) => Listed(files[c], OnlyFile)
    BY <1>1, <2>1 DEF Listed
  <2> QED
    BY <1>1, <2>1, <2>2 DEF Unknown, Reported, Exists
<1>3. ~ SendNewFile(c) /\ ~ NewFileOverflow(c)
  BY <1>2 DEF SendNewFile, NewFileOverflow
<1>4. ASSUME NotifyDeleted(c) PROVE FALSE
  <2>1. Named(c)
    BY <1>4 DEF NotifyDeleted
  <2>2. PICK i \in Slot : \E t \in EntryTime(c, i), j \in 1..fileLength[c] :
          /\ Looked(c, i, t)
          /\ FirstMissing(Table(c, i, t), fileLength[c], disk, j)
    BY <1>4 DEF NotifyDeleted
  <2>3. PICK t \in EntryTime(c, i), j \in 1..fileLength[c] :
          /\ Looked(c, i, t)
          /\ FirstMissing(Table(c, i, t), fileLength[c], disk, j)
    BY <2>2
  <2>4. NoneMissing(Table(c, i, t), fileLength[c], disk)
    BY <2>1, <2>3, OneFindsAll
  <2> QED
    BY <2>3, <2>4 DEF FirstMissing, NoneMissing
<1>5. ~ AcceptDeletion(c)
  <2>1. Named(c) => Packet(c).mtime \in Nat
    BY OneRequest DEF Named
  <2> QED
    BY <2>1 DEF AcceptDeletion, Deleted
<1> QED
  BY <1>3, <1>4, <1>5

\* What an answer has to keep.
LEMMA OneAnswer ==
  ASSUME OneFile, TypeOK, InStep, OneFileInv, NEW c \in Client, Request(c),
         Consume(c), UNCHANGED <<now, disk, clientVars, local>>,
         NEW name \in EntryName \cup {NoName}, NEW mtime \in Nat,
         Respond(c, Header(name, mtime)),
         InArray(c) => InArray(c)',
         pc[c] = "ackSync" =>
           /\ mtime <= cur[c].mtime
           /\ InArray(c)' \/ Doomed(c)'
           /\ cur[c].name \in FileName /\ InArray(c)' =>
                files'[c][1].mtime <= cur[c].mtime,
         pc[c] = "ackNew" => name = NoName,
         EntryAt(c)'
  PROVE  OneFileInv'
<1>1. /\ EntryAt(c) /\ OwnedAt(c) /\ DueAt(c) /\ OffersAt(c)
      /\ Client = {c} /\ local[c] \in Folder
      /\ toServer[c] \in Seq(Message) /\ toClient[c] \in Seq(Message)
  BY OneUser
<1>2. /\ ClientEnd(c) => toClient[c] = <<>> /\ pc[c] \in {"ackSync", "ackNew"}
      /\ toServer[c] # <<>> /\ ~ Doomed(c)
  BY OneRequest DEF Request
<1>3. Reported(c) => Reported(c)'
  BY DEF Reported
<1>4. OwnedAt(c)'
  BY <1>1 DEF OwnedAt, clientVars
<1>5. DueAt(c)'
  <2>1. Within(toServer'[c], toServer[c])
    BY <1>1, <1>2, LessIsWithin DEF Consume, TypeOK
  <2>2. \A other \in FileName : local[c][other] # Absent =>
          local[c][other].mtime \in Nat
    BY <1>1, FileInFolder DEF Exists
  <2> QED
    BY <1>1, <1>2, <1>3, <2>1, <2>2, DueKept
<1>6. OffersAt(c)'
  <2>1. CASE ~ ClientEnd(c)
    BY <1>1, <2>1 DEF OffersAt, ClientEnd, clientVars
  <2>2. CASE ClientEnd(c)
    <3>1. toClient'[c] = <<Header(name, mtime)>>
      <4>1. Header(name, mtime) \in Message
        BY <1>1, HeaderIsMessage DEF MTimes
      <4> QED
        BY <1>2, <2>2, <4>1, OneMessage DEF Respond, Sent, TypeOK
    <3>2. /\ Head(toClient'[c]).filename = name
          /\ Head(toClient'[c]).mtime = mtime
      BY <3>1 DEF Header
    <3>3. cur[c].mtime \in MTimes
      BY DEF TypeOK, Transfer
    <3> QED
      BY <1>1, <1>2, <2>2, <3>2, <3>3 DEF OffersAt, clientVars, MTimes, Deleted
  <2> QED
    BY <2>1, <2>2
<1> QED
  BY <1>1, <1>4, <1>5, <1>6 DEF OneFileInv

\* Requests.
LEMMA OnePacket ==
  ASSUME OneFile, TypeOK, InStep, OneFileInv, NEW c \in Client,
         UNCHANGED <<envVars, clientVars, local>>
  PROVE  /\ NoNewFile(c) => OneFileInv'
         /\ AskForFile(c) => OneFileInv'
         /\ SendNewer(c) => OneFileInv'
         /\ AlreadyInSync(c) => OneFileInv'
<1> USE DEF envVars
<1>1. /\ EntryAt(c) /\ OffersAt(c) /\ FileName = {OnlyFile}
      /\ EntryName = FileName \cup DirName /\ OnlyFile \notin DirName
      /\ NoName \notin EntryName
      /\ files[c] \in FileArray /\ files[c][1].mtime \in Nat
      /\ ~ Doomed(c) => files[c][1].filename \in {NoName, OnlyFile}
      /\ 1 \in Slot
  BY OneUser
<1>2. ASSUME Named(c)
      PROVE  /\ Request(c) /\ phase[c] = "sync" /\ upload[c] = NoTransfer
             /\ ~ Doomed(c)
             /\ Packet(c).filename \in EntryName
             /\ Packet(c).mtime \in Nat \ {0}
             /\ Packet(c).filename \in FileName =>
                  /\ Packet(c).filename = OnlyFile
                  /\ local[c][OnlyFile] # Absent
                  /\ Packet(c).mtime <= local[c][OnlyFile].mtime
             /\ ClientEnd(c) => /\ pc[c] = "ackSync"
                                /\ Packet(c).filename = cur[c].name
                                /\ Packet(c).mtime = cur[c].mtime
             /\ pc[c] # "ackNew"
  <2>1. Request(c)
    BY <1>2 DEF Named
  <2>2. pc[c] = "ackNew" => cur[c].name = NoName
    BY OneUser DEF Remembers, NoTransfer
  <2>3. pc[c] = "ackNew" => ClientEnd(c)
    BY DEF ClientEnd
  <2> QED
    BY <1>1, <1>2, <2>1, <2>2, <2>3, OneRequest
<1>3. pc[c] = "ackSync" => ClientEnd(c)
  BY DEF ClientEnd
<1>4. ASSUME NoNewFile(c) PROVE OneFileInv'
  <2>1. /\ Request(c) /\ Packet(c).filename = NoName /\ Consume(c)
        /\ Respond(c, Header(NoName, 0))
        /\ UNCHANGED <<disk, phase, sharing, files, fileLength, upload>>
    BY <1>4 DEF NoNewFile
  <2>2. pc[c] # "ackSync"
    <3>1. pc[c] = "ackSync" => cur[c].name \in EntryName
      BY OneUser DEF Remembers
    <3> QED
      BY <1>3, <2>1, <3>1, OneRequest, FileTableAssumption
  <2>3. EntryAt(c)' /\ InArray(c)' = InArray(c)
    BY <1>1, <2>1 DEF EntryAt, InArray, Pending, Doomed, ClientEnd, clientVars
  <2> QED
    BY <2>1, <2>2, <2>3, OneAnswer
<1>5. ASSUME AskForFile(c) PROVE OneFileInv'
  <2>1. Named(c)
    BY <1>5 DEF AskForFile
  <2>2. PICK i \in Slot : \E t \in EntryTime(c, i) :
          /\ Looked(c, i, t)
          /\ Packet(c).mtime > t
          /\ Respond(c, Header(Packet(c).filename, t))
          /\ files' = [files EXCEPT ![c] = Table(c, i, Packet(c).mtime)]
    BY <1>5 DEF AskForFile, Answered
  <2>3. PICK t \in EntryTime(c, i) :
          /\ Looked(c, i, t)
          /\ Packet(c).mtime > t
          /\ Respond(c, Header(Packet(c).filename, t))
          /\ files' = [files EXCEPT ![c] = Table(c, i, Packet(c).mtime)]
    BY <2>2
  <2>4. /\ upload'[c].name = Packet(c).filename
        /\ upload'[c].mtime = Packet(c).mtime
        /\ phase'[c] = "getfile"
        /\ UNCHANGED <<disk, sharing, fileLength>> /\ Consume(c)
        /\ files'[c] = Table(c, i, Packet(c).mtime)
    BY <1>5, <2>3 DEF AskForFile, TypeOK
  <2>5. CASE Packet(c).filename \in FileName
    <3>1. FirstEntry(c, i, t)
      BY <2>1, <2>3, <2>5, OneEntry
    <3>2. /\ files'[c][1] = [filename |-> OnlyFile, mtime |-> Packet(c).mtime]
          /\ \A k \in Slot : k # 1 => files'[c][k] = files[c][k]
          /\ t \in Nat
      BY <1>1, <2>4, <3>1 DEF FirstEntry
    <3>3. EntryAt(c)' /\ InArray(c)'
      BY <1>1, <1>2, <2>1, <2>4, <2>5, <3>2
         DEF EntryAt, InArray, Pending, Doomed, Giving
    <3> QED
      BY <1>1, <1>2, <1>3, <2>1, <2>3, <2>4, <2>5, <3>2, <3>3, OneAnswer
  <2>6. CASE Packet(c).filename \in DirName
    <3>1. BlankEntry(c, i, t)
      BY <2>1, <2>3, <2>6, OneDirectory
    <3>2. /\ files'[c][i] = [filename |-> Packet(c).filename,
                             mtime |-> Packet(c).mtime]
          /\ \A k \in Slot : k # i => files'[c][k] = files[c][k]
          /\ t = 0 /\ (InArray(c) => i # 1)
      BY <2>4, <3>1 DEF BlankEntry
    <3>3. Doomed(c)' /\ Packet(c).filename \notin FileName \cup {NoName}
      BY <1>1, <2>4, <2>6 DEF Doomed
    <3>4. \/ InArray(c) /\ InArray(c)' /\ files'[c][1] = files[c][1]
          \/ ~ InArray(c) /\ ~ InArray(c)'
      <4>1. CASE i = 1
        BY <3>2, <3>3, <4>1 DEF InArray
      <4>2. CASE i # 1
        BY <1>1, <3>2, <4>2 DEF InArray
      <4> QED
        BY <4>1, <4>2
    <3>5. EntryAt(c)'
      BY <1>1, <1>2, <2>1, <2>4, <3>2, <3>3, <3>4
         DEF EntryAt, InArray, Pending, Giving
    <3> QED
      BY <1>1, <1>2, <1>3, <2>1, <2>3, <2>4, <2>6, <3>2, <3>3, <3>4, <3>5, OneAnswer
  <2> QED
    BY <1>1, <1>2, <2>1, <2>5, <2>6
\* an answer that tells no newer time, or that nobody reads
<1>8. ASSUME NEW i \in Slot, NEW t \in EntryTime(c, i), Named(c), Looked(c, i, t),
             Packet(c).mtime <= t, t \in Nat
      PROVE  /\ Packet(c).filename = OnlyFile
             /\ t = files[c][1].mtime /\ InArray(c)
             /\ Table(c, i, t) = files[c]
  <2>1. Packet(c).filename \notin DirName
    BY <1>2, <1>8, OneDirectory DEF BlankEntry
  <2>2. Packet(c).filename \in FileName
    BY <1>1, <1>2, <1>8, <2>1
  <2>3. FirstEntry(c, i, t)
    BY <1>8, <2>2, OneEntry
  <2>4. InArray(c)
    BY <1>1, <1>2, <1>8, <2>3 DEF FirstEntry, EntryAt, InArray
  <2> QED
    BY <1>1, <2>2, <2>3, <2>4 DEF FirstEntry
<1>6. ASSUME SendNewer(c) PROVE OneFileInv'
  <2>1. Named(c)
    BY <1>6 DEF SendNewer
  <2>2. PICK i \in Slot : \E t \in EntryTime(c, i) :
          /\ Looked(c, i, t)
          /\ Packet(c).mtime \in 0..(t-1)
          /\ Announce(c, "give", Header(Packet(c).filename, t))
          /\ files' = [files EXCEPT ![c] = Table(c, i, t)]
    BY <1>6 DEF SendNewer, Answered
  <2>3. PICK t \in EntryTime(c, i) :
          /\ Looked(c, i, t)
          /\ Packet(c).mtime \in 0..(t-1)
          /\ Announce(c, "give", Header(Packet(c).filename, t))
          /\ files' = [files EXCEPT ![c] = Table(c, i, t)]
    BY <2>2
  <2>4. t \in Nat
    BY <1>2, <2>1, EntryTimeIsTime
  <2>5. /\ Packet(c).filename = OnlyFile
        /\ t = files[c][1].mtime /\ InArray(c)
        /\ Table(c, i, t) = files[c]
    BY <1>2, <1>8, <2>1, <2>3, <2>4
  <2>6. files'[c] = files[c]
    BY <2>3, <2>5 DEF TypeOK
  \* the client that asked is gone
  <2>7. ~ ClientEnd(c)
    BY <1>1, <1>2, <2>1, <2>3, <2>5 DEF OffersAt
  <2>8. /\ UNCHANGED <<disk, sharing, fileLength>> /\ Consume(c)
        /\ Respond(c, Header(OnlyFile, t))
        /\ phase'[c] = "give"
    BY <1>1, <1>6, <2>3, <2>4, <2>5, Announced DEF SendNewer, Giving, MTimes
  <2>9. EntryAt(c)' /\ InArray(c)'
    BY <1>1, <1>2, <2>1, <2>5, <2>6, <2>7, <2>8
       DEF EntryAt, InArray, Pending, Doomed, Giving, ClientEnd, clientVars
  <2> QED
    BY <1>1, <1>2, <1>3, <2>1, <2>4, <2>5, <2>7, <2>8, <2>9, OneAnswer
<1>7. ASSUME AlreadyInSync(c) PROVE OneFileInv'
  <2>1. Named(c)
    BY <1>7 DEF AlreadyInSync
  <2>2. PICK i \in Slot : \E t \in EntryTime(c, i) :
          /\ Looked(c, i, t)
          /\ Packet(c).mtime = t
          /\ Respond(c, Header(Packet(c).filename, t))
          /\ files' = [files EXCEPT ![c] = Table(c, i, t)]
    BY <1>7 DEF AlreadyInSync, Answered
  <2>3. PICK t \in EntryTime(c, i) :
          /\ Looked(c, i, t)
          /\ Packet(c).mtime = t
          /\ Respond(c, Header(Packet(c).filename, t))
          /\ files' = [files EXCEPT ![c] = Table(c, i, t)]
    BY <2>2
  <2>4. t \in Nat
    BY <1>2, <2>1, <2>3
  <2>5. /\ Packet(c).filename = OnlyFile
        /\ t = files[c][1].mtime /\ InArray(c)
        /\ Table(c, i, t) = files[c]
    BY <1>8, <2>1, <2>3, <2>4
  <2>6. files'[c] = files[c]
    BY <2>3, <2>5 DEF TypeOK
  <2>7. UNCHANGED <<disk, phase, sharing, fileLength, upload>> /\ Consume(c)
    BY <1>7 DEF AlreadyInSync
  <2>8. EntryAt(c)' /\ InArray(c)'
    BY <1>1, <1>2, <2>1, <2>5, <2>6, <2>7
       DEF EntryAt, InArray, Pending, Doomed, Giving
  <2> QED
    BY <1>1, <1>2, <1>3, <2>1, <2>3, <2>4, <2>5, <2>6, <2>7, <2>8, OneAnswer
<1> QED
  BY <1>4, <1>5, <1>6, <1>7

\* Every step of the server.
LEMMA OneServer ==
  ASSUME OneFile, TypeOK, InStep, OneFileInv, NEW c \in Client, ServerNext(c)
  PROVE  OneFileInv'
<1>1. ServerStep(c) /\ UNCHANGED <<envVars, clientVars, local>>
  BY DEF ServerNext
<1>2. ASSUME \/ RefreshFails(c) \/ BrokenPipe(c) \/ AddSharedOverflow(c)
             \/ GiveNothing(c) \/ GetDirectory(c) \/ GetEof(c)
      PROVE  OneFileInv'
  <2>1. ServerDies /\ UNCHANGED disk
    BY <1>2 DEF RefreshFails, BrokenPipe, AddSharedOverflow, GiveNothing,
                GetDirectory, GetEof
  <2> QED
    BY <1>1, <2>1, OneDeath DEF envVars
<1> QED
  BY <1>1, <1>2, OneSession, OnePacket, OneNever DEF ServerStep

-----------------------------------------------------------------------------
(* Steps of the client, connecting, and the environment. *)

\* What a client never does: it has no deletion to report, and no response
\* brings a newer version, a new file or the order to remove one.
LEMMA OneClientNever ==
  ASSUME OneFile, TypeOK, InStep, OneFileInv, NEW c \in Client
  PROVE  /\ ~ ReportDeleted(c) /\ ~ AckDeletion(c) /\ ~ RemoveFile(c)
         /\ ~ GetNewer(c) /\ ~ GetNewerDirectory(c) /\ ~ GetNew(c)
         /\ ~ GetDone(c) /\ ~ GetNewDone(c) /\ ~ GetVanished(c)
<1>1. OwnedAt(c) /\ OffersAt(c)
  BY OneUser
<1>2. ~ ReportDeleted(c)
  BY <1>1 DEF ReportDeleted, Gone, Exists, OwnedAt
<1>3. ASSUME SyncAcked(c)
      PROVE  /\ Response(c).mtime # Deleted
             /\ ~ (Response(c).mtime > cur[c].mtime)
  <2>1. Response(c).mtime \in 0..cur[c].mtime
    BY <1>1, <1>3 DEF SyncAcked, Acked, OffersAt, Response
  <2>2. cur[c].mtime \in Int
    BY DEF TypeOK, Transfer, MTimes, Deleted
  <2> QED
    BY <2>1, <2>2 DEF Deleted
<1>4. ~ RemoveFile(c) /\ ~ GetNewer(c) /\ ~ GetNewerDirectory(c)
  BY <1>3 DEF RemoveFile, GetNewer, GetNewerDirectory
<1>5. ~ GetNew(c)
  BY <1>1 DEF GetNew, Acked, OffersAt, Response
<1>6. ~ AckDeletion(c) /\ ~ GetDone(c) /\ ~ GetNewDone(c) /\ ~ GetVanished(c)
  BY <1>1 DEF AckDeletion, GetDone, GetNewDone, GetVanished, OffersAt
<1> QED
  BY <1>2, <1>4, <1>5, <1>6

\* What a step of the client has to keep.
LEMMA OneClient ==
  ASSUME OneFile, TypeOK, InStep, OneFileInv, NEW c \in Client,
         UNCHANGED <<now, disk, slotVars, local>>, ClientEnd(c),
         \A name \in FileName : known'[c][name] > 0 => local[c][name] # Absent,
         todo'[c] \subseteq Present(local[c]),
         DueAt(c)', OffersAt(c)'
  PROVE  OneFileInv'
<1>1. EntryAt(c) /\ OwnedAt(c) /\ Client = {c}
  BY OneUser
<1>2. EntryAt(c)'
  BY <1>1 DEF EntryAt, InArray, Pending, Doomed, slotVars
<1>3. OwnedAt(c)'
  BY <1>1 DEF OwnedAt
<1> QED
  BY <1>1, <1>2, <1>3 DEF OneFileInv

\* The client exits or crashes.
LEMMA OneExit ==
  ASSUME OneFile, TypeOK, InStep, OneFileInv, NEW c \in Client, Exit(c),
         UNCHANGED <<now, disk, slotVars, local>>, ClientEnd(c),
         Within(toServer'[c], toServer[c])
  PROVE  OneFileInv'
<1>1. /\ DueAt(c) /\ FileName \subseteq EntryName
      /\ local[c] \in Folder /\ toServer[c] \in Seq(Message)
  BY OneUser
<1>2. /\ pc'[c] = "off" /\ todo'[c] = {} /\ toClient'[c] = <<>>
      /\ \A name \in FileName : known'[c][name] = 0
  BY <1>1 DEF Exit, NothingKnown, TypeOK
<1>3. DueAt(c)'
  <2>1. \A name \in FileName : local[c][name] # Absent =>
          local[c][name].mtime \in Nat
    BY <1>1, FileInFolder DEF Exists
  <2>2. (Reported(c) => Reported(c)') /\ (Doomed(c) => Doomed(c)')
    BY DEF Reported, InArray, Doomed, slotVars
  <2> QED
    BY <1>1, <2>1, <2>2, DueKept
<1>4. OffersAt(c)'
  BY <1>2 DEF OffersAt
<1> QED
  BY <1>2, <1>3, <1>4, OneClient

\* Every step of the client; none of them changes the folder.
LEMMA OneClientStep ==
  ASSUME OneFile, TypeOK, InStep, OneFileInv, NEW c \in Client, ClientNext(c)
  PROVE  OneFileInv' /\ local' = local
<1> USE DEF envVars, slotVars, wireVars
<1>1. /\ EntryAt(c) /\ OwnedAt(c) /\ DueAt(c) /\ OffersAt(c) /\ InStepAt(c)
      /\ FileName = {OnlyFile} /\ EntryName = FileName \cup DirName
      /\ NoName \notin EntryName /\ OnlyFile \notin DirName
      /\ files[c][1].mtime \in Nat
      /\ local[c] \in Folder /\ cur[c] \in Transfer
      /\ toServer[c] \in Seq(Message) /\ count[c] \in Nat
  BY OneUser DEF TypeOK
<1>2. UNCHANGED <<now, disk, slotVars>> /\ ClientStep(c)
  BY DEF ClientNext
<1>0. ClientEnd(c)
  BY <1>2 DEF ClientStep, ClientEnd, Unanswered, ReportDeleted, StartWalk,
     NullName, AckDeletion, Walk, WalkVanished, WalkDone, RemoveFile, SendFile,
     SendVanished, SameTime, GetNewer, GetNewerDirectory, GetNew, CycleDone,
     GetDone, GetNewDone, GetVanished, SyncAcked
<1>3. /\ Within(toServer[c], toServer[c])
      /\ \A name \in FileName : local[c][name] # Absent =>
           local[c][name].mtime \in Nat
      /\ Reported(c) => Reported(c)'
      /\ Doomed(c) => Doomed(c)'
  BY <1>1, <1>2, LessIsWithin, FileInFolder DEF Reported, InArray, Doomed, Exists
\* what has been sent stays due, and so does what is sent now
<1>4. ASSUME local' = local, toServer'[c] = toServer[c] PROVE DueAt(c)'
  BY <1>1, <1>3, <1>4, DueKept
<1>5. ASSUME local' = local, NEW m \in Message, Send(c, m),
             ServerEnd(c) => Due(c, m) \/ Doomed(c)
      PROVE  DueAt(c)'
  <2>1. CASE toServer'[c] = toServer[c]
    BY <1>4, <1>5, <2>1
  <2>2. CASE Doomed(c)
    BY <1>3, <2>2 DEF DueAt
  <2>3. CASE /\ ServerEnd(c) /\ ~ Doomed(c)
             /\ toServer'[c] = Append(toServer[c], m)
    <3>1. /\ Len(Append(toServer[c], m)) = Len(toServer[c]) + 1
          /\ \A k \in 1..Len(toServer[c]) :
               Append(toServer[c], m)[k] = toServer[c][k]
          /\ Append(toServer[c], m)[Len(toServer[c]) + 1] = m
          /\ Len(toServer[c]) \in Nat
      BY <1>1, AppendProperties, LenProperties
    <3>2. \A m2 : Due(c, m2) => Due(c, m2)'
      BY <1>2, <1>5 DEF Due, Reported, InArray
    <3> QED
      BY <1>1, <1>5, <2>3, <3>1, <3>2 DEF DueAt
  <2> QED
    BY <1>5, <2>1, <2>2, <2>3 DEF Send, TypeOK
<1>6. pc[c] \in {"scan", "walk"} => toClient[c] = <<>>
  BY <1>1 DEF InStepAt, Connected, ServerLeft, Leftover, ClientEnd
<1>7. CASE StartWalk(c)
  <2>1. /\ pc'[c] = "walk" /\ todo'[c] = Present(local[c]) /\ count'[c] = 0
        /\ UNCHANGED <<known, local, toServer>>
    BY <1>7 DEF StartWalk, TypeOK
  <2>2. OffersAt(c)'
    <3>1. todo'[c] = {} => Reported(c)
      BY <1>1, <2>1 DEF Present, Exists, OwnedAt, Reported
    <3> QED
      BY <1>3, <2>1, <3>1 DEF OffersAt
  <2>3. \A name \in FileName : known[c][name] > 0 => local[c][name] # Absent
    BY <1>1 DEF OwnedAt
  <2>4. DueAt(c)'
    BY <1>4, <2>1
  <2> QED
    BY <1>0, <1>2, <2>1, <2>2, <2>3, <2>4, OneClient
<1>8. ASSUME ExitOnly(c) PROVE OneFileInv' /\ local' = local
  BY <1>0, <1>2, <1>3, <1>8, OneExit DEF ExitOnly
<1>9. ASSUME NEW name \in EntryName, Walk(c, name)
      PROVE  OneFileInv' /\ local' = local
  <2>1. PICK t \in DirTime :
          /\ Send(c, Header(name, MTime(local[c], name, t)))
          /\ cur' = [cur EXCEPT ![c] =
                       [name |-> name, mtime |-> MTime(local[c], name, t),
                        link |-> "gone"]]
    BY <1>9 DEF Walk
  <2> DEFINE mtime == MTime(local[c], name, t)
  <2>2. /\ pc[c] = "walk" /\ Exists(local[c], name)
        /\ pc' = [pc EXCEPT ![c] = "ackSync"]
        /\ todo' = [todo EXCEPT ![c] = @ \ {name}]
        /\ count' = [count EXCEPT ![c] = @ + 1]
        /\ known' = [known EXCEPT ![c][name] = IF @ = 0 THEN 1 ELSE @]
        /\ UNCHANGED <<local, toClient>>
    BY <1>9 DEF Walk
  <2>3. /\ mtime \in Nat /\ mtime > 0
        /\ name \in FileName => local[c][name] # Absent /\ mtime = local[c][name].mtime
    <3>1. CASE name \in FileName
      BY <1>1, <1>3, <2>2, <3>1 DEF OwnedAt, Exists, MTime
    <3>2. CASE name \in DirName
      BY <1>1, <3>2 DEF MTime, DirTime, TypeOK
    <3> QED
      BY <1>1, <3>1, <3>2
  <2> HIDE DEF mtime
  <2>4. /\ pc'[c] = "ackSync" /\ toClient'[c] = <<>> /\ count'[c] > 0
        /\ cur'[c].name = name /\ cur'[c].mtime = mtime
        /\ todo'[c] \subseteq todo[c]
    BY <1>1, <1>6, <2>1, <2>2 DEF TypeOK, mtime
  <2>5. DueAt(c)'
    <3>1. /\ Header(name, mtime) \in Message
          /\ Header(name, mtime).filename = name
          /\ Header(name, mtime).mtime = mtime
      BY <2>3, HeaderIsMessage DEF MTimes
    <3>2. Due(c, Header(name, mtime))
      BY <1>1, <2>3, <3>1 DEF Due
    <3> QED
      BY <1>5, <2>1, <2>2, <3>1, <3>2 DEF mtime
  <2>6. OffersAt(c)'
    <3>1. name \in FileName /\ InArray(c) => files[c][1].mtime <= mtime
      BY <1>1, <2>3 DEF EntryAt, InArray
    <3> QED
      BY <1>2, <2>2, <2>3, <2>4, <3>1 DEF OffersAt, InArray
  <2>7. \A other \in FileName : known'[c][other] > 0 => local[c][other] # Absent
    BY <1>1, <2>2, <2>3 DEF OwnedAt, TypeOK
  <2>8. todo'[c] \subseteq Present(local[c])
    BY <1>1, <2>4 DEF OwnedAt
  <2> QED
    BY <1>0, <1>2, <2>2, <2>4, <2>5, <2>6, <2>7, <2>8, OneClient
<1>10. CASE WalkDone(c)
  <2>1. /\ pc[c] = "walk" /\ pc'[c] = "ackNew" /\ todo'[c] = {}
        /\ Send(c, Header(NoName, 0))
        /\ UNCHANGED <<known, local, toClient>>
        /\ todo[c] = {} \/ count[c] >= MaxFiles
    BY <1>10 DEF WalkDone, AskNew, TypeOK
  <2>2. ServerEnd(c) => Reported(c) \/ Doomed(c)
    BY <1>1, <2>1, FileTableAssumption DEF OffersAt, ServerEnd
  <2>3. DueAt(c)'
    <3>1. /\ Header(NoName, 0) \in Message
          /\ Header(NoName, 0).filename = NoName
      BY HeaderIsMessage DEF MTimes
    <3> QED
      BY <1>5, <2>1, <2>2, <3>1 DEF Due
  <2>4. OffersAt(c)'
    BY <1>6, <2>1 DEF OffersAt
  <2>5. \A name \in FileName : known[c][name] > 0 => local[c][name] # Absent
    BY <1>1 DEF OwnedAt
  <2> QED
    BY <1>0, <1>2, <2>1, <2>3, <2>4, <2>5, OneClient
<1>11. CASE SendFile(c) \/ SameTime(c) \/ CycleDone(c)
  <2>1. /\ toClient[c] # <<>>
        /\ UNCHANGED <<known, todo, local>>
        /\ \/ pc[c] = "ackSync" /\ pc'[c] = "walk"
           \/ pc[c] = "ackNew" /\ pc'[c] = "scan"
    BY <1>11 DEF SendFile, SameTime, CycleDone, SyncAcked, Acked, TypeOK
  <2>2. OffersAt(c)'
    BY <1>1, <1>2, <1>3, <2>1 DEF OffersAt, Reported
  <2>3. DueAt(c)'
    <3>1. CASE SendFile(c)
      <4>1. /\ pc[c] = "ackSync" /\ Exists(local[c], cur[c].name)
            /\ IF cur[c].name \in FileName
               THEN Send(c, Body(local[c][cur[c].name].data))
               ELSE UNCHANGED toServer
        BY <3>1 DEF SendFile, SyncAcked
      <4>2. ASSUME cur[c].name \in FileName
            PROVE  /\ Body(local[c][cur[c].name].data) \in Message
                   /\ Body(local[c][cur[c].name].data).kind = "body"
        BY <1>1, <4>1, <4>2, FileInFolder, BodyIsMessage DEF Body
      <4>3. CASE cur[c].name \in FileName
        BY <1>5, <2>1, <4>1, <4>2, <4>3 DEF Due
      <4>4. CASE cur[c].name \notin FileName
        BY <1>4, <2>1, <4>1, <4>4
      <4> QED
        BY <4>3, <4>4
    <3>2. CASE SameTime(c) \/ CycleDone(c)
      BY <1>4, <2>1, <3>2 DEF SameTime, CycleDone
    <3> QED
      BY <1>11, <3>1, <3>2
  <2>4. /\ \A name \in FileName : known[c][name] > 0 => local[c][name] # Absent
        /\ todo[c] \subseteq Present(local[c])
    BY <1>1 DEF OwnedAt
  <2> QED
    BY <1>0, <1>2, <2>1, <2>2, <2>3, <2>4, OneClient
<1>12. Unanswered(c) \/ NullName(c) \/ WalkVanished(c) \/ SendVanished(c) =>
         ExitOnly(c)
  BY DEF Unanswered, NullName, WalkVanished, SendVanished
<1> QED
  BY <1>2, <1>7, <1>8, <1>9, <1>10, <1>11, <1>12, OneClientNever
     DEF ClientStep

\* A client that is back finds its array as it was; the server that refuses it
\* dies.
LEMMA OneLogin ==
  ASSUME OneFile, TypeOK, InStep, OneFileInv, NEW c \in Client
  PROVE  /\ Login(c) => OneFileInv'
         /\ LoginFails(c) => OneFileInv'
<1>1. /\ EntryAt(c) /\ OwnedAt(c) /\ DueAt(c) /\ Client = {c}
      /\ FileName \subseteq EntryName /\ local[c] \in Folder
      /\ toServer[c] \in Seq(Message)
  BY OneUser
<1>2. ASSUME Login(c) PROVE OneFileInv'
  <2>1. /\ phase[c] = "dead" /\ phase'[c] = "sync" /\ pc'[c] = "scan"
        /\ sharing'[c] = (\E o \in slots \ {c} : DirOf[o] = DirOf[c])
        /\ known'[c] = [name \in EntryName |->
             IF name \in FileName /\ Exists(local[c], name) THEN 1 ELSE 0]
        /\ UNCHANGED <<now, disk, files, fileLength, upload, toServer,
                       toClient, todo, local>>
    BY <1>2 DEF Login, ServerLogin, ClientStart, envVars, wireVars, TypeOK
  <2>2. ~ sharing'[c]
    BY <1>1, <2>1 DEF TypeOK
  <2>3. EntryAt(c)'
    BY <1>1, <2>1, <2>2 DEF EntryAt, InArray, Pending, Doomed, Giving
  <2>4. OwnedAt(c)'
    BY <1>1, <2>1 DEF OwnedAt, Exists
  <2>5. DueAt(c)'
    BY <1>1, <2>1 DEF DueAt, Due, Reported, InArray, Doomed
  <2>6. OffersAt(c)'
    BY <2>1 DEF OffersAt
  <2> QED
    BY <1>1, <2>3, <2>4, <2>5, <2>6 DEF OneFileInv
<1>3. LoginFails(c) => OneFileInv'
  BY OneDeath DEF LoginFails, LoginRefused, envVars
<1> QED
  BY <1>2, <1>3

\* The user saves a version that is no older than the last one, and processes
\* crash.
LEMMA OneEnv ==
  ASSUME OneFile, TypeOK, InStep, OneFileInv, EnvNext
  PROVE  OneFileInv'
<1> SUFFICES ASSUME NEW c \in Client PROVE OneFileInv'
  BY DEF OneFileInv
<1> USE DEF slotVars, wireVars
<1>1. /\ EntryAt(c) /\ OwnedAt(c) /\ DueAt(c) /\ OffersAt(c)
      /\ Client = {c} /\ FileName = {OnlyFile}
      /\ FileName \subseteq EntryName /\ Remembers(c)
      /\ files[c][1].mtime \in Nat
      /\ local[c] \in Folder /\ cur[c] \in Transfer /\ now \in Nat
      /\ toServer[c] \in Seq(Message)
  BY OneUser
<1>2. /\ Within(toServer[c], toServer[c])
      /\ Within(Trim(toServer[c]), toServer[c])
      /\ \A name \in FileName : local[c][name] # Absent =>
           local[c][name].mtime \in Nat
  BY <1>1, LessIsWithin, FileInFolder DEF Exists
<1>3. CASE Tick
  <2>1. OwnedAt(c)'
    BY <1>1, <1>2, <1>3 DEF Tick, OwnedAt, clientVars
  <2>2. EntryAt(c)' /\ DueAt(c)' /\ OffersAt(c)'
    BY <1>1, <1>3 DEF Tick, EntryAt, DueAt, Due, OffersAt, Reported, InArray,
                      Pending, Doomed, Giving, ClientEnd, clientVars
  <2> QED
    BY <1>1, <2>1, <2>2 DEF OneFileInv
<1>4. ASSUME NEW name \in FileName, UserWrite(c, name) PROVE OneFileInv'
  <2>1. PICK t \in NewTime(name) :
          local' = [local EXCEPT ![c][name] = NewFile(name, c, t)]
    BY <1>4 DEF UserWrite
  <2>2. /\ cur' = [cur EXCEPT ![c] = Unlink(@, name)]
        /\ UNCHANGED <<now, disk, slotVars, wireVars, pc, known, todo, count>>
        /\ ops < MaxOps
    BY <1>4 DEF UserWrite, Event
  <2> DEFINE file == NewFile(name, c, t)
  <2>3. file # Absent /\ file.mtime = now /\ now > 0
    <3>1. file \in File
      BY <2>2, NewFileIsFile
    <3>2. file.mtime = t /\ t = now
      BY DEF NewFile, NewTime, OneFile
    <3> QED
      BY <3>1, <3>2, AbsentAssumption DEF TypeOK
  <2> HIDE DEF file
  <2>4. name = OnlyFile /\ local'[c][OnlyFile] = file
    BY <1>1, <2>1 DEF Folder, TypeOK, file
  <2>5. /\ local[c][OnlyFile] # Absent => local[c][OnlyFile].mtime <= now
        /\ local[c][OnlyFile] # Absent => local[c][OnlyFile].mtime \in Nat
    BY <1>1, <1>2 DEF OwnedAt
  <2>6. cur'[c].name = cur[c].name /\ cur'[c].mtime = cur[c].mtime
    BY <1>1, <2>2, UnlinkKeeps DEF TypeOK
  <2>7. EntryAt(c)'
    BY <1>1, <2>2, <2>3, <2>4, <2>5
       DEF EntryAt, InArray, Pending, Doomed, Giving, ClientEnd
  <2>8. OwnedAt(c)'
    <3>1. Present(local[c]) \subseteq Present(local'[c])
      BY <1>1, <2>3, <2>4 DEF Present, Exists
    <3> QED
      BY <1>1, <2>2, <2>3, <2>4, <3>1 DEF OwnedAt
  <2>9. DueAt(c)'
    <3>1. (Reported(c) => Reported(c)') /\ (Doomed(c) => Doomed(c)')
      BY <2>2 DEF Reported, InArray, Doomed
    <3> QED
      BY <1>1, <1>2, <2>2, <2>3, <2>4, <2>5, <3>1, DueKept
  <2>10. OffersAt(c)'
    <3>1. pc[c] = "ackSync" => cur[c].mtime \in Nat
      BY <1>1 DEF Remembers
    <3> QED
      BY <1>1, <2>2, <2>3, <2>4, <2>5, <2>6, <3>1
         DEF OffersAt, Reported, InArray, Doomed
  <2> QED
    BY <1>1, <2>7, <2>8, <2>9, <2>10 DEF OneFileInv
<1>5. ASSUME ClientCrash(c) PROVE OneFileInv'
  <2>1. /\ Exit(c) /\ UNCHANGED <<now, disk, slotVars, local>>
        /\ ClientEnd(c)
        /\ toServer'[c] \in {toServer[c], Trim(toServer[c])}
    BY <1>5 DEF ClientCrash, Event, ClientEnd, TypeOK
  <2> QED
    BY <1>2, <2>1, OneExit
<1>6. ServerCrash => OneFileInv'
  BY OneDeath DEF ServerCrash, Event
<1>7. Env \cap {"delete", "adminWrite", "adminDelete"} = {}
  BY DEF OneFile
<1> QED
  BY <1>1, <1>3, <1>4, <1>5, <1>6, <1>7
     DEF EnvNext, UserDelete, AdminWrite, AdminDelete, AdminDeleteFailsStat,
         Event

LEMMA InitIsOneFile == Init => OneFileInv
<1> SUFFICES ASSUME Init, NEW c \in Client
             PROVE  EntryAt(c) /\ OwnedAt(c) /\ DueAt(c) /\ OffersAt(c)
  BY DEF OneFileInv
<1>1. /\ files[c] = clear_files /\ phase[c] = "dead" /\ ~ sharing[c]
      /\ fileLength[c] = 0 /\ upload[c] = NoTransfer
      /\ toServer[c] = <<>> /\ pc[c] = "off" /\ todo[c] = {}
      /\ \A name \in FileName : disk[name] = Absent /\ local[c][name] = Absent
      /\ \A name \in FileName : known[c][name] = 0
  BY DEF Init, SlotsInit, ClientInit, Everywhere, NothingKnown, EntryName
<1>2. \A i \in Slot : files[c][i] = EmptySlot
  BY <1>1 DEF clear_files
<1>3. 1 \in Slot /\ NoName \notin FileName \cup DirName
  BY FileTableAssumption DEF Slot, EntryName
<1> QED
  BY <1>1, <1>2, <1>3
     DEF EntryAt, OwnedAt, DueAt, OffersAt, InArray, EmptySlot, Giving

\* OneFileInv is inductive, together with the invariant of Sync.
LEMMA OneFileStep ==
  ASSUME OneFile, IInv, OneFileInv, [Next]_vars
  PROVE  OneFileInv'
<1>1. TypeOK /\ InStep
  BY DEF IInv
<1>2. CASE UNCHANGED vars
  BY <1>2 DEF vars, envVars, slotVars, wireVars, clientVars, OneFileInv, EntryAt,
              OwnedAt, DueAt, Due, OffersAt, Reported, InArray, Pending, Doomed,
              ClientEnd
<1>3. CASE Boot
  BY <1>3 DEF Boot, ServerBoots, envVars, slotVars, wireVars, clientVars,
              OneFileInv, EntryAt, OwnedAt, DueAt, Due, OffersAt, Reported,
              InArray, Pending, Doomed, ClientEnd
<1> QED
  BY <1>1, <1>2, <1>3, OneLogin, OneServer, OneClientStep, OneEnv DEF Next

\* The invariant of a user with one file holds in every reachable state.
THEOREM OneFileInvariance == ASSUME OneFile PROVE Spec => [](IInv /\ OneFileInv)
<1>1. IInv /\ OneFileInv /\ [Next]_vars => (IInv /\ OneFileInv)'
  BY OneFileStep, StepKeepsInvariant
<1> QED
  BY <1>1, InitIsInvariant, InitIsOneFile, PTL DEF Spec

\* For a user who works alone with one file, and deletes nothing, no step of the
\* synchronization changes the file in the user's folder, although both sides may
\* crash at any point and start again: whatever the server has kept is older.
THEOREM OneFileUntouched == ASSUME OneFile PROVE Spec => OwnFilesUntouched
<1>1. ASSUME IInv, OneFileInv, NEW c \in Client, ClientNext(c)
      PROVE  local'[c] = local[c]
  BY <1>1, OneClientStep DEF IInv
<1>2. IInv /\ OneFileInv =>
        [\A c \in Client : ClientNext(c) => local'[c] = local[c]]_vars
  BY <1>1
<1> QED
  BY <1>2, OneFileInvariance, PTL DEF Spec, OwnFilesUntouched
=============================================================================
