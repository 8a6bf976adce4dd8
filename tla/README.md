# Verification of the file synchronization, the copy program and the echo server

TLA+ modules for the Dropbox-like file synchronization of this repository
(`dbserver.c`, `dbclient.c` and `helpers/`) and for the two other programs that
are kept beside it: the copy program with a pool of threads (`hw5.c`) and the
echo server with its client (`server.c`, `client.c`). TLC checks them on small
instances, TLAPS proves the main safety properties for every instance.

## 1. The system

A client (`dbclient -h host -d directory -u user`) logs in and then repeats a
*cycle*: report one file that has disappeared since it was last seen, or else
walk the folder and offer every entry to the server with its modification time;
then fetch the files it does not have; then sleep. The server keeps one folder,
`server_files/`, and for every user an array of the files that user is believed
to have, with the modification times last seen. It runs one thread per
connection.

| component | state | operations | interacts with |
|---|---|---|---|
| session (`startConsThread`, `process_client_request`, `send_new_file`, `add_shared`, `refresh_file_times`, `send_file`, `close_connection`) | `client_info`: `state`, `refresh`, `sharing`, `get_filename...`; the folder | login, refresh, one step per request, receiving a file (open, data, stamp), end of the connection | the client over TCP; the other sessions through the folder and `client_mutex` |
| file_info array (`helpers/filedata.c`, `cleanFileInArray`, the loops of `dbserver.c`) | `files`, `fileLength` | `clear_files`, `check_file`, shift, search, refresh | one array per user, kept over logins |
| client slots (`init`, `add_client`, `check_sharing`) | `clients[MAXCLIENTS]` | find, reuse or take a slot | all sessions |
| sync cycle (`sync_files`, `retrieve_new_files`, `send_file`, `get_file` of `dbclient.c`) | `currentFileNames`, `file_count`, the packet in hand, the folder | report a deletion, walk, send, receive, remove | the server over TCP; the user through the folder |
| accept loop and descriptors (`main` of `dbserver.c`, the head and the end of `startConsThread`) | `thread_args`, the descriptor table, `client_count`, `clients[].sock` | accept, start a thread, close a connection, end a session | sessions, over memory that no mutex protects |
| transfer (`send_file`, `get_file`, `readn.c`, `writen.c`, chunks of 256 bytes) | counters, socket buffers | read or write exactly n bytes | both sides, and all sessions through `client_mutex` |
| copy program (`hw5.c`) | a task queue, a mutex, two condition variables, the descriptor table | produce, consume, copy, signal | none of the above |
| echo server and client (`server.c`, `client.c`) | an array of sockets, a set of descriptors | accept, select, echo, leave | none of the above |

The folders `clientDir1`, `2`, `5`, `6` hold data that was synchronized (copies
of `server.c`). `get_file` of `dbserver.c`, `updateStoredFileNames`,
`fileExists`, `send_directory` and `display_clients` are never called.

What makes the system hard:

* **No message types.** What the next bytes on a connection are, a
  `sync_message` or the content of a file, is known only from the position the
  reader is at. One response too few or too many, on any path, and content is
  read as a message or both sides wait for ever.
* **Cached state.** The server decides by the array of the user, not by the
  folder. The array is refreshed at one moment of a cycle, uploads and
  deletions of other users happen at any other.
* **Two ideas of length.** Some loops end at the first empty entry, some at
  `fileLength`, and the two drift apart.
* **Concurrency.** Requests run under `client_mutex`; uploads and refreshes do
  not. An upload truncates, writes and stamps a file in separate steps, by name.
* **The user.** Files are saved and deleted between the `stat` that is sent, the
  response, and the `fopen` that follows.
* **Failure.** Most errors end in `exit(1)`; on the server that ends every
  session. The arrays do not survive, the folder does.

What makes it correct: both ends of a connection stay in step and no one waits
for ever; content stays in the file it was written for; the arrays tell the
truth when a decision is taken by them; a cycle ends; a user's version is not
replaced by an older one or removed without anyone having deleted it; when
editing stops, the folders become the same; one client cannot stop the server.
Not all of this holds. In particular the last two do not, in any run of the
program: every folder has an entry ".", the client offers it, and the server
stops when it opens it for writing. Section 5 says what else does not hold.

## 2. The modules

    FileTable  <- SyncState <- SyncServer <-+
        |             ^------- SyncClient <-+- Sync <- SyncProps <- MCSync
        |                         Conversation <-----------+  ^
    FileTableLoops <- LoopsProofs             SyncProofs -----+
    FileTableProofs <- LoopsProofs, SyncProofs    ^
                                           SyncUserProofs

    Sessions   <- MCSessions, SessionsProofs      Transfer <- TransferProofs
    TaskQueue  <- CopyPool <- MCCopyPool, CopyPoolProofs
    EchoServer <- EchoProofs

Sync, Sessions and Transfer model the same two programs, each with the detail
that the other two abstract from: Sync what a request does to files and arrays,
Sessions how threads, slots and descriptors of several connections get into each
other's way, Transfer how the content of a file moves.

* **FileTable**: the array, and one operator per loop over it, in closed form
  (`CheckFile`, `Listed`, `FirstMissing`, `Clean`, `CleanName`), and what a refresh does
  to one entry (`RefreshEntry`). An entry is `[filename, mtime]`; blanking an entry
  clears only the name, as in the code.
* **FileTableLoops**: the same loops as the code runs them, one iteration at a time, as
  recursive functions, and a machine that brings one array into every shape the server's
  operations can produce.
* **SyncState**: the variables that both programs work on, messages, files and
  transfers.
* **SyncServer**: a session. `phase[c]` is its position, one action per outcome of a
  request, one for sending a file, one per step of an upload, and one per system call of
  a refresh.
* **SyncClient**: a client. `pc[c]` is its position in `sync_files`.
* **Sync**: both, with logins, crashes, restarts, the clock, users and the operator of
  `server_files/`. The constant `Env` says which of these events a run contains.
* **SyncProps**: the type invariant, the lock step `InStep`, the properties and the
  fairness.
* **Conversation**: what a connection is for, without channels, mtimes or a folder:
  questions, answers and contents under way. SyncProps maps Sync to it.
* **MCSync**: constants for TLC.
* **FileTableProofs**, **LoopsProofs**, **SyncProofs**, **SyncUserProofs**: the proofs
  (section 6).

* **Sessions**: `dbserver.c` from `accept` to the end of a session. A descriptor
  is a number that is used again as soon as it is free, a slot has a `sock`, a
  `userid` and a `state`. A request is a packet that is answered, refused, or
  announces bytes.
* **Transfer**: `send_file` and `get_file` of both programs, the GETFILE branch
  and `client_mutex`, with channels of bounded capacity and a file as a row of
  units. How a request is answered is free.
* **TaskQueue**: what the queue of `hw5.c` promises; **CopyPool**: the program.
* **EchoServer**: `server.c` and `client.c`.
* **MCSessions**, **MCCopyPool**: constants for TLC. Transfer and EchoServer are
  checked as they are.
* **SessionsProofs**, **CopyPoolProofs**, **EchoProofs**, **TransferProofs**: the
  proofs.

### State and code of Sync

| variable | code |
|---|---|
| `disk`, `local[c]` | `server_files/`; the folder of a client. A file has an mtime and a content; the content records the name it was written under, its author and the event that wrote it; id 0 is an incomplete or mixed file |
| `slots` | users with an entry in `clients` |
| `phase[c]` | `client_info.sock` and `.state`, and the place in the thread: `dead`, `sync`, the GETFILE branch (`getfile`, `writing`, `stamp`), or before `send_file` with `client_mutex` held (`give`, and `giveNew` in `send_new_file`) |
| `refresh[c]` | the flag, and the place in `refresh_file_times`: the entry it is at, and whether `readdir` has found its file |
| `sharing`, `files`, `fileLength` | the fields of `client_info` |
| `upload[c]` | `get_filename`, `get_filename_timestamp` and the open file: still the file of that name (`own`), written by another upload as well (`shared`), or unlinked (`gone`); the name of the file to send while `phase[c]` is `give` or `giveNew` |
| `toServer[c]`, `toClient[c]` | bytes written and not yet read, as messages |
| `pc[c]` | place in `sync_files`, `retrieve_new_files`, `get_file` |
| `known[c]` | `currentFileNames`, as a bag |
| `todo[c]`, `count[c]` | what `readdir` has yet to return; `file_count` |
| `cur[c]` | `sync_packet`, then the arguments of `get_file` |
| `now`, `ops`, `deleted` | seconds, number of events, names somebody has deleted |

| action | code |
|---|---|
| `Login`, `LoginFails` | `setup`; the head of `startConsThread` with `add_client`, `check_sharing`; `exit(1)` without a slot |
| `RefreshFinds`, `RefreshSkips`, `RefreshTakes`, `RefreshFails`, `RefreshDone` | `refresh_file_times`: `readdir` finds the file of an entry or does not, `stat` succeeds or does not, the first empty entry |
| `SendNewFile`, `NewFileOverflow`, `NoNewFile` | `send_new_file` |
| `AddSharedOverflow`, `RefuseFile` | a full array in `add_shared`, in `process_client_request` |
| `NotifyDeleted` | a file of the user is gone from the folder; the packet gets no answer of its own |
| `AcceptDeletion`, `AskForFile`, `SendNewer`, `AlreadyInSync` | the rest of `process_client_request`, by the packet's mtime |
| `GiveFile`, `GiveNothing` | `send_file` after a response that announces a file; `fopen` fails and the process exits |
| `AdminDeleteFailsStat` | a file is deleted between the `readdir` and the `stat` of `send_new_file` or `add_shared`, and the process exits |
| `GetOpen`, `GetDirectory`, `GetData`, `GetEof`, `GetStamp` | the GETFILE branch |
| `ClientGone`, `BrokenPipe` | end of file in `Readn`; SIGPIPE |
| `ReportDeleted`, `AckDeletion`, `NullName`, `StartWalk` | the search for deleted files; `NullName` is the uninitialised `file_exists` |
| `Walk`, `WalkVanished`, `WalkDone` | the `readdir` loop up to the packet |
| `RemoveFile`, `SendFile`, `SendVanished`, `SameTime`, `GetNewer`, `GetNewerDirectory`, `GetDone` | the response to it, for files and for directories |
| `GetNew`, `GetNewDone`, `CycleDone` | `retrieve_new_files` |
| `GetVanished`, `Unanswered` | `stat` fails in `get_file`; end of file instead of a response |

A request runs under `client_mutex`, which the operator and the uploads of other
sessions do not hold. Up to its response it is one step; the `fopen` and the
reading of `send_file` are a second one, with the mutex held in between
(`MutexFree`), so that the file may be truncated, written, stamped or removed
after the response has announced it. The uploads and the refresh do not take the
mutex: an upload is three steps, a refresh two for each entry. A client's step ends
where it blocks, and wherever the user may get in between: `stat`, sending,
`fopen` and the final `stat` are separate. Definitions introduced by "Mutant:"
are not part of the model. Each is a slip one could make in the definition that
follows it, and the property listed with it in `PROJECT.json` notices it.

### Sync as a conversation

| Conversation | in Sync, per connection |
|---|---|
| `client`, `topic` | `pc`, as "closed", "idle", "waiting" or "receiving"; the name in `cur` |
| `server`, `content` | `phase`, as "closed", "ready", "receiving" or "giving"; `upload.name` until the content has come or is sent |
| `request` | the names in the headers in `toServer` |
| `response` | the headers in `toClient`, as the client takes them (`Meaning`): "want" if the mtime is smaller than that of its packet, "give" if it is larger or a new file is named, else "ack" |
| `up`, `down` | the names that the contents under way belong to |

`Meaning` is computed from what the client knows, the steps of the server are
guarded by what the server has decided. That the two agree is the content of
`ConversationKept`. A directory is a name without content: asking for one comes
to nothing, and giving one sends a header alone.

### State and code of Sessions

| variable | code |
|---|---|
| `fds` | the descriptor table: the connection every number is open for, 0 when it is closed |
| `args` | `thread_args.connfd` in the frame of `main` |
| `userid`, `sock`, `state`, `client_count` | the fields of `clients[]` that threads share, and the counter |
| `pc`, `connfd`, `client_slot`, `sockfd` | the position and the locals of every `startConsThread` |
| `resume` | where a thread in `close_connection` goes on |
| `client`, `sent`, `unread` | the other end of a connection |
| `blame` | history: which kinds of interference have happened |

| action | code |
|---|---|
| `Accept`, `AcceptNoThread`, `AcceptFails` | `dbserver.c:351-378`, `Accept` |
| `ReadArgs`, `Login`, `LoginFails` | the head of `startConsThread`, `add_client` |
| `Loop`, `Branch` | `dbserver.c:147` and `155`, `187`: the slot's `sock` and `state` are read again in every iteration, in two steps |
| `Handle`, `Refuse`, `ReadEnds` | `dbserver.c:171-185` |
| `CloseConnection`, `ClearSock`, `ClearState` | `close_connection`: the `Close` and the two stores into the slot, of which only those of `Refuse` are made with the mutex held |
| `GetData`, `GetEof` | the GETFILE loop, which has no `break` after `close_connection` |
| `CloseFails` | `Close` of a closed descriptor, which exits |
| `EndSession`, `CloseAgain` | `dbserver.c:298-313`: the search, the `memmove`, the second `close` |

The five words of `blame` are the ways in which threads get at each other's
connections: a thread reads `thread_args` after the next `accept` ("args"), a
user logs in while an older session of the same user is there ("relogin"), a
descriptor is closed for the second time when its number has a new owner
("reclose"), a session whose client is gone reads on from a number that has a
new owner ("stolen"), and the `memmove` hits a slot in use ("memmove"). All five
happen in the run. `OwnConnection` says that nothing else goes wrong.

### State and code of Transfer

| variable | code |
|---|---|
| `file`, `local[c]` | the one file, in `server_files/` and in the folder of every client, unit by unit |
| `toServer[c]`, `toClient[c]` | the buffers of a connection, at most `Buffer` units each |
| `mutex` | the session that is in `process_client_request` |
| `spc`, `answer`, `ssize`, `spos` | the place in `startConsThread`, the response, the size it announces or `get_filename_size`, `get_filename_readcount` or the offset of `fread` |
| `cpc`, `csize`, `cpos` | the place in `sync_files`, the size of the packet or of `get_file`, `readcount` or the offset of `fread` |
| `resized`, `steady` | history for the properties |

`Offer`, `Answer`, `SendUnit`, `SendEnds`, `GetUnit`, `GetEnds` are the client,
`Request`, `Decide`, `Reply`, `ReplyUnit`, `ReplyEnds`, `Open`, `Receive`,
`ReceiveEnds` the session; `GetSpins` is `get_file` of a server that has gone,
`ServerExits` the second `Close` and SIGPIPE, `Save` and `Kill` the user.

### State and code of CopyPool

`prod` and `cons[c]` are the positions of the producer and of the consumers in
`hw5.c`; `locked` says that the producer holds `mutexQueue`, which it keeps over
several calls. `buffer[c]` is what a consumer has read and not yet written.
`srcFileFd[d]` is the variable of the frame that works on folder
`d`; it is unset (0) before the first regular file of the folder. `fds` is the
descriptor table, `dest` the copies, `reg[c]` the register in which a consumer
adds to `totalBytes`. The actions follow the program from top to bottom, one per
call that can block, fail or be overtaken; `Fault` lists what may fail. `QueueSpec`
maps `taskQueue`, the files consumers have got, and `doneFlag` to TaskQueue.

### State and code of EchoServer

`listener`, `accepted`, `client_socket` are `start_server`; `pc[t]`, `arg[t]`
(the pointer into `clients`), `socket[t]` are `handle_client`; `client[k]` is
`client.c`. `readfds` is the set that `select` gets, as far as it holds
connections. `moved` records that `Remove` has moved an entry to which a thread
that has not started yet holds a pointer.

### Abstractions

Of Sync:

* A file is one message on the wire. Files are not empty and as long as
  announced (Transfer takes these three back).
* Client `c` is one user with one directory, logged in at most once at a time.
  The connection and the login are one step.
* `disk` survives a restart of the server. The README of the program assumes
  the folder to be empty then; the code does not empty it.
* Directories exist in every folder and their mtime is any time up to now. A
  client offers them like files, and a session that then asks for one ends the
  server (`GetDirectory`). `limits`, `solo_user`, `own_file` and `never_same` have
  one, as every real folder has ".", and in the last three the server is started
  again whenever that has stopped it. `solo_faults` has none, to leave its bounds
  to the other faults; what it checks is proved with any number of them.
  `phantom_deletion` has none to keep its trace short.
* `fileLength` is not bounded. Reading past the array yields an empty name
  (`At`), which is what the fields behind it contain; writing past it is not
  modelled. Neither is `currentFileNames` running over. What the end of a
  thread does to descriptors, `client_count` and slots is in Sessions.
* The searches and the `stat` calls of one request see one state of the folder; a
  file that disappears among them is `AdminDeleteFailsStat`. `send_file` reads a
  file at once, as it is by then: when an upload of the same file is under way it
  sends the incomplete content. Between `stat` and `utime` at the end of an upload
  nothing happens.

Of the other modules:

* Sessions: a packet arrives in one piece and is not told apart from a piece of
  a file; a client has at most one packet under way (a bound). User ids are
  shorter than four bytes, so that one of the integers that `memmove` copies
  holds a whole one. Files and arrays are left to Sync and Transfer. What runs
  under `client_mutex` is a single step, except for a request that is refused,
  which holds it through `close_connection`.
* Transfer: one file; a chunk and a `sync_message` are one unit each. A user does
  not save a file while it is being downloaded over (Sync has that), and saves
  nothing more after a file has changed its size while it was sent (a bound).
* CopyPool: a file is one chunk, which is read in one step and written in another;
  a write that is cut short leaves a part of the file, which is not told
  from the whole. Descriptors of directory streams
  and the counters that only the producer touches are left out. `BufferSize` is
  from 0, with which the producer waits for ever, to the 1024 entries of
  `taskQueue`; `hw5.c:73` checks neither end, and what it does below and beyond is
  left out.
* EchoServer: a message is sent and received in one piece. `select` also returns
  for data of a client, which changes nothing: the loop after it is empty.

## 3. The runs

Every run of Sync starts with empty folders and an empty server. `MaxTime` is the
last second, `MaxOps` the number of saves, deletions and crashes. Restarts
(`Login`, `Boot`) are not counted. Deadlock is checked only in `table_loops`; in
the other runs the system may really stop: servers and clients may exit,
programs end, and the events are finite. That nobody waits for ever is stated
instead: `NoMutualWait`, `CycleEnds`, `Termination`, `ExchangeEnds`, `Answered`.

| run | instance | shows |
|---|---|---|
| `solo_faults` | 1 client, 2 names, every event, 3 operations | `TypeOK`, `InStep`, `ContentKeepsName`: the inductive invariant; `ConversationKept` |
| `limits` | 3 clients for 2 slots, 1 file and 1 directory for 1 entry | `InStep`, `FramingOK`, `NoMutualWait`, `ConversationKept` at every limit and with directories; `CycleEnds` |
| `solo_user` | 1 client, 2 files and ".", writing with any mtime, restarts of the server, 4 operations | `TableIsTrue`, `SearchCoversTable`, `TornOnlyWhileWriting`, `OnlyDirectoriesStop` |
| `own_file` | 1 client, 1 file and ".", writing, crashes and restarts of both sides, 4 operations | `OwnFilesUntouched` |
| `table_loops` | 2 names, 4 entries, `fileLength` up to 5 | `SearchesAgree`, `CleaningAgrees`, `RefreshAgrees` |
| `sessions` | 3 connections of 2 users, 2 slots, 2 descriptors, 3, 2 and 1 packets | `OwnConnection`, `CountIsSessions`, `OneSlotPerUser`, `DescriptorsFreed` |
| `transfer` | 2 clients, files of 0 to 2 units, 1 unit of buffer; one user saves, the other client may be killed | `Aligned`, `DownloadIsWhole`, `ExchangeEnds` |
| `copy_pool` | 2 consumers, 3 files and a FIFO in 2 folders, a queue of 2, 6 descriptors, failing opens and writes, signals | `ContentRight`, `NeverOvercounts`, `QueueSpec`, `Termination` |
| `echo` | 3 clients, 2 entries, 3 descriptors | `CountIsThreads`, `OwnSocket`, `ArrayIsServed`, `Answered` |

`copy_pool`, `echo`, `sessions` and `transfer` also check a type
invariant. Runs that end in a violation are in section 5.

**Bounds.** Two names are needed for one file to be answered with the deletion
of another and for content to end under a wrong name; two clients for
concurrent uploads, for a file that is newer than the array says and for
deletions by others; three operations to save a file twice, which makes
`fileLength` drift, and save another; four to crash twice around an upload. Two
seconds are enough for older, equal and newer; the third leaves room for a
save after a truncation got its own time. In the runs with a restart four
operations let a file be uploaded again after the server has stopped in the walk
before. Four entries allow a hole, a
duplicate and an entry behind `fileLength` at once. What the bounds leave out
for the safety properties is covered by the proofs.

Three connections for two slots, entries or descriptors are what it takes for a
number to get a new owner while a third party still has the old one, for a user
to log in twice beside another user, and for a client to be refused. Three packets
are the handshake, a request and the bytes that follow, two the handshake and a
request, one a handshake alone; the connection with one is the second login of the
user with three. Files of
two units over a buffer of one make every side block in the middle of a file;
size 0 is included. Three files through a queue of two with two consumers fill
the queue, let both consumers sleep, and leave one file to be queued after each
has copied one; six descriptors are two for every file, and the action
`OpenFails` covers fewer. A failing `stat` and a failing `read` are left out of the
run: the first skips an entry, which the FIFO does as well, the second ends a copy
as the end of the file does.

**Which events.** The run with `Env` = everything checks what holds whatever
happens. The properties of `solo_user` and `own_file` hold for a user alone; with
deletions, with an operator or with a second user they do not (section 5). In
`own_file` there is one file, because with two files a phantom deletion (section 5)
removes the user's own. Both contain ".": every walk that comes to it ends with the
server stopped, and the next one begins with an empty array and the folder that the
last one has left. In `solo_user` nothing else stops the server, and
`OnlyDirectoriesStop` says so of every step.

**Fairness.** `RunningSpec` assumes weak fairness of each client and strong fairness
of each session: a thread that is not blocked is scheduled, TCP delivers what was
sent, and a session that waits for `client_mutex`, which others take again and
again, gets it at some time. Strong fairness matters for the mutex only: an action
of an end stays enabled otherwise until that end acts, because nobody else reads its
channel. `RestartingSpec`, which `never_same` uses, adds that an ended client is
started again by its user and an ended server by its operator. No fairness is
assumed of edits, crashes or the clock. The sleep of a client takes no time in the
model.

The fairness of CopyPool and EchoServer is weak fairness of every thread, and in
EchoServer of a client that waits for an answer; users type when they like. In Transfer
a session has strong fairness, as in Sync, for the sake of `client_mutex`: the scheduler
and the futex queue provide it, but no standard guarantees it. Nothing is assumed of
users, signals and kills.

## 4. Properties

* `InStep` (`InStepAt`, `Connected`, `ServerLeft`, `ClientLeft`) is the protocol
  that the code follows without ever stating it: for each pair of positions,
  what is on the wire. While the client walks, the content it has just sent may
  still be under way with the next packet behind it; a response to a walk
  announces a deletion, asks for content, agrees, or is followed by content; a
  crashed end leaves a prefix of that. `FramingOK` and `NoMutualWait` follow.
* `ConversationKept`: refinement. `InStep` says what may be on the wire,
  `ConversationKept` what may happen next: one answer at most to a request, none
  before the content that was asked for has come, the answer taken as it was
  meant, content received under the name it was sent for, and an end that goes
  away loses what is under way to it, and cuts at most the last content it sent.
* `ContentKeepsName`: `send_file` and `get_file` name a file independently on
  the two sides.
* `TableIsTrue`, `SearchCoversTable`: the array says what is on disk whenever
  the session takes a request, and the search for missing files covers it. They
  are false as soon as something is deleted or a second user or the operator
  writes; that fileLength exceeds the entries, the harmful direction, is
  `RemovesOnlyDeleted` (section 5).
* `TornOnlyWhileWriting`: an incomplete file belongs to a running upload.
* `OwnFilesUntouched`: for a user alone no step of the client changes the file,
  although the server may have crashed in the middle of an upload, with a
  truncated file that has a later mtime.
* `OnlyDirectoriesStop`: an action property. A step that stops the server is one in
  which it cannot open a directory, so that none of its other exits is reached by
  users who only write.
* `CycleEnds`: liveness. A client comes back to its sleep, or exits, although it
  repeats `retrieve_new_files` until nothing is new; the exception `Spins` is a
  `get_file` whose server has died within the file (`dbclient.c:696`).
* `SearchesAgree`, `CleaningAgrees`, `RefreshAgrees`: the closed forms in
  FileTable are what the loops compute. `CleaningAgrees` includes that the
  deletion loop skips every second of adjacent duplicates.
* `OwnConnection`: the list of interferences in `blame` is complete. Its converse
  is not claimed: an interference may pass without harm.
* `CountIsSessions` holds whatever has gone wrong, `OneSlotPerUser` unless
  `memmove` has hit a slot in use, `DescriptorsFreed` unless something has.
* `Aligned`: the framing of `FramingOK`, now unit by unit, for files that grow
  or shrink; the exception is exactly a file that changes its size between the
  `stat` that is announced and the last `fread`.
* `DownloadIsWhole`: what has arrived and what is under way are the beginning of
  the file that was announced, unless somebody uploads it meanwhile.
* `ExchangeEnds`: a session blocks in `Writen` with `client_mutex` held until its
  client reads, and its client always does: no cycle of waiting goes through the
  mutex.
* `QueueSpec`: refinement. The shifting loop, the counter and the two waits make
  a bounded queue that hands out every file at most once, in order, and takes none
  after `doneFlag`.
* `ContentRight`: although tasks carry descriptor numbers, which are used again,
  no copy gets another file's content, unless line 318 closed a number in use.
* `NeverOvercounts`: lost additions to `totalBytes` can only make it too small.
* `Termination`: the test of `taskCount` and `doneFlag` outside the mutex, one
  signal per task and the broadcast at the end lose no wakeup; the exception is
  the return that keeps the mutex (`Leaked`).
* `CountIsThreads`, `OwnSocket`, `ArrayIsServed`, `Answered`: as stated in
  EchoServer; the exception `moved` is the pointer into an array whose entries
  another thread moves.

## 5. What the code does not keep

| run | what happens |
|---|---|
| `phantom_deletion` | A user saves `f` twice, then `g`. The second upload of `f` has incremented `fileLength` (`dbserver.c:268`). When `g` is offered, `check_file` makes its entry, the search for missing files now reaches that entry, finds no `g` on disk, and the client is told to remove `g`. The only copy is lost |
| `never_same` | A user saves one file. The walk offers ".", as `readdir` always returns it, and before the file. The server has no entry for it, takes it for a newer file, asks for it, cannot open it for writing and exits (`dbserver.c:209`). The file is not sent. The server comes back with an empty array, so the next walk ends in the same way, and the folders never hold the same files (`FoldersAgree`), however fairly everything is scheduled and restarted |
| `session_dropped` | A thread has closed its connection and is about to leave; its number has been given to a new connection, whose user has logged in. The search at the end of `startConsThread` (`dbserver.c:303`) finds the slot of that session by the number, `memmove` copies the -1 of the next slot into it, and the session ends, with "Client disconnected", although its client is there and its descriptor open. The leaving thread then closes the number once more (`dbserver.c:312`), which cuts the client off. Only a slot with this very number can be hit: after a refused request the number is -1, and a slot with -1 is dead |

`phantom_deletion` is run without directories. With "." the same loss takes a
session that this entry does not stop, which is that of a user who shares the
directory and whose "." has the time that the server's has, and one upload more.
Otherwise the array, and `fileLength` with it, is lost in each walk.

More were found with the same modules. They are described here and not kept as
runs:

* *An older version overwrites a newer one* (`dbserver.c:566`, "Client has a more
  recent file."). The first user of a directory is not `sharing`. What a second
  user uploads between the first user's refresh and the next packet is
  overwritten by an older version: in Sync, `GetOpen` on a file whose mtime is
  larger than that of the upload.
* *The refresh is early* (`dbserver.c:158-164`, README of the program, line 58).
  This is the cause of it: the refresh runs at the end of a cycle, with nothing
  in `toServer`, and not with the first request of the next one.
* *A file is removed during a refresh or a request* (`dbserver.c:902`, `648`, `828`,
  `1088`). Between the `readdir` that has found it and the `stat`, or between the
  response and the `fopen`, nothing keeps a file in the folder: `RefreshFails`,
  `AdminDeleteFailsStat` and `GiveNothing` end the process, the last one after the
  file has been announced.
* *Two users diverge* (`dbserver.c:912`). Two users edit one file and stop. The
  overwritten version stays with one of them for good: its mtime is the larger
  one, and the other's array says that nothing is new. `FoldersAgree` with two
  clients is violated for this reason also without any directory, and with one
  client that saves twice in one second.
* *A vanished upload stops the server* (`dbserver.c:239`). A user deletes a file
  that the server has just asked for. The client exits, and the second
  `close_connection` takes down the server with all sessions.
  `OnlyDirectoriesStop` with "delete" in `Env` is violated.
* *Copies that are never made* (`hw5.c:147`). A consumer that finds the queue empty
  in its first test and `doneFlag` set in its second leaves, although the last
  tasks were queued in between. When every consumer does, `main` returns with
  tasks in the queue and files of length 0.

Known of the other programs, part of the model: the return that keeps
`mutexQueue` locked (`hw5.c:269`) stops the copy program; `close(srcFileFd)` after
a failed `mkfifo` (`hw5.c:318`) may close the descriptor of a file that a consumer
is copying; the echo server leaves the descriptor of a client that has gone in
`readfds`, so that `select` fails and the server exits (`server.c:113`) unless the
number has a new owner at the time; an empty line is sent as no bytes and both
ends wait (`client.c:51`); `get_file` of a client whose server has gone never
returns (`dbclient.c:696`); a file that changes its size while it is sent is read
as the next message or leaves the reader waiting (`dbserver.c:1095`,
`dbclient.c:586`).

Seen while modelling, part of the model, and not given a run: a deletion can leave an
empty entry in front of used ones (`dbserver.c:1151`); a version that the user saves
after the packet was sent is replaced by an older one (`dbclient.c:374`); all
directories share `server_files/` (`dbserver.c:405`), although the README gives
`server_files/client_dir/somefile` as a path; a full array makes `send_new_file` and
`add_shared` dereference NULL (`dbserver.c:691`, `836`).

## 6. What is proved

For any number of clients, files, entries, slots, events and seconds, and, in
SyncProofs, for every `Env`:

| theorem | states |
|---|---|
| SyncProofs: `Invariance` | `Spec => []IInv` |
| `TypeCorrect` | `Spec => []TypeOK` |
| `LockStep` | `Spec => []InStep` |
| `Framing` | `Spec => []FramingOK` |
| `WaitingFree` | `Spec => []NoMutualWait` |
| `NamesKeep` | `Spec => []ContentKeepsName` |
| `KeepsConversation` | `Spec => ConversationKept` |
| `CleanNameIsTable` and the other lemmas of FileTableProofs | every loop over the array leaves an array, and `fileLength` a number |
| LoopsProofs: `SearchesAreRight`, `CleaningIsRight`, `RefreshIsRight` | `Spec => []SearchesAgree`, `[]CleaningAgrees`, `[]RefreshAgrees` |
| SyncUserProofs, under `Calm`: `CalmInvariance`, `CalmOnlyDirectoriesStop` | `Spec => [](IInv /\ CalmInv)`, `OnlyDirectoriesStop` |
| SyncUserProofs, under `Solo`: `SoloInvariance`, `SoloTableIsTrue`, `SoloSearchCovers`, `SoloTornWhileWriting` | `Spec => [](IInv /\ SoloInv)`, `[]TableIsTrue`, `[]SearchCoversTable`, `[]TornOnlyWhileWriting` |
| SyncUserProofs, under `OneFile`: `OneFileInvariance`, `OneFileUntouched` | `Spec => [](IInv /\ OneFileInv)`, `OwnFilesUntouched` |
| TransferProofs: `TransferInvariance`, `TransferTypeCorrect`, `BytesStayAligned`, `DownloadsAreWhole` | `Spec => []IInv`, `[]TypeOK`, `[]Aligned`, `[]DownloadIsWhole` |
| SessionsProofs: `SessionsTypeCorrect`, `CountIsRight`, `UsersHaveOneSlot`, `ThreadsServeTheirOwn`, `EndedSessionsHoldNothing` | `Spec => []TypeOK`, `[]CountIsSessions`, `[]OneSlotPerUser`, `[]OwnConnection`, `[]DescriptorsFreed` |
| CopyPoolProofs: `CopyTypeCorrect`, `PoolImplementsQueue`, `CopiesAreRight`, `TotalNeverTooLarge` | `Spec => []TypeOK`, `QueueSpec`, `[]ContentRight`, `[]NeverOvercounts` |
| EchoProofs: `EchoTypeCorrect`, `CountIsRight`, `ThreadsServeTheirOwn`, `ArrayIsRight` | `Spec => []TypeOK`, `[]CountIsThreads`, `[]OwnSocket`, `[]ArrayIsServed` |

**Assumptions.** `FileTableAssumption`, `SyncAssumption`, `AbsentAssumption` and
`EnvAssumption`: the kinds of names are disjoint, the bounds are numbers, `Absent` is
not a file. `LoopsAssumption`: the two bounds are numbers. `TransferAssumption`: a
buffer has room for a unit, `Nobody` is not a connection. `SessionsAssumption`,
`EchoAssumption`: connections are finitely many and 0 is none of them, every connection
has a user, the bounds are numbers. `TreeAssumption`, `PoolAssumption`: the kinds of
entries are disjoint, every entry but the root has a folder, the queue has room for a
task, what a copy may be other than a file's content are different values. TLC evaluates
all of them in the runs.

**Hypotheses.** Five properties of Sync are false in general (section 5) and are
proved where they are meant to hold. `Calm`: room for every client in `clients` and
for every name, directories included, in the arrays, no deletions and no process
killed; any number of users and the operator write as they like, with any mtimes,
and the server is started again whenever it has stopped. `Solo`: `Calm`, one user
and no operator. `OneFile`: one user with one file, beside any directories, that is
not deleted; client and server crash and come back at any time, and saves may fall
into one second. `OneFile` does not allow "backdate": a user who sets back the mtime
of the file gets the newer version from the server, which is what the program is
for. No hypothesis excludes directories. `Solo` is the situation of `solo_user`,
`OneFile` that of `own_file`; `Calm` is wider than any run, in which its property is
checked for one user.

**The argument for Sync.** The inductive invariant is
`IInv == TypeOK /\ InStep /\ ContentKeepsName`. None of the three is inductive
alone. The type of `disk` needs `InStep`: the mtime that `GetStamp` sets is a
time only because a deletion packet is never an upload. `InStep` needs
`ContentKeepsName`: the body that a response announces carries the content of
that name only if the file does. `ContentKeepsName` needs `InStep`: the body
that `GetData` reads is the one of the file it has open. `SyncProofs` takes the
actions one by one; `Frame` says that a step of one
connection leaves the others as they are, `AnswerInStep`, `HeaderReplied` and
`FileReplied` treat the responses, `DeathInStep` and `ClientLeaves` the crashes.

**For the conversation.** What `InStep` says of a connection is what the mapping
needs: which headers and contents are under way, as sets (`Listing` and the lemmas
after it). An action of Sync is then one step of Conversation on its connection and
none on the others. `SendsFile` and `WantsFile` in `InStep` are why the client's
comparison of mtimes gives what the server meant. A server that dies is one step
that closes all connections at once, each in its own way (`DeathTalks`), one of them
perhaps with a header that has just been sent and no content behind it. That is why
`Next` of Conversation lets every connection take a step.

**For the loops.** A recursive function obeys its equation only if some function
does. The closed form is that function: `FirstHit` for the searches, a function of
the number of iterations for the loops that change the array. What the equation
determines is then shown without induction over data: the iterations at which the
claim fails are a set of numbers, and a set that is not empty has a least element
(`LeastNumber`, from the well-foundedness of `<`), at which the equation contradicts
the one before (`Counting`, `CountingDown`). For the deletion loop the claim has two
positions, the one in the array and the one in the array it began with, because
every entry that is cleaned moves the others by one, and it covers a `fileLength`
beyond the array.

**For a calm system.** `CalmInv` says, of every client: the array has no hole and
no duplicate (`Compact`), so that its entries can be counted and there is room for
one more name; what is in the array is in the folder, or is the file the client was
asked for (`Uploaded`), so that the search for missing files can find none but the
one that the request itself has entered; the client finds every file it knows
(`Found`), so it reports none as deleted, even after such a phantom deletion
(section 5), because a response orders the removal of no file that the client
knows twice (`Promises`); a file that is announced exists until it is sent; a
client leaves no session in an upload, so that the server never waits for content
that does not come. A directory may be what the session was asked for, and then the
next step of the session is the one that stops the server. That is not an invariant
of states but of steps, which is why `OnlyDirectoriesStop` is an action property; the
members of `CalmInv` hold again after the restart, because the arrays are empty.

**For a user alone.** `SoloInv` adds that the array is true up to the upload under
way (`TrueAt`), that `fileLength` reaches every entry up to the new one
(`CoveredAt`), and where content may be incomplete (`WholeAt`). `TrueAt` needs that
an upload stamps the folder with the mtime that the array has had since the
request; `CoveredAt` that an entry is made only by `check_file` at the end of a
compact array, and counted by the upload that follows at once.

**For one file.** `OneFileInv` follows one mtime along the loop: the server's file
and the entry are no newer than the user's file (`EntryAt`, `OwnedAt`); neither is
any request that is still under way, also from a client that has crashed
(`DueAt`), nor any response (`OffersAt`). An upload that is cut off
leaves a file with a later mtime than the user's, but no refresh sees it: it ends
the server, which comes back with an empty array and asks for the file again. With
two files this fails, because a file can be removed by a search that reaches its
new entry (section 5).

**For Transfer.** `InStep` says of each connection on which no file has changed its
size while it was sent what both ends are doing and what is in both buffers, in
units: a row of content, a row with the next packet behind it, a response with a
row behind it. `Requests` holds on every connection, also one out of step: a client
waits for one response at most, and there is at most one message for it.
`SteadyFile` is needed for whole downloads: the file that was announced is the file
that is there, and what is under way continues what has arrived.

**For Sessions.** `TInv` is the type, with a slot for every session that is
logged in and `client_count` as the number of these. `OneSlot` says that no name
is in two slots and that no slot behind an empty one has a name: `add_client`
takes the first slot that fits, which is the user's own only because of the
second part. `Separate` is what holds as long as `blame` is empty: a connection
has one descriptor, a session a slot of its own, and for every position of a
thread where its descriptor is (`Placed`).

**For CopyPool.** `TInv` is the type with the fields that a position needs. For
the queue one adds that a file is at one place only: unread, in the producer's
hand, in the queue, or taken. For the copies, that the descriptors of the tasks
in the queue and in the consumers' hands are distinct and open for the file of
their task, as long as `stray` is false. For the total, that every addition has
its own file that was written, and that a register is never ahead.

**For EchoServer.** `TInv` adds the connection that `start_server` has in its
hand, and the room that it has found: only `start_server` adds entries, so the
unlocked test stays true until it has. `Separate` says that a connection has one
descriptor, and none before it is accepted. `Array`, which holds as long as
nothing has moved, says that the entries below `client_count` are distinct and
are the descriptors of what is served; removing one then leaves exactly the
others, and the last entry is still the one that is about to start.

**Only model-checked.** Liveness (`CycleEnds`, `Termination`,
`ExchangeEnds`, `Answered`) is beyond the prover. Every other property of the passing
runs has a theorem.

## 7. Not modelled, and what is left

Not modelled: code that is never called (`get_file` of `dbserver.c`,
`updateStoredFileNames`, `fileExists`, `send_directory`, `display_clients`), option
parsing, the folders with synchronized data. A client has one directory: that
`add_client` clears the array of a user who comes back with another one, but not
`fileLength` (`filedata.c:49`), is not in the model. Overflows that are undefined
behaviour from the first byte on are left out: writes of `cleanFileInArray` behind
the array and names beyond the capacity of `currentFileNames`. So are the
directory streams that both programs leave open when they find a deleted file
(`dbclient.c:225`, `dbserver.c:494`).
