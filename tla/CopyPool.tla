------------------------------- MODULE CopyPool -------------------------------
(***************************************************************************)
(* hw5.c: a producer walks a tree of folders and opens every regular file  *)
(* and its copy, consumers take the pairs of descriptors from a bounded    *)
(* queue and copy.  prod and cons[c] are the positions of the threads:     *)
(*   producer  "enter" "walk" in a folder; "lock" "src" "dst" "put" "wait" *)
(*             "signal" for one file; "finish" "broadcast" "ended" at the  *)
(*             end of startProdThread                                      *)
(*   consumer  "count" "flag" the test without the mutex; "lock" "wait";   *)
(*             "copy" "write" "load" "store" "close" "signal" for one      *)
(*             task; "exited"                                              *)
(* A woken thread goes back to the position that takes the mutex.          *)
(*                                                                         *)
(* What a consumer does under mutexQueue touches nothing but the queue and *)
(* is one step; the producer keeps the mutex over several calls, and       *)
(* "locked" says that it does.  A file is one chunk, read in one step and  *)
(* written in another.  Counters that only the producer touches, and the   *)
(* descriptors of directory streams, are left out.  main does not check    *)
(* BufferSize: with 0 the producer waits for ever at its first file; a     *)
(* negative one, or one above the 1024 entries of taskQueue, writes        *)
(* outside the array and is left out.  Both waits test again when they     *)
(* wake, so a spurious wakeup changes nothing.                             *)
(***************************************************************************)
EXTENDS Integers, Sequences, FiniteSets

CONSTANTS
  Regular, Fifo, Dir,  \* the entries of the tree
  Root,                \* the source folder
  Parent,              \* the folder of every other entry
  Consumer,            \* consumer threads
  BufferSize,          \* "BufferSize" of the command line
  MaxFd,               \* descriptors the process may have for files
  Absent, Empty, Mixed,  \* what a copy may be, other than the file's content
  Fault                \* what may fail: "dir", "stat", "open", "fifo",
                       \* "read", "write", "interrupt"

Entry == Regular \cup Fifo \cup Dir

ASSUME TreeAssumption ==
  /\ IsFiniteSet(Regular)
  /\ Regular \cap Fifo = {}
  /\ Regular \cap Dir = {}
  /\ Fifo \cap Dir = {}
  /\ Root \in Dir
  /\ Parent \in [Entry \ {Root} -> Dir]

ASSUME PoolAssumption ==
  /\ BufferSize \in Nat
  /\ MaxFd \in Nat
  /\ {Absent, Empty, Mixed} \cap Regular = {}
  /\ Absent # Empty /\ Absent # Mixed /\ Empty # Mixed

VARIABLES
  main,        \* "running", "finished", or "interrupted" by a signal
  locked,      \* the producer holds mutexQueue
  taskQueue,   \* taskQueue[0..taskCount-1]
  doneFlag,
  prod,
  at,          \* the folder copyFilesInDirectory is in
  unread,      \* entries readdir has still to return
  entry,       \* the file the producer works on
  pending,     \* its destFileFd, 0 before that is open
  srcFileFd,   \* the variable of every call's frame, 0 as long as it is unset
  cons,
  task,        \* what a consumer copies, <<>> between two tasks
  buffer,      \* what copyFile has read and not written, Empty otherwise
  reg,         \* totalBytes as a consumer has read it, 0 when it has written
  fds,         \* the descriptor table
  dest,        \* the copies
  totalBytes,
  stray,       \* history: line 318 has closed a descriptor that was open
  taken        \* history: the files whose tasks consumers have got

prodVars == <<prod, at, unread, entry, pending, srcFileFd>>
consVars == <<cons, task, buffer, reg, taken>>
fileVars == <<fds, dest, totalBytes, stray>>
vars == <<main, locked, taskQueue, doneFlag, prodVars, consVars, fileVars>>

taskCount == Len(taskQueue)

Fd == 1..MaxFd
Closed == [of |-> Root, use |-> "closed", read |-> FALSE]
Opened == [of : Regular, use : {"src", "dst"}, read : BOOLEAN]
Task == [of : Regular, src : Fd, dst : Fd]

\* open returns the lowest free descriptor.
Lowest(n) == fds[n] = Closed /\ \A k \in 1..(n - 1) : fds[k] # Closed

Init ==
  /\ main = "running"
  /\ locked = FALSE
  /\ taskQueue = <<>>
  /\ doneFlag = FALSE
  /\ prod = "enter"
  /\ at = Root
  /\ unread = Entry \ {Root}
  /\ entry = Root
  /\ pending = 0
  /\ srcFileFd = [d \in Dir |-> 0]
  /\ cons = [c \in Consumer |-> "count"]
  /\ task = [c \in Consumer |-> <<>>]
  /\ buffer = [c \in Consumer |-> Empty]
  /\ reg = [c \in Consumer |-> 0]
  /\ fds = [n \in Fd |-> Closed]
  /\ dest = [f \in Regular |-> Absent]
  /\ totalBytes = 0
  /\ stray = FALSE
  /\ taken = {}

-----------------------------------------------------------------------------
(* The producer: copyFilesInDirectory. *)

Prod(from, to) ==
  /\ main = "running"
  /\ prod = from
  /\ prod' = to
  /\ UNCHANGED main

\* Back to the call for the folder above, or to startProdThread.
Return(from) ==
  \/ at = Root /\ Prod(from, "finish") /\ UNCHANGED at
  \/ at # Root /\ Prod(from, "walk") /\ at' = Parent[at]

OpenDir ==
  /\ Prod("enter", "walk")
  /\ UNCHANGED <<locked, taskQueue, doneFlag, at, unread, entry, pending,
                 srcFileFd, consVars, fileVars>>

\* opendir or mkdir fails: the folder is left out.
OpenDirFails ==
  /\ "dir" \in Fault
  /\ Return("enter")
  /\ UNCHANGED <<locked, taskQueue, doneFlag, unread, entry, pending,
                 srcFileFd, consVars, fileVars>>

\* readdir returns e.
Read(e, to) ==
  /\ Prod("walk", to)
  /\ e \in unread
  /\ Parent[e] = at
  /\ unread' = unread \ {e}
  /\ UNCHANGED <<locked, taskQueue, doneFlag, pending, consVars>>

ReadDir(d) ==
  /\ Read(d, "enter")
  /\ at' = d
  /\ UNCHANGED <<entry, srcFileFd, fileVars>>

ReadRegular(f) ==
  /\ Read(f, "lock")
  /\ entry' = f
  /\ UNCHANGED <<at, srcFileFd, fileVars>>

\* A FIFO is made again or cannot be removed, or stat of the entry fails.
ReadOther(e) ==
  /\ Read(e, "walk")
  /\ e \in Fifo \/ "stat" \in Fault
  /\ UNCHANGED <<at, entry, srcFileFd, fileVars>>

\* mkfifo fails.  The call then closes srcFileFd: the descriptor of the last
\* regular file of the folder, or whatever the variable holds if there was
\* none.
FifoFails(e) ==
  /\ "fifo" \in Fault
  /\ Read(e, "walk")
  /\ \E n \in 0..MaxFd :
       /\ srcFileFd[at] \in {0, n}
       /\ fds' = [k \in Fd |-> IF k = n THEN Closed ELSE fds[k]]
  /\ stray' = (stray \/ fds' # fds)
  /\ UNCHANGED <<at, entry, srcFileFd, dest, totalBytes>>

EndOfDir ==
  /\ \A e \in unread : Parent[e] # at
  /\ Return("walk")
  /\ UNCHANGED <<locked, taskQueue, doneFlag, unread, entry, pending,
                 srcFileFd, consVars, fileVars>>

LockForFile ==
  /\ ~ locked
  /\ Prod("lock", "src")
  /\ locked' = TRUE
  /\ UNCHANGED <<taskQueue, doneFlag, at, unread, entry, pending, srcFileFd,
                 consVars, fileVars>>

OpenSrc(n) ==
  /\ Prod("src", "dst")
  /\ Lowest(n)
  /\ srcFileFd' = [srcFileFd EXCEPT ![at] = n]
  /\ fds' = [fds EXCEPT ![n] = [of |-> entry, use |-> "src", read |-> FALSE]]
  /\ UNCHANGED <<locked, taskQueue, doneFlag, at, unread, entry, pending,
                 consVars, dest, totalBytes, stray>>

OpenDst(n) ==
  /\ Prod("dst", "put")
  /\ Lowest(n)
  /\ pending' = n
  /\ fds' = [fds EXCEPT ![n] = [of |-> entry, use |-> "dst", read |-> FALSE]]
  /\ dest' = [dest EXCEPT ![entry] = Empty]
  /\ UNCHANGED <<locked, taskQueue, doneFlag, at, unread, entry, srcFileFd,
                 consVars, totalBytes, stray>>

\* Mutant: an open that fails is not noticed.
OpenFailsUnseen ==
  /\ "open" \in Fault
  /\ Prod("src", "dst")
  /\ srcFileFd' = [srcFileFd EXCEPT ![at] = -1]
  /\ UNCHANGED <<locked, taskQueue, doneFlag, at, unread, entry, pending,
                 consVars, fileVars>>

\* The early returns leave the mutex locked.
OpenFails ==
  /\ "open" \in Fault \/ \A n \in Fd : fds[n] # Closed
  /\ \/ Return("src") /\ UNCHANGED fds
     \/ Return("dst") /\ fds' = [fds EXCEPT ![srcFileFd[at]] = Closed]
  /\ UNCHANGED <<locked, taskQueue, doneFlag, unread, entry, pending,
                 srcFileFd, consVars, dest, totalBytes, stray>>

PutWaits ==
  /\ Prod("put", "wait")
  /\ taskCount = BufferSize
  /\ locked' = FALSE
  /\ UNCHANGED <<taskQueue, doneFlag, at, unread, entry, pending, srcFileFd,
                 consVars, fileVars>>

\* "relock" is the end of pthread_cond_wait.
Relock ==
  /\ ~ locked
  /\ Prod("relock", "put")
  /\ locked' = TRUE
  /\ UNCHANGED <<taskQueue, doneFlag, at, unread, entry, pending, srcFileFd,
                 consVars, fileVars>>

\* Mutant: the producer closes the file it has queued.
PutAndClose ==
  /\ Prod("put", "signal")
  /\ taskCount # BufferSize
  /\ taskQueue' = Append(taskQueue,
                         [of |-> entry, src |-> srcFileFd[at], dst |-> pending])
  /\ pending' = 0
  /\ locked' = FALSE
  /\ fds' = [fds EXCEPT ![srcFileFd[at]] = Closed]
  /\ UNCHANGED <<doneFlag, at, unread, entry, srcFileFd, consVars, dest,
                 totalBytes, stray>>

Put ==
  /\ Prod("put", "signal")
  /\ taskCount # BufferSize
  /\ taskQueue' = Append(taskQueue,
                         [of |-> entry, src |-> srcFileFd[at], dst |-> pending])
  /\ pending' = 0
  /\ locked' = FALSE
  /\ UNCHANGED <<doneFlag, at, unread, entry, srcFileFd, consVars, fileVars>>

Waiting == {c \in Consumer : cons[c] = "wait"}

SignalConsumer ==
  /\ Prod("signal", "walk")
  /\ \/ Waiting = {} /\ UNCHANGED cons
     \/ \E c \in Waiting : cons' = [cons EXCEPT ![c] = "lock"]
  /\ UNCHANGED <<locked, taskQueue, doneFlag, at, unread, entry, pending,
                 srcFileFd, task, buffer, reg, taken, fileVars>>

\* startProdThread, after the walk.
SetDone ==
  /\ ~ locked
  /\ Prod("finish", "broadcast")
  /\ doneFlag' = TRUE
  /\ UNCHANGED <<locked, taskQueue, at, unread, entry, pending, srcFileFd,
                 consVars, fileVars>>

\* Mutant: only one consumer is woken.
BroadcastToOne ==
  /\ Prod("broadcast", "ended")
  /\ \/ Waiting = {} /\ UNCHANGED cons
     \/ \E c \in Waiting : cons' = [cons EXCEPT ![c] = "lock"]
  /\ UNCHANGED <<locked, taskQueue, doneFlag, at, unread, entry, pending,
                 srcFileFd, task, buffer, reg, taken, fileVars>>

Broadcast ==
  /\ Prod("broadcast", "ended")
  /\ cons' = [c \in Consumer |-> IF c \in Waiting THEN "lock" ELSE cons[c]]
  /\ UNCHANGED <<locked, taskQueue, doneFlag, at, unread, entry, pending,
                 srcFileFd, task, buffer, reg, taken, fileVars>>

-----------------------------------------------------------------------------
(* A consumer: startConsThread and copyFile. *)

Cons(c, from, to) ==
  /\ main = "running"
  /\ cons[c] = from
  /\ cons' = [cons EXCEPT ![c] = to]
  /\ UNCHANGED <<main, locked, doneFlag, at, unread, entry, pending, srcFileFd,
                 stray>>

\* The two reads of "taskCount <= 0 && doneFlag == 1", without the mutex.
TestCount(c) ==
  /\ Cons(c, "count", IF taskCount <= 0 THEN "flag" ELSE "lock")
  /\ UNCHANGED <<taken, taskQueue, prod, task, buffer, reg, fds, dest,
                 totalBytes>>

TestFlag(c) ==
  /\ Cons(c, "flag", IF doneFlag THEN "exited" ELSE "lock")
  /\ UNCHANGED <<taken, taskQueue, prod, task, buffer, reg, fds, dest,
                 totalBytes>>

TakeWaits(c) ==
  /\ ~ locked
  /\ taskCount = 0
  /\ Cons(c, "lock", IF doneFlag THEN "count" ELSE "wait")
  /\ UNCHANGED <<taken, taskQueue, prod, task, buffer, reg, fds, dest,
                 totalBytes>>

\* Mutant: taskCount is not decremented.
TakeUncounted(c) ==
  /\ ~ locked
  /\ taskCount > 0
  /\ Cons(c, "lock", "copy")
  /\ task' = [task EXCEPT ![c] = Head(taskQueue)]
  /\ taken' = taken \cup {Head(taskQueue).of}
  /\ UNCHANGED <<taskQueue, prod, buffer, reg, fds, dest, totalBytes>>

Take(c) ==
  /\ ~ locked
  /\ taskCount > 0
  /\ Cons(c, "lock", "copy")
  /\ task' = [task EXCEPT ![c] = Head(taskQueue)]
  /\ taken' = taken \cup {Head(taskQueue).of}
  /\ taskQueue' = Tail(taskQueue)
  /\ UNCHANGED <<prod, buffer, reg, fds, dest, totalBytes>>

\* read returns the chunk of the file the descriptor is open for now.
CanRead(n) == fds[n].use = "src" /\ ~ fds[n].read

ReadChunk(c) ==
  /\ Cons(c, "copy", "write")
  /\ CanRead(task[c].src)
  /\ fds' = [fds EXCEPT ![task[c].src].read = TRUE]
  /\ buffer' = [buffer EXCEPT ![c] = fds[task[c].src].of]
  /\ UNCHANGED <<taken, taskQueue, prod, task, reg, dest, totalBytes>>

\* The end of the file or a failing read.
CopyEnds(c) ==
  /\ Cons(c, "copy", "close")
  /\ ~ CanRead(task[c].src) \/ "read" \in Fault
  /\ UNCHANGED <<taken, taskQueue, prod, task, buffer, reg, fds, dest,
                 totalBytes>>

\* A write that is cut short ends the copy, which then holds a part only.
WriteChunk(c) ==
  LET f == fds[task[c].dst].of
  IN
  /\ \/ Cons(c, "write", "load")
     \/ "write" \in Fault /\ Cons(c, "write", "close")
  /\ fds[task[c].dst].use = "dst"
  /\ dest' = [dest EXCEPT ![f] = IF @ = Empty THEN buffer[c] ELSE Mixed]
  /\ buffer' = [buffer EXCEPT ![c] = Empty]
  /\ UNCHANGED <<taken, taskQueue, prod, task, reg, fds, totalBytes>>

\* Mutant: bytes that could not be written are counted.
WriteFailsCounted(c) ==
  /\ Cons(c, "write", "load")
  /\ fds[task[c].dst].use # "dst" \/ "write" \in Fault
  /\ buffer' = [buffer EXCEPT ![c] = Empty]
  /\ UNCHANGED <<taken, taskQueue, prod, task, reg, fds, dest, totalBytes>>

WriteFails(c) ==
  /\ Cons(c, "write", "close")
  /\ fds[task[c].dst].use # "dst" \/ "write" \in Fault
  /\ buffer' = [buffer EXCEPT ![c] = Empty]
  /\ UNCHANGED <<taken, taskQueue, prod, task, reg, fds, dest, totalBytes>>

\* totalBytes += bytesRead, which no mutex protects.
LoadTotal(c) ==
  /\ Cons(c, "load", "store")
  /\ reg' = [reg EXCEPT ![c] = totalBytes]
  /\ UNCHANGED <<taken, taskQueue, prod, task, buffer, fds, dest, totalBytes>>

StoreTotal(c) ==
  /\ Cons(c, "store", "copy")
  /\ totalBytes' = reg[c] + 1
  /\ reg' = [reg EXCEPT ![c] = 0]
  /\ UNCHANGED <<taken, taskQueue, prod, task, buffer, fds, dest>>

CloseBoth(c) ==
  /\ Cons(c, "close", "signal")
  /\ fds' = [fds EXCEPT ![task[c].src] = Closed, ![task[c].dst] = Closed]
  /\ task' = [task EXCEPT ![c] = <<>>]
  /\ UNCHANGED <<taken, taskQueue, prod, buffer, reg, dest, totalBytes>>

SignalProducer(c) ==
  /\ Cons(c, "signal", "count")
  /\ prod' = IF prod = "wait" THEN "relock" ELSE prod
  /\ UNCHANGED <<taken, taskQueue, task, buffer, reg, fds, dest, totalBytes>>

-----------------------------------------------------------------------------
(* main joins all threads; handle_signal ends the process. *)

Stop(how) ==
  /\ main = "running"
  /\ main' = how
  /\ UNCHANGED <<locked, taskQueue, doneFlag, prodVars, consVars, fileVars>>

MainReturns ==
  /\ prod = "ended"
  /\ \A c \in Consumer : cons[c] = "exited"
  /\ Stop("finished")

HandleSignal == "interrupt" \in Fault /\ Stop("interrupted")

Producer ==
  \/ OpenDir \/ OpenDirFails \/ EndOfDir
  \/ \E d \in Dir : ReadDir(d)
  \/ \E f \in Regular : ReadRegular(f)
  \/ \E e \in Entry : ReadOther(e)
  \/ \E e \in Fifo : FifoFails(e)
  \/ LockForFile \/ \E n \in Fd : OpenSrc(n) \/ OpenDst(n)
  \/ OpenFails \/ PutWaits \/ Relock \/ Put \/ SignalConsumer
  \/ SetDone \/ Broadcast

Worker(c) ==
  \/ TestCount(c) \/ TestFlag(c) \/ TakeWaits(c) \/ Take(c)
  \/ ReadChunk(c) \/ CopyEnds(c) \/ WriteChunk(c) \/ WriteFails(c)
  \/ LoadTotal(c) \/ StoreTotal(c) \/ CloseBoth(c) \/ SignalProducer(c)

Next ==
  \/ Producer
  \/ \E c \in Consumer : Worker(c)
  \/ MainReturns \/ HandleSignal

Fairness ==
  /\ WF_vars(Producer)
  /\ \A c \in Consumer : WF_vars(Worker(c))
  /\ WF_vars(MainReturns)

Spec == Init /\ [][Next]_vars
FairSpec == Spec /\ Fairness

-----------------------------------------------------------------------------
(* Properties. *)

\* The type of the state.
TypeOK ==
  /\ main \in {"running", "finished", "interrupted"}
  /\ locked \in BOOLEAN
  /\ taskQueue \in Seq(Task)
  /\ doneFlag \in BOOLEAN
  /\ prod \in {"enter", "walk", "lock", "src", "dst", "put", "wait", "relock",
               "signal", "finish", "broadcast", "ended"}
  /\ at \in Dir
  /\ unread \subseteq Entry \ {Root}
  /\ entry \in Entry
  /\ pending \in Fd \cup {0}
  /\ srcFileFd \in [Dir -> Fd \cup {0}]
  /\ cons \in [Consumer -> {"count", "flag", "lock", "wait", "copy", "write",
                            "load", "store", "close", "signal", "exited"}]
  /\ task \in [Consumer -> Task \cup {<<>>}]
  /\ buffer \in [Consumer -> Regular \cup {Empty}]
  /\ reg \in [Consumer -> Nat]
  /\ fds \in [Fd -> Opened \cup {Closed}]
  /\ dest \in [Regular -> Regular \cup {Absent, Empty, Mixed}]
  /\ totalBytes \in Nat
  /\ stray \in BOOLEAN
  /\ taken \subseteq Regular

\* As long as no descriptor was closed by mistake, a copy holds nothing, or
\* what the file of its name holds from its start on, whatever descriptors were
\* reused meanwhile.
ContentRight ==
  ~ stray => \A f \in Regular : dest[f] \in {Absent, Empty, f}

Written == {f \in Regular : dest[f] \notin {Absent, Empty}}

\* Consumers add to totalBytes without the mutex and may lose what another one
\* adds, but the total printed at the end never exceeds what was written.
NeverOvercounts == ~ stray => totalBytes <= Cardinality(Written)

\* The files of the queue, in its order.
Queued == [i \in 1..taskCount |-> taskQueue[i].of]

\* taskQueue, with its shifting loop, its counter and the two waits, is a
\* bounded queue that hands out every file at most once and in order.
TQ == INSTANCE TaskQueue
        WITH Item <- Regular, Bound <- BufferSize,
             waiting <- Queued, taken <- taken, closed <- doneFlag
QueueSpec == TQ!Spec

\* The early returns of copyFilesInDirectory leave mutexQueue locked; every
\* thread then waits for it.
Leaked == locked /\ prod \notin {"src", "dst", "put"}

\* With a queue that can hold a task, and unless it locked itself out, the
\* program ends: no wakeup is lost.
Termination == BufferSize > 0 => <>(main # "running" \/ Leaked)
=============================================================================
