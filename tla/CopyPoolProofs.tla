---------------------------- MODULE CopyPoolProofs ----------------------------
(***************************************************************************)
(* Proofs about the copy program of CopyPool: for every tree, number of    *)
(* consumers, size of the queue and number of descriptors.                 *)
(***************************************************************************)
EXTENDS CopyPool, TLAPS, FiniteSetTheorems, SequenceTheorems

\* Positions in which the producer has a file, has it open, has its copy open.
InHand == {"lock", "src", "dst", "put", "wait", "relock"}
SrcOpen == {"dst", "put", "wait", "relock"}
DstOpen == {"put", "wait", "relock"}

\* Positions in which a consumer has a task.
Busy == {"copy", "write", "load", "store", "close"}

Shape ==
  /\ prod \in InHand => entry \in Regular
  /\ prod \in SrcOpen => srcFileFd[at] \in Fd
  /\ prod \in DstOpen => pending \in Fd
  /\ \A c \in Consumer : cons[c] \in Busy => task[c] \in Task
  /\ doneFlag => prod \in {"broadcast", "ended"}

TInv == TypeOK /\ Shape

-----------------------------------------------------------------------------
(* The types. *)

LEMMA TInvInit ==
  Init => TInv
<1> SUFFICES ASSUME Init
             PROVE  TInv
  OBVIOUS
<1>1. fds \in [Fd -> Opened \cup {Closed}]
  BY DEF Init
<1>2. taskQueue \in Seq(Task)
  BY DEF Init
<1>3. dest \in [Regular -> Regular \cup {Absent, Empty, Mixed}]
  BY DEF Init
<1>4. entry \in Entry /\ at \in Dir
  BY TreeAssumption DEF Init, Entry
<1> QED
  BY <1>1, <1>2, <1>3, <1>4 DEF Init, TInv, TypeOK, Shape, InHand, SrcOpen,
     DstOpen, Busy

LEMMA TInvStutter ==
  TInv /\ UNCHANGED vars => TInv'
BY DEF TInv, TypeOK, Shape, vars, prodVars, consVars, fileVars

\* The steps of the producer that leave the descriptors alone.
LEMMA TInvWalk ==
  ASSUME TInv,
         \/ OpenDir \/ OpenDirFails \/ EndOfDir
         \/ \E d \in Dir : ReadDir(d)
         \/ \E f \in Regular : ReadRegular(f)
         \/ \E e \in Entry : ReadOther(e)
  PROVE  TInv'
<1> USE DEF TInv, TypeOK, Shape, InHand, SrcOpen, DstOpen, Prod, consVars,
        fileVars
<1>1. CASE OpenDir
  BY <1>1 DEF OpenDir
<1>2. CASE OpenDirFails
  BY <1>2, TreeAssumption DEF OpenDirFails, Return, Entry
<1>3. CASE EndOfDir
  BY <1>3, TreeAssumption DEF EndOfDir, Return, Entry
<1>4. ASSUME NEW d \in Dir, ReadDir(d)
      PROVE  TInv'
  BY <1>4 DEF ReadDir, Read
<1>5. ASSUME NEW f \in Regular, ReadRegular(f)
      PROVE  TInv'
  BY <1>5 DEF ReadRegular, Read, Entry
<1>6. ASSUME NEW e \in Entry, ReadOther(e)
      PROVE  TInv'
  BY <1>6 DEF ReadOther, Read
<1> QED
  BY <1>1, <1>2, <1>3, <1>4, <1>5, <1>6

LEMMA TInvFifo ==
  ASSUME TInv, NEW e \in Fifo, FifoFails(e)
  PROVE  TInv'
BY DEF FifoFails, Read, TInv, TypeOK, Shape, InHand, SrcOpen, DstOpen, Prod,
   consVars, Closed, Opened

LEMMA TInvOpen ==
  ASSUME TInv, \/ LockForFile \/ OpenFails
               \/ \E n \in Fd : OpenSrc(n) \/ OpenDst(n)
  PROVE  TInv'
<1> USE DEF TInv, TypeOK, Shape, InHand, SrcOpen, DstOpen, Prod, consVars,
        fileVars
<1>1. CASE LockForFile
  BY <1>1 DEF LockForFile
<1>2. CASE OpenFails
  <2>1. CASE Return("src") /\ UNCHANGED fds
    BY <1>2, <2>1, TreeAssumption DEF OpenFails, Return, Entry
  <2>2. CASE Return("dst") /\ fds' = [fds EXCEPT ![srcFileFd[at]] = Closed]
    BY <1>2, <2>2, TreeAssumption DEF OpenFails, Return, Entry
  <2> QED
    BY <1>2, <2>1, <2>2 DEF OpenFails
<1>3. ASSUME NEW n \in Fd, OpenSrc(n)
      PROVE  TInv'
  <2>1. [of |-> entry, use |-> "src", read |-> FALSE] \in Opened
    BY <1>3 DEF OpenSrc, Opened
  <2> QED
    BY <1>3, <2>1 DEF OpenSrc
<1>4. ASSUME NEW n \in Fd, OpenDst(n)
      PROVE  TInv'
  <2>1. [of |-> entry, use |-> "dst", read |-> FALSE] \in Opened
    BY <1>4 DEF OpenDst, Opened
  <2> QED
    BY <1>4, <2>1 DEF OpenDst
<1> QED
  BY <1>1, <1>2, <1>3, <1>4

LEMMA TInvQueue ==
  ASSUME TInv, PutWaits \/ Relock \/ Put \/ SignalConsumer \/ SetDone \/ Broadcast
  PROVE  TInv'
<1> USE DEF TInv, TypeOK, Shape, InHand, SrcOpen, DstOpen, Prod, consVars,
        fileVars
<1>1. CASE PutWaits
  BY <1>1 DEF PutWaits
<1>2. CASE Relock
  BY <1>2 DEF Relock
<1>3. CASE Put
  <2>1. [of |-> entry, src |-> srcFileFd[at], dst |-> pending] \in Task
    BY <1>3 DEF Put, Task
  <2>2. taskQueue' \in Seq(Task)
    BY <1>3, <2>1 DEF Put
  <2> QED
    BY <1>3, <2>2 DEF Put
<1>4. CASE SignalConsumer
  BY <1>4 DEF SignalConsumer, Waiting, Busy
<1>5. CASE SetDone
  BY <1>5 DEF SetDone
<1>6. CASE Broadcast
  BY <1>6 DEF Broadcast, Waiting, Busy
<1> QED
  BY <1>1, <1>2, <1>3, <1>4, <1>5, <1>6

LEMMA TInvWorker ==
  ASSUME TInv, NEW c \in Consumer, Worker(c)
  PROVE  TInv'
<1> USE DEF TInv, TypeOK, Shape, InHand, SrcOpen, DstOpen, Busy, Cons
<1>1. CASE TestCount(c)
  BY <1>1 DEF TestCount
<1>2. CASE TestFlag(c)
  BY <1>2 DEF TestFlag
<1>3. CASE TakeWaits(c)
  BY <1>3 DEF TakeWaits
<1>4. CASE Take(c)
  <2>1. Head(taskQueue) \in Task /\ Tail(taskQueue) \in Seq(Task)
    BY <1>4 DEF Take, taskCount
  <2>2. Head(taskQueue).of \in Regular
    BY <2>1 DEF Task
  <2> QED
    BY <1>4, <2>1, <2>2 DEF Take
<1>5. CASE ReadChunk(c)
  <2> DEFINE s == fds[task[c].src]
  <2>1. task[c] \in Task
    BY <1>5 DEF ReadChunk
  <2>2. s \in Opened
    BY <1>5, <2>1 DEF ReadChunk, CanRead, Closed, Task
  <2>3. [s EXCEPT !.read = TRUE] \in Opened /\ s.of \in Regular
    BY <2>2 DEF Opened
  <2>4. fds' = [fds EXCEPT ![task[c].src] = [s EXCEPT !.read = TRUE]]
    BY <1>5 DEF ReadChunk
  <2>5. buffer' = [buffer EXCEPT ![c] = s.of]
    BY <1>5 DEF ReadChunk
  <2> HIDE DEF s
  <2>6. fds' \in [Fd -> Opened \cup {Closed}]
    BY <2>1, <2>3, <2>4 DEF Task
  <2>7. buffer' \in [Consumer -> Regular \cup {Empty}]
    BY <2>3, <2>5
  <2> QED
    BY <1>5, <2>6, <2>7 DEF ReadChunk
<1>11. CASE WriteChunk(c)
  <2> DEFINE d == fds[task[c].dst]
  <2>1. task[c] \in Task
    BY <1>11 DEF WriteChunk
  <2>2. d \in Opened
    BY <1>11, <2>1 DEF WriteChunk, Closed, Task
  <2>3. d.of \in Regular
    BY <2>2 DEF Opened
  <2>4. dest' = [dest EXCEPT ![d.of] = IF dest[d.of] = Empty THEN buffer[c] ELSE Mixed]
    BY <1>11 DEF WriteChunk
  <2> HIDE DEF d
  <2>5. dest' \in [Regular -> Regular \cup {Absent, Empty, Mixed}]
    BY <2>3, <2>4
  <2>6. buffer' \in [Consumer -> Regular \cup {Empty}]
    BY <1>11 DEF WriteChunk
  <2>7. /\ cons[c] = "write"
        /\ \E to \in {"load", "close"} : cons' = [cons EXCEPT ![c] = to]
        /\ UNCHANGED <<taken, taskQueue, prod, task, reg, fds, totalBytes, main,
                       locked, doneFlag, at, unread, entry, pending, srcFileFd,
                       stray>>
    BY <1>11 DEF WriteChunk
  <2> QED
    BY <2>5, <2>6, <2>7
<1>12. CASE WriteFails(c)
  BY <1>12 DEF WriteFails
<1>6. CASE CopyEnds(c)
  BY <1>6 DEF CopyEnds
<1>7. CASE LoadTotal(c)
  BY <1>7 DEF LoadTotal
<1>8. CASE StoreTotal(c)
  BY <1>8 DEF StoreTotal
<1>9. CASE CloseBoth(c)
  BY <1>9 DEF CloseBoth
<1>10. CASE SignalProducer(c)
  BY <1>10 DEF SignalProducer
<1> QED
  BY <1>1, <1>2, <1>3, <1>4, <1>5, <1>6, <1>7, <1>8, <1>9, <1>10, <1>11, <1>12
     DEF Worker

LEMMA TInvStop ==
  ASSUME TInv, MainReturns \/ HandleSignal
  PROVE  TInv'
BY DEF MainReturns, HandleSignal, Stop, TInv, TypeOK, Shape, prodVars,
   consVars, fileVars

LEMMA TInvNext ==
  TInv /\ [Next]_vars => TInv'
BY TInvStutter, TInvWalk, TInvFifo, TInvOpen, TInvQueue, TInvWorker, TInvStop
   DEF Next, Producer

LEMMA TInvAlways ==
  Spec => []TInv
BY TInvInit, TInvNext, PTL DEF Spec

\* The state of the copy program keeps its type: a queued task has two
\* descriptors that were open, and every consumer that copies has a task.
THEOREM CopyTypeCorrect ==
  Spec => []TypeOK
<1>1. TInv => TypeOK
  BY DEF TInv
<1> QED
  BY <1>1, TInvAlways, PTL

-----------------------------------------------------------------------------
(* Every file goes through the queue once. *)

\* The files of two tasks of the queue, of a task of the queue and of one that
\* was taken, of the entry in hand and of the entries not yet read differ.
QueueOnce ==
  /\ taskCount <= BufferSize
  /\ \A i, j \in 1..taskCount : i # j => taskQueue[i].of # taskQueue[j].of
  /\ \A i \in 1..taskCount : taskQueue[i].of \notin taken \cup unread
  /\ taken \cap unread = {}
  /\ prod \in InHand =>
       /\ entry \notin taken \cup unread
       /\ \A i \in 1..taskCount : taskQueue[i].of # entry

WorkOnce ==
  /\ \A c \in Consumer : cons[c] \in Busy => task[c].of \in taken
  /\ \A c, d \in Consumer :
       c # d /\ cons[c] \in Busy /\ cons[d] \in Busy => task[c].of # task[d].of

LEMMA OnceInit ==
  Init => QueueOnce /\ WorkOnce
BY PoolAssumption DEF Init, QueueOnce, WorkOnce, taskCount, InHand, Busy

\* The steps that take nothing out of the queue and put nothing in.
LEMMA OnceElse ==
  ASSUME TInv, QueueOnce, WorkOnce, [Next]_vars,
         ~ Put, \A c \in Consumer : ~ Take(c)
  PROVE  QueueOnce' /\ WorkOnce'
<1> USE DEF QueueOnce, WorkOnce, taskCount, InHand, Busy, TInv, TypeOK, Prod,
        Cons, vars, prodVars, consVars, fileVars
<1>1. CASE UNCHANGED vars
  BY <1>1
<1>2. CASE OpenDir \/ OpenDirFails \/ EndOfDir
  BY <1>2 DEF OpenDir, OpenDirFails, EndOfDir, Return
<1>3. ASSUME NEW d \in Entry, ReadDir(d) \/ ReadOther(d) \/ FifoFails(d)
      PROVE  QueueOnce' /\ WorkOnce'
  BY <1>3 DEF ReadDir, ReadOther, FifoFails, Read
<1>4. ASSUME NEW f \in Regular, ReadRegular(f)
      PROVE  QueueOnce' /\ WorkOnce'
  BY <1>4 DEF ReadRegular, Read
<1>5. CASE LockForFile \/ OpenFails \/ \E n \in Fd : OpenSrc(n) \/ OpenDst(n)
  BY <1>5 DEF LockForFile, OpenFails, OpenSrc, OpenDst, Return
<1>6. CASE PutWaits \/ Relock \/ SetDone
  BY <1>6 DEF PutWaits, Relock, SetDone
<1>7. CASE SignalConsumer
  BY <1>7, ZenonT(40) DEF SignalConsumer, Waiting
<1>8. CASE Broadcast
  BY <1>8 DEF Broadcast, Waiting
<1>9. ASSUME NEW c \in Consumer, Worker(c)
      PROVE  QueueOnce' /\ WorkOnce'
  <2>1. /\ UNCHANGED <<taskQueue, taken, unread, entry>>
        /\ prod' \in InHand => prod \in InHand
    BY <1>9 DEF Worker, TestCount, TestFlag, TakeWaits, CopyEnds, ReadChunk,
                WriteChunk, WriteFails, LoadTotal, StoreTotal, CloseBoth, SignalProducer
  <2>2. \A d \in Consumer :
          cons'[d] \in Busy => cons[d] \in Busy /\ task'[d] = task[d]
    <3>1. CASE TestCount(c) \/ TestFlag(c) \/ TakeWaits(c)
      BY <3>1 DEF TestCount, TestFlag, TakeWaits
    <3>2. CASE CopyEnds(c) \/ ReadChunk(c) \/ LoadTotal(c) \/ StoreTotal(c)
      BY <3>2 DEF CopyEnds, ReadChunk, LoadTotal, StoreTotal
    <3>4. CASE WriteChunk(c) \/ WriteFails(c)
      BY <3>4 DEF WriteChunk, WriteFails
    <3>3. CASE CloseBoth(c) \/ SignalProducer(c)
      BY <3>3 DEF CloseBoth, SignalProducer
    <3> QED
      BY <1>9, <3>1, <3>2, <3>3, <3>4 DEF Worker
  <2> HIDE DEF InHand, Busy, TInv, TypeOK
  <2>3. QueueOnce'
    BY <2>1
  <2>4. WorkOnce'
    BY <2>1, <2>2
  <2> QED
    BY <2>3, <2>4
<1>10. CASE MainReturns \/ HandleSignal
  BY <1>10 DEF MainReturns, HandleSignal, Stop
<1> QED
  BY <1>1, <1>2, <1>3, <1>4, <1>5, <1>6, <1>7, <1>8, <1>9, <1>10
     DEF Next, Producer, Entry

LEMMA OncePut ==
  ASSUME TInv, QueueOnce, WorkOnce, Put
  PROVE  QueueOnce' /\ WorkOnce'
<1> DEFINE t == [of |-> entry, src |-> srcFileFd[at], dst |-> pending]
<1>1. /\ taskQueue' = Append(taskQueue, t)
      /\ prod = "put" /\ prod' = "signal"
      /\ UNCHANGED <<unread, entry, taken, cons, task>>
  BY DEF Put, Prod, consVars
<1>2. taskQueue \in Seq(Task) /\ t \in Task
  BY <1>1 DEF TInv, TypeOK, Shape, InHand, SrcOpen, DstOpen, Task
<1>3. /\ taskCount \in Nat /\ taskCount' = taskCount + 1
      /\ \A i \in 1..taskCount : taskQueue'[i] = taskQueue[i]
      /\ taskQueue'[taskCount + 1] = t
  BY <1>1, <1>2 DEF taskCount
<1>4. t.of = entry
  OBVIOUS
<1>5. /\ entry \notin taken \cup unread
      /\ \A i \in 1..taskCount : taskQueue[i].of # entry
  BY <1>1 DEF QueueOnce, InHand
<1>6. taskCount' <= BufferSize
  BY <1>3, PoolAssumption DEF Put, QueueOnce
<1> HIDE DEF t
<1>7. \A i \in 1..taskCount' :
        \/ i \in 1..taskCount /\ taskQueue'[i] = taskQueue[i]
        \/ i = taskCount + 1 /\ taskQueue'[i].of = entry
  BY <1>3, <1>4
<1>8. QueueOnce'
  <2>1. \A i, j \in 1..taskCount' : i # j => taskQueue'[i].of # taskQueue'[j].of
    BY <1>5, <1>7 DEF QueueOnce
  <2>2. \A i \in 1..taskCount' : taskQueue'[i].of \notin taken \cup unread
    BY <1>5, <1>7 DEF QueueOnce
  <2> QED
    BY <1>1, <1>6, <2>1, <2>2 DEF QueueOnce, InHand
<1> QED
  BY <1>1, <1>8 DEF WorkOnce

LEMMA OnceTake ==
  ASSUME TInv, QueueOnce, WorkOnce, NEW c \in Consumer, Take(c)
  PROVE  QueueOnce' /\ WorkOnce'
<1> DEFINE t == Head(taskQueue)
<1>1. /\ taskQueue' = Tail(taskQueue)
      /\ cons[c] = "lock" /\ cons' = [cons EXCEPT ![c] = "copy"]
      /\ task' = [task EXCEPT ![c] = t]
      /\ taken' = taken \cup {t.of}
      /\ UNCHANGED <<prod, unread, entry>>
  BY DEF Take, Cons
<1>2. taskQueue \in Seq(Task) /\ taskQueue # <<>>
  BY DEF TInv, TypeOK, Take, taskCount
<1>3. /\ taskCount \in Nat /\ taskCount > 0 /\ taskCount' = taskCount - 1
      /\ \A i \in 1..taskCount' : taskQueue'[i] = taskQueue[i + 1]
      /\ t = taskQueue[1]
  BY <1>1, <1>2 DEF taskCount
<1> HIDE DEF t
<1>4. \A i \in 1..taskCount' : i + 1 \in 1..taskCount /\ i + 1 # 1
  BY <1>3
<1>5. t.of \notin taken \cup unread /\ (prod \in InHand => t.of # entry)
  BY <1>3 DEF QueueOnce
<1>6. QueueOnce'
  <2>1. \A i, j \in 1..taskCount' : i # j => taskQueue'[i].of # taskQueue'[j].of
    BY <1>3, <1>4 DEF QueueOnce
  <2>2. \A i \in 1..taskCount' : /\ taskQueue'[i].of \notin taken \cup unread
                                 /\ taskQueue'[i].of # t.of
                                 /\ prod \in InHand => taskQueue'[i].of # entry
    BY <1>3, <1>4 DEF QueueOnce
  <2>3. taskCount' <= BufferSize
    BY <1>3, PoolAssumption DEF QueueOnce
  <2> QED
    BY <1>1, <1>5, <2>1, <2>2, <2>3 DEF QueueOnce
<1>7. WorkOnce'
  BY <1>1, <1>5 DEF WorkOnce, Busy, TInv, TypeOK
<1> QED
  BY <1>6, <1>7

LEMMA OnceAlways ==
  Spec => [](TInv /\ QueueOnce /\ WorkOnce)
<1>1. TInv /\ QueueOnce /\ WorkOnce /\ [Next]_vars
        => TInv' /\ QueueOnce' /\ WorkOnce'
  BY TInvNext, OnceElse, OncePut, OnceTake
<1> QED
  BY <1>1, TInvInit, OnceInit, PTL DEF Spec

-----------------------------------------------------------------------------
(* The queue of the program is the queue of TaskQueue. *)

LEMMA QueuedIsSeq ==
  ASSUME TInv
  PROVE  Queued \in Seq(Regular) /\ Len(Queued) = taskCount
<1>1. taskQueue \in Seq(Task) /\ taskCount \in Nat
  BY DEF TInv, TypeOK, taskCount
<1>2. \A i \in 1..taskCount : taskQueue[i].of \in Regular
  <2>1. \A i \in 1..taskCount : taskQueue[i] \in Task
    BY <1>1 DEF taskCount
  <2> QED
    BY <2>1 DEF Task
<1>3. Queued \in [1..taskCount -> Regular]
  BY <1>2 DEF Queued
<1> QED
  BY <1>1, <1>3

LEMMA PutIsPut ==
  ASSUME TInv, TInv', QueueOnce, Put
  PROVE  TQ!Put(entry)
<1> DEFINE t == [of |-> entry, src |-> srcFileFd[at], dst |-> pending]
<1>1. /\ taskQueue' = Append(taskQueue, t)
      /\ prod = "put"
      /\ UNCHANGED <<taken, doneFlag>>
      /\ taskCount # BufferSize
  BY DEF Put, Prod, consVars
<1>2. taskQueue \in Seq(Task) /\ t \in Task /\ entry \in Regular
  BY <1>1 DEF TInv, TypeOK, Shape, InHand, SrcOpen, DstOpen, Task
<1>3. /\ taskCount \in Nat /\ taskCount' = taskCount + 1
      /\ \A i \in 1..taskCount : taskQueue'[i] = taskQueue[i]
      /\ taskQueue'[taskCount + 1].of = entry
  BY <1>1, <1>2 DEF taskCount
<1>4. Queued' = Append(Queued, entry)
  <2>1. Queued \in Seq(Regular) /\ Len(Queued) = taskCount
    BY QueuedIsSeq
  <2>2. Queued' = [i \in 1..(taskCount + 1) |-> taskQueue'[i].of]
    BY <1>3 DEF Queued
  <2>3. \A i \in 1..(taskCount + 1) :
          Queued'[i] = IF i = taskCount + 1 THEN entry ELSE Queued[i]
    BY <1>3, <2>2 DEF Queued
  <2>4. \A i \in 1..taskCount : Queued[i] \in Regular
    BY <2>1
  <2>5. Queued' \in [1..(taskCount + 1) -> Regular]
    BY <1>2, <1>3, <2>2, <2>3, <2>4
  <2>6. Queued' \in Seq(Regular) /\ Len(Queued') = taskCount + 1
    BY <1>3, <2>5
  <2>7. /\ Append(Queued, entry) \in Seq(Regular)
        /\ Len(Append(Queued, entry)) = taskCount + 1
        /\ \A i \in 1..(taskCount + 1) :
             Append(Queued, entry)[i] = IF i = taskCount + 1 THEN entry ELSE Queued[i]
    BY <1>2, <1>3, <2>1
  <2> QED
    BY <2>3, <2>6, <2>7, SeqEqual
<1>5. ~ doneFlag
  BY <1>1 DEF TInv, Shape
<1>6. Len(Queued) < BufferSize
  BY <1>1, <1>3, QueuedIsSeq, PoolAssumption DEF QueueOnce
<1>7. entry \notin taken /\ \A i \in 1..Len(Queued) : Queued[i] # entry
  BY <1>1, QueuedIsSeq DEF QueueOnce, InHand, Queued
<1> QED
  BY <1>1, <1>4, <1>5, <1>6, <1>7 DEF TQ!Put

LEMMA TakeIsTake ==
  ASSUME TInv, TInv', NEW c \in Consumer, Take(c)
  PROVE  TQ!Take
<1>1. /\ taskQueue' = Tail(taskQueue)
      /\ taken' = taken \cup {Head(taskQueue).of}
      /\ UNCHANGED doneFlag
  BY DEF Take, Cons
<1>2. taskQueue \in Seq(Task) /\ taskQueue # <<>>
  BY DEF TInv, TypeOK, Take, taskCount
<1>3. /\ taskCount \in Nat /\ taskCount > 0 /\ taskCount' = taskCount - 1
      /\ \A i \in 1..taskCount' : taskQueue'[i] = taskQueue[i + 1]
      /\ Head(taskQueue) = taskQueue[1]
  BY <1>1, <1>2 DEF taskCount
<1>4. Queued \in Seq(Regular) /\ Len(Queued) = taskCount /\ Queued # <<>>
  BY <1>3, QueuedIsSeq
<1>5. Head(Queued) = Head(taskQueue).of
  BY <1>3, <1>4 DEF Queued
<1>6. Queued' = Tail(Queued)
  <2>1. Queued' = [i \in 1..(taskCount - 1) |-> taskQueue'[i].of]
    BY <1>3 DEF Queued
  <2>2. \A i \in 1..(taskCount - 1) : i + 1 \in 1..taskCount
    BY <1>3
  <2>3. \A i \in 1..(taskCount - 1) : Queued'[i] = Queued[i + 1]
    BY <1>3, <2>1, <2>2 DEF Queued
  <2>4. \A i \in 1..(taskCount - 1) : Queued[i + 1] \in Regular
    BY <1>4, <2>2
  <2>5. Queued' \in [1..(taskCount - 1) -> Regular]
    BY <2>1, <2>3, <2>4
  <2>6. Queued' \in Seq(Regular) /\ Len(Queued') = taskCount - 1
    BY <1>3, <2>5
  <2>7. /\ Tail(Queued) \in Seq(Regular)
        /\ Len(Tail(Queued)) = taskCount - 1
        /\ \A i \in 1..(taskCount - 1) : Tail(Queued)[i] = Queued[i + 1]
    BY <1>3, <1>4
  <2> QED
    BY <2>3, <2>6, <2>7, SeqEqual
<1> QED
  BY <1>1, <1>4, <1>5, <1>6 DEF TQ!Take

\* Every other step closes the queue or leaves it alone.
LEMMA ElseIsStutter ==
  ASSUME TInv, [Next]_vars, ~ Put, \A c \in Consumer : ~ Take(c)
  PROVE  TQ!Close \/ UNCHANGED TQ!queueVars
<1>1. \/ SetDone
      \/ UNCHANGED <<taskQueue, taken, doneFlag>>
  BY DEF Next, Producer, Worker, OpenDir, OpenDirFails, EndOfDir, Return, Prod,
     Read, ReadDir, ReadRegular, ReadOther, FifoFails, LockForFile, OpenSrc,
     OpenDst, OpenFails, PutWaits, Relock, SignalConsumer, Broadcast, Cons,
     TestCount, TestFlag, TakeWaits, ReadChunk, CopyEnds, WriteChunk,
     WriteFails, LoadTotal, StoreTotal, CloseBoth, SignalProducer, MainReturns, HandleSignal, Stop,
     vars, prodVars, consVars, fileVars
<1>2. SetDone => doneFlag' = TRUE /\ UNCHANGED <<taskQueue, taken>>
  BY DEF SetDone, consVars
<1>3. UNCHANGED taskQueue => UNCHANGED Queued
  BY DEF Queued, taskCount
<1> QED
  BY <1>1, <1>2, <1>3 DEF TQ!Close, TQ!queueVars

\* taskQueue of hw5.c, with its counter, its shifting loop and its two waits,
\* implements the bounded queue of TaskQueue: never more than BufferSize
\* tasks, every file put and taken at most once, in order, nothing after the
\* end of the walk.
THEOREM PoolImplementsQueue ==
  Spec => QueueSpec
<1>1. Init => TQ!Init
  <2> SUFFICES ASSUME Init
               PROVE  TQ!Init
    OBVIOUS
  <2>1. Queued = <<>>
    BY DEF Init, Queued, taskCount
  <2> QED
    BY <2>1 DEF Init, TQ!Init
<1>2. TInv /\ QueueOnce /\ TInv' /\ [Next]_vars => [TQ!Next]_(TQ!queueVars)
  <2> SUFFICES ASSUME TInv, QueueOnce, TInv', [Next]_vars
               PROVE  TQ!Next \/ UNCHANGED TQ!queueVars
    OBVIOUS
  <2>1. CASE Put
    <3>1. entry \in Regular
      BY <2>1 DEF Put, Prod, TInv, Shape, InHand
    <3> QED
      BY <2>1, <3>1, PutIsPut DEF TQ!Next
  <2>2. ASSUME NEW c \in Consumer, Take(c)
        PROVE  TQ!Next
    BY <2>2, TakeIsTake DEF TQ!Next
  <2>3. CASE ~ Put /\ \A c \in Consumer : ~ Take(c)
    BY <2>3, ElseIsStutter DEF TQ!Next
  <2> QED
    BY <2>1, <2>2, <2>3
<1> QED
  BY <1>1, <1>2, OnceAlways, PTL DEF Spec, QueueSpec, TQ!Spec

-----------------------------------------------------------------------------
(* Copies hold what their files hold. *)

\* The descriptors of a task that waits are those of its file.
Fresh(t) ==
  /\ fds[t.src] = [of |-> t.of, use |-> "src", read |-> FALSE]
  /\ fds[t.dst] = [of |-> t.of, use |-> "dst", read |-> FALSE]
  /\ dest[t.of] = Empty

\* Those of a task that a consumer works on.
Worked(t) ==
  /\ fds[t.src].of = t.of /\ fds[t.src].use = "src"
  /\ fds[t.dst].of = t.of /\ fds[t.dst].use = "dst"
  /\ ~ fds[t.src].read => dest[t.of] = Empty

\* Between a read and its write.
Held(c) ==
  /\ fds[task[c].src].read
  /\ buffer[c] = task[c].of
  /\ dest[task[c].of] = Empty

InPool ==
  /\ \A i \in 1..taskCount : Fresh(taskQueue[i])
  /\ \A c \in Consumer : cons[c] \in Busy => Worked(task[c])
  /\ \A c \in Consumer :
       cons[c] \in {"load", "store"} => dest[task[c].of] = task[c].of
  /\ \A c \in Consumer : cons[c] = "write" => Held(c)

InProducer ==
  /\ prod \in SrcOpen =>
       fds[srcFileFd[at]] = [of |-> entry, use |-> "src", read |-> FALSE]
  /\ prod \in DstOpen =>
       /\ fds[pending] = [of |-> entry, use |-> "dst", read |-> FALSE]
       /\ dest[entry] = Empty

Contents ==
  /\ \A f \in Regular : dest[f] \in {Absent, Empty, f}
  /\ \A f \in Regular \cap unread : dest[f] = Absent
  /\ prod \in {"lock", "src", "dst"} => dest[entry] = Absent

Tidy == InPool /\ InProducer /\ Contents

LEMMA TidyInit ==
  Init => Tidy
BY DEF Init, Tidy, InPool, Held, InProducer, Contents, taskCount, Busy, SrcOpen,
   DstOpen

\* The steps that change neither a descriptor nor a copy nor the queue.
LEMMA TidyElse ==
  ASSUME TInv, WorkOnce, Tidy, [Next]_vars,
         UNCHANGED <<fds, dest, taskQueue>>,
         \A c \in Consumer :
           /\ cons'[c] \in Busy => cons[c] \in Busy /\ task'[c] = task[c]
           /\ cons'[c] \in {"load", "store"} => cons[c] \in {"load", "store"}
           /\ cons'[c] = "write" => cons[c] = "write" /\ buffer'[c] = buffer[c],
         unread' \subseteq unread,
         prod' \in SrcOpen =>
           prod \in SrcOpen /\ UNCHANGED <<entry, srcFileFd, at>>,
         prod' \in DstOpen => prod \in DstOpen /\ UNCHANGED pending,
         prod' \in {"lock", "src", "dst"} =>
           \/ prod \in {"lock", "src", "dst"} /\ UNCHANGED entry
           \/ entry' \in Regular \cap unread
  PROVE  Tidy'
<1>1. InPool'
  <2>1. \A i \in 1..taskCount' : Fresh(taskQueue[i])'
    BY DEF Tidy, InPool, Fresh, taskCount
  <2>2. ASSUME NEW c \in Consumer, cons'[c] \in Busy
        PROVE  Worked(task[c])'
    BY <2>2 DEF Tidy, InPool, Worked
  <2>3. ASSUME NEW c \in Consumer, cons'[c] \in {"load", "store"}
        PROVE  dest'[task'[c].of] = task'[c].of
    BY <2>3 DEF Tidy, InPool, Busy
  <2>4. ASSUME NEW c \in Consumer, cons'[c] = "write"
        PROVE  Held(c)'
    BY <2>4 DEF Tidy, InPool, Busy, Held
  <2> QED
    BY <2>1, <2>2, <2>3, <2>4 DEF InPool
<1>2. InProducer'
  <2>1. ASSUME prod' \in SrcOpen
        PROVE  fds'[srcFileFd'[at']] = [of |-> entry', use |-> "src", read |-> FALSE]
    <3>1. entry' = entry /\ srcFileFd' = srcFileFd /\ at' = at /\ prod \in SrcOpen
      BY <2>1
    <3> QED
      BY <3>1 DEF Tidy, InProducer
  <2>2. ASSUME prod' \in DstOpen
        PROVE  /\ fds'[pending'] = [of |-> entry', use |-> "dst", read |-> FALSE]
               /\ dest'[entry'] = Empty
    <3>1. entry' = entry /\ pending' = pending /\ prod \in DstOpen
      BY <2>2 DEF SrcOpen, DstOpen
    <3> QED
      BY <3>1 DEF Tidy, InProducer
  <2> QED
    BY <2>1, <2>2 DEF InProducer
<1>3. Contents'
  <2>1. \A f \in Regular \cap unread' : dest'[f] = Absent
    BY DEF Tidy, Contents
  <2>2. prod' \in {"lock", "src", "dst"} => dest'[entry'] = Absent
    BY DEF Tidy, Contents
  <2> QED
    BY <2>1, <2>2 DEF Tidy, Contents
<1> QED
  BY <1>1, <1>2, <1>3 DEF Tidy

LEMMA TidyWalk ==
  ASSUME TInv, WorkOnce, Tidy, ~ stray', [Next]_vars,
         \/ UNCHANGED vars
         \/ OpenDir \/ OpenDirFails \/ EndOfDir
         \/ \E e \in Entry : ReadDir(e) \/ ReadOther(e) \/ FifoFails(e)
         \/ \E f \in Regular : ReadRegular(f)
         \/ LockForFile \/ (OpenFails /\ Return("src") /\ UNCHANGED fds)
         \/ PutWaits \/ Relock \/ SignalConsumer \/ SetDone \/ Broadcast
         \/ MainReturns \/ HandleSignal
  PROVE  Tidy'
<1> USE DEF Prod, SrcOpen, DstOpen, consVars, fileVars, prodVars, TInv, TypeOK
<1>1. CASE UNCHANGED vars \/ MainReturns \/ HandleSignal
  BY <1>1, TidyElse DEF vars, MainReturns, HandleSignal, Stop
<1>2. CASE OpenDir \/ OpenDirFails \/ EndOfDir
  BY <1>2, TidyElse DEF OpenDir, OpenDirFails, EndOfDir, Return
<1>3. ASSUME NEW e \in Entry, ReadDir(e) \/ ReadOther(e)
      PROVE  Tidy'
  BY <1>3, TidyElse DEF ReadDir, ReadOther, Read
<1>9. ASSUME NEW f \in Regular, ReadRegular(f)
      PROVE  Tidy'
  BY <1>9, TidyElse DEF ReadRegular, Read
<1>4. ASSUME NEW e \in Entry, FifoFails(e)
      PROVE  Tidy'
  <2>1. UNCHANGED fds
    BY <1>4 DEF FifoFails
  <2> QED
    BY <1>4, <2>1, TidyElse DEF FifoFails, Read
<1>5. CASE LockForFile \/ PutWaits \/ Relock \/ SetDone
  BY <1>5, TidyElse DEF LockForFile, PutWaits, Relock, SetDone
<1>6. CASE OpenFails /\ Return("src") /\ UNCHANGED fds
  BY <1>6, TidyElse DEF OpenFails, Return
<1>7. CASE SignalConsumer
  BY <1>7, TidyElse DEF SignalConsumer, Waiting, Busy
<1>8. CASE Broadcast
  BY <1>8, TidyElse DEF Broadcast, Waiting, Busy
<1> QED
  BY <1>1, <1>2, <1>3, <1>4, <1>5, <1>6, <1>7, <1>8, <1>9

\* Every task in the pool has descriptors and a file.
LEMMA PoolTasks ==
  ASSUME TInv
  PROVE  /\ \A i \in 1..taskCount : taskQueue[i] \in Task
         /\ \A c \in Consumer : cons[c] \in Busy => task[c] \in Task
         /\ \A t \in Task : t.of \in Regular /\ t.src \in Fd /\ t.dst \in Fd
<1>1. \A i \in 1..taskCount : taskQueue[i] \in Task
  BY DEF TInv, TypeOK, taskCount
<1>2. \A t \in Task : t.of \in Regular /\ t.src \in Fd /\ t.dst \in Fd
  BY DEF Task
<1> QED
  BY <1>1, <1>2 DEF TInv, Shape

\* What Fresh says of one field at a time.
LEMMA FreshFields ==
  ASSUME NEW t, Fresh(t)
  PROVE  /\ fds[t.src].of = t.of /\ fds[t.src].use = "src" /\ ~ fds[t.src].read
         /\ fds[t.dst].of = t.of /\ fds[t.dst].use = "dst"
         /\ dest[t.of] = Empty
BY DEF Fresh

LEMMA QueueFields ==
  ASSUME Tidy
  PROVE  \A i \in 1..taskCount :
           LET t == taskQueue[i] IN
           /\ fds[t.src].of = t.of /\ fds[t.src].use = "src"
           /\ fds[t.dst].of = t.of /\ fds[t.dst].use = "dst"
BY FreshFields DEF Tidy, InPool

\* A step keeps the tasks in the pool in order if it leaves those of the queue
\* as they were and keeps the ones consumers work on in order.
LEMMA InPoolKept ==
  ASSUME Tidy, UNCHANGED taskQueue,
         \A i \in 1..taskCount :
           /\ fds'[taskQueue[i].src] = fds[taskQueue[i].src]
           /\ fds'[taskQueue[i].dst] = fds[taskQueue[i].dst]
           /\ dest'[taskQueue[i].of] = dest[taskQueue[i].of],
         \A c \in Consumer : cons'[c] \in Busy => Worked(task[c])',
         \A c \in Consumer :
           cons'[c] \in {"load", "store"} => dest'[task'[c].of] = task'[c].of,
         \A c \in Consumer : cons'[c] = "write" => Held(c)'
  PROVE  InPool'
<1>1. taskCount' = taskCount
  BY DEF taskCount
<1>2. \A i \in 1..taskCount : Fresh(taskQueue[i])'
  BY DEF Tidy, InPool, Fresh
<1> QED
  BY <1>1, <1>2 DEF InPool

LEMMA TidyOpenSrc ==
  ASSUME TInv, Tidy, NEW n \in Fd, OpenSrc(n)
  PROVE  Tidy'
<1> DEFINE d == [of |-> entry, use |-> "src", read |-> FALSE]
<1>1. /\ prod = "src" /\ prod' = "dst"
      /\ srcFileFd' = [srcFileFd EXCEPT ![at] = n]
      /\ fds' = [fds EXCEPT ![n] = d] /\ fds[n] = Closed
      /\ UNCHANGED <<taskQueue, at, unread, entry, cons, task, buffer, dest>>
  BY DEF OpenSrc, Prod, consVars, Lowest
<1>2. fds \in [Fd -> Opened \cup {Closed}] /\ at \in Dir
      /\ srcFileFd \in [Dir -> Fd \cup {0}]
  BY DEF TInv, TypeOK
<1>3. Closed.use = "closed"
  BY DEF Closed
<1> HIDE DEF d
<1>4. \A k \in Fd : fds[k].use # "closed" => fds'[k] = fds[k]
  BY <1>1, <1>2, <1>3
<1>5. \A i \in 1..taskCount :
        /\ fds'[taskQueue[i].src] = fds[taskQueue[i].src]
        /\ fds'[taskQueue[i].dst] = fds[taskQueue[i].dst]
  BY <1>4, PoolTasks, QueueFields
<1>6. InPool'
  <2>1. \A c \in Consumer : cons[c] \in Busy => Worked(task[c])'
    BY <1>1, <1>4, PoolTasks DEF Tidy, InPool, Worked
  <2>2. \A c \in Consumer :
          cons[c] \in {"load", "store"} => dest[task[c].of] = task[c].of
    BY DEF Tidy, InPool
  <2>3. \A c \in Consumer : cons[c] = "write" => Held(c)'
    BY <1>1, <1>4, PoolTasks DEF Tidy, InPool, Held, Worked, Busy
  <2> QED
    BY <1>1, <1>5, <2>1, <2>2, <2>3, InPoolKept
<1>7. InProducer'
  BY <1>1, <1>2 DEF InProducer, SrcOpen, DstOpen, d
<1>8. Contents'
  BY <1>1 DEF Contents, Tidy
<1> QED
  BY <1>6, <1>7, <1>8 DEF Tidy

LEMMA TidyOpenDst ==
  ASSUME TInv, QueueOnce, WorkOnce, Tidy, NEW n \in Fd, OpenDst(n)
  PROVE  Tidy'
<1> DEFINE d == [of |-> entry, use |-> "dst", read |-> FALSE]
<1>1. /\ prod = "dst" /\ prod' = "put"
      /\ pending' = n
      /\ fds' = [fds EXCEPT ![n] = d] /\ fds[n] = Closed
      /\ dest' = [dest EXCEPT ![entry] = Empty]
      /\ UNCHANGED <<taskQueue, at, unread, entry, srcFileFd, cons, task, buffer>>
  BY DEF OpenDst, Prod, consVars, Lowest
<1>2. fds \in [Fd -> Opened \cup {Closed}] /\ at \in Dir /\ entry \in Regular
      /\ srcFileFd[at] \in Fd
      /\ dest \in [Regular -> Regular \cup {Absent, Empty, Mixed}]
  BY <1>1 DEF TInv, TypeOK, Shape, InHand, SrcOpen
<1>3. Closed.use = "closed"
  BY DEF Closed
<1> HIDE DEF d
<1>4. \A k \in Fd : fds[k].use # "closed" => fds'[k] = fds[k]
  BY <1>1, <1>2, <1>3
<1>5. \A i \in 1..taskCount :
        /\ fds'[taskQueue[i].src] = fds[taskQueue[i].src]
        /\ fds'[taskQueue[i].dst] = fds[taskQueue[i].dst]
        /\ dest'[taskQueue[i].of] = dest[taskQueue[i].of]
  <2>1. \A i \in 1..taskCount : taskQueue[i].of # entry
    BY <1>1 DEF QueueOnce, InHand
  <2> QED
    BY <1>1, <1>2, <1>4, <2>1, PoolTasks, QueueFields
<1>6. InPool'
  <2>1. \A c \in Consumer : cons[c] \in Busy => task[c].of # entry
    BY <1>1 DEF WorkOnce, QueueOnce, InHand
  <2>2. \A c \in Consumer : cons[c] \in Busy => Worked(task[c])'
    BY <1>1, <1>2, <1>4, <2>1, PoolTasks DEF Tidy, InPool, Worked
  <2>3. \A c \in Consumer :
          cons[c] \in {"load", "store"} => dest'[task[c].of] = task[c].of
    BY <1>1, <1>2, <2>1, PoolTasks DEF Tidy, InPool, Busy
  <2>4. \A c \in Consumer : cons[c] = "write" => Held(c)'
    BY <1>1, <1>2, <2>1, <1>4, PoolTasks DEF Tidy, InPool, Held, Worked, Busy
  <2> QED
    BY <1>1, <1>5, <2>2, <2>3, <2>4, InPoolKept
<1>7. InProducer'
  <2>1. fds[srcFileFd[at]] = [of |-> entry, use |-> "src", read |-> FALSE]
    BY <1>1 DEF Tidy, InProducer, SrcOpen
  <2>2. fds'[srcFileFd[at]] = fds[srcFileFd[at]]
    BY <1>2, <1>4, <2>1
  <2> QED
    BY <1>1, <1>2, <2>1, <2>2 DEF InProducer, SrcOpen, DstOpen, d
<1>8. Contents'
  <2>1. entry \notin unread
    BY <1>1 DEF QueueOnce, InHand
  <2> QED
    BY <1>1, <1>2, <2>1 DEF Contents, Tidy
<1> QED
  BY <1>6, <1>7, <1>8 DEF Tidy

LEMMA TidyOpenFails ==
  ASSUME TInv, QueueOnce, WorkOnce, Tidy, OpenFails, Return("dst"),
         fds' = [fds EXCEPT ![srcFileFd[at]] = Closed]
  PROVE  Tidy'
<1>1. /\ prod = "dst" /\ prod' \in {"finish", "walk"}
      /\ UNCHANGED <<taskQueue, unread, entry, cons, task, buffer, dest>>
  BY DEF OpenFails, Return, Prod, consVars
<1>2. fds \in [Fd -> Opened \cup {Closed}]
  BY DEF TInv, TypeOK
<1>3. fds[srcFileFd[at]].of = entry
  BY <1>1 DEF Tidy, InProducer, SrcOpen
<1>4. \A k \in Fd : fds[k].of # entry => fds'[k] = fds[k]
  BY <1>2, <1>3
<1>5. \A i \in 1..taskCount :
        /\ fds'[taskQueue[i].src] = fds[taskQueue[i].src]
        /\ fds'[taskQueue[i].dst] = fds[taskQueue[i].dst]
  <2>1. \A i \in 1..taskCount : taskQueue[i].of # entry
    BY <1>1 DEF QueueOnce, InHand
  <2> QED
    BY <1>4, <2>1, PoolTasks, QueueFields
<1>6. InPool'
  <2>1. \A c \in Consumer : cons[c] \in Busy => task[c].of # entry
    BY <1>1 DEF WorkOnce, QueueOnce, InHand
  <2>2. \A c \in Consumer : cons[c] \in Busy => Worked(task[c])'
    BY <1>1, <1>4, <2>1, PoolTasks DEF Tidy, InPool, Worked
  <2>3. \A c \in Consumer :
          cons[c] \in {"load", "store"} => dest[task[c].of] = task[c].of
    BY DEF Tidy, InPool
  <2>4. \A c \in Consumer : cons[c] = "write" => Held(c)'
    BY <1>1, <1>4, <2>1, PoolTasks DEF Tidy, InPool, Held, Worked, Busy
  <2> QED
    BY <1>1, <1>5, <2>2, <2>3, <2>4, InPoolKept
<1>7. InProducer'
  BY <1>1 DEF InProducer, SrcOpen, DstOpen
<1>8. Contents'
  BY <1>1 DEF Contents, Tidy
<1> QED
  BY <1>6, <1>7, <1>8 DEF Tidy

LEMMA TidyPut ==
  ASSUME TInv, Tidy, Put
  PROVE  Tidy'
<1> DEFINE t == [of |-> entry, src |-> srcFileFd[at], dst |-> pending]
<1>1. /\ taskQueue' = Append(taskQueue, t)
      /\ prod = "put" /\ prod' = "signal"
      /\ UNCHANGED <<unread, cons, task, buffer, fds, dest>>
  BY DEF Put, Prod, consVars, fileVars
<1>2. taskQueue \in Seq(Task) /\ t \in Task
  BY <1>1 DEF TInv, TypeOK, Shape, InHand, SrcOpen, DstOpen, Task
<1>3. \A i \in 1..taskCount' :
        \/ i \in 1..taskCount /\ taskQueue'[i] = taskQueue[i]
        \/ taskQueue'[i] = t
  BY <1>1, <1>2 DEF taskCount
<1>4. Fresh(t)
  BY <1>1 DEF Tidy, InProducer, SrcOpen, DstOpen, Fresh
<1> HIDE DEF t
<1>5. \A i \in 1..taskCount' : Fresh(taskQueue'[i])
  BY <1>3, <1>4 DEF Tidy, InPool
<1>6. InPool'
  BY <1>1, <1>5 DEF Tidy, InPool, Fresh, Worked, Held
<1> QED
  BY <1>1, <1>6 DEF Tidy, InProducer, Contents, SrcOpen, DstOpen

LEMMA TidyTake ==
  ASSUME TInv, Tidy, NEW c \in Consumer, Take(c)
  PROVE  Tidy'
<1> DEFINE t == Head(taskQueue)
<1>1. /\ taskQueue' = Tail(taskQueue)
      /\ cons[c] = "lock" /\ cons' = [cons EXCEPT ![c] = "copy"]
      /\ task' = [task EXCEPT ![c] = t]
      /\ UNCHANGED <<at, pending, srcFileFd, prod, unread, entry, buffer, fds, dest>>
  BY DEF Take, Cons
<1>2. taskQueue \in Seq(Task) /\ taskQueue # <<>>
  BY DEF TInv, TypeOK, Take, taskCount
<1>3. /\ taskCount \in Nat /\ taskCount > 0 /\ taskCount' = taskCount - 1
      /\ \A i \in 1..taskCount' : taskQueue'[i] = taskQueue[i + 1]
      /\ t = taskQueue[1]
  BY <1>1, <1>2 DEF taskCount
<1> HIDE DEF t
<1>4. Fresh(t)
  BY <1>3 DEF Tidy, InPool
<1>5. Worked(t)
  BY <1>4 DEF Fresh, Worked
<1>6. \A i \in 1..taskCount' : Fresh(taskQueue'[i])
  <2>1. \A i \in 1..taskCount' : i + 1 \in 1..taskCount
    BY <1>3
  <2> QED
    BY <1>3, <2>1 DEF Tidy, InPool
<1>7. \A d \in Consumer : cons'[d] \in Busy => Worked(task'[d])
  BY <1>1, <1>5 DEF Tidy, InPool, TInv, TypeOK
<1>8. \A d \in Consumer :
        cons'[d] \in {"load", "store"} => dest[task'[d].of] = task'[d].of
  BY <1>1 DEF Tidy, InPool, TInv, TypeOK
<1>10. \A d \in Consumer : cons'[d] = "write" => Held(d)'
  BY <1>1 DEF Tidy, InPool, Held, TInv, TypeOK
<1>9. InPool'
  BY <1>1, <1>6, <1>7, <1>8, <1>10 DEF InPool, Fresh, Worked
<1> QED
  BY <1>1, <1>9 DEF Tidy, InProducer, Contents

LEMMA TidyReadChunk ==
  ASSUME TInv, QueueOnce, WorkOnce, Tidy, NEW c \in Consumer, ReadChunk(c)
  PROVE  Tidy'
<1> DEFINE f == task[c].of
<1>1. /\ cons[c] = "copy" /\ cons' = [cons EXCEPT ![c] = "write"]
      /\ fds' = [fds EXCEPT ![task[c].src].read = TRUE]
      /\ ~ fds[task[c].src].read
      /\ buffer' = [buffer EXCEPT ![c] = fds[task[c].src].of]
      /\ UNCHANGED <<at, pending, srcFileFd, prod, unread, entry, task, taskQueue,
                     dest>>
  BY DEF ReadChunk, Cons, CanRead
<1>2. task[c] \in Task /\ Worked(task[c]) /\ f \in taken
  BY <1>1 DEF Tidy, InPool, TInv, Shape, Busy, WorkOnce
<1>3. f \in Regular /\ task[c].src \in Fd /\ task[c].dst \in Fd
  BY <1>2, PoolTasks
<1>4. dest[f] = Empty /\ fds[task[c].src].of = f
  BY <1>1, <1>2 DEF Worked
<1>6. /\ fds \in [Fd -> Opened \cup {Closed}]
      /\ buffer \in [Consumer -> Regular \cup {Empty}]
      /\ cons \in [Consumer -> {"count", "flag", "lock", "wait", "copy", "write",
                                "load", "store", "close", "signal", "exited"}]
  BY DEF TInv, TypeOK
<1>7. \A k \in Fd : fds[k].of # f => fds'[k] = fds[k]
  BY <1>1, <1>2, <1>6 DEF Worked
<1>8. /\ fds'[task[c].src].of = f /\ fds'[task[c].src].use = "src"
      /\ fds'[task[c].src].read
      /\ fds'[task[c].dst].of = f /\ fds'[task[c].dst].use = "dst"
  BY <1>1, <1>2, <1>3, <1>6 DEF Worked
<1> HIDE DEF f
<1>9. \A d \in Consumer : cons'[d] \in Busy => Worked(task[d])'
  <2>1. ASSUME NEW d \in Consumer, cons[d] \in Busy, d # c
        PROVE  Worked(task[d])'
    <3>1. task[d].of # f /\ Worked(task[d]) /\ task[d] \in Task
      BY <1>1, <2>1 DEF WorkOnce, Tidy, InPool, Busy, TInv, Shape, f
    <3> QED
      BY <1>1, <1>3, <1>6, <1>7, <3>1, PoolTasks DEF Worked
  <2>2. Worked(task[c])'
    BY <1>1, <1>8 DEF Worked, f
  <2> QED
    BY <1>1, <1>6, <2>1, <2>2
<1>10. \A d \in Consumer :
         cons'[d] \in {"load", "store"} => dest'[task'[d].of] = task'[d].of
  BY <1>1, <1>6 DEF Tidy, InPool
<1>5. \A d \in Consumer : cons'[d] = "write" => Held(d)'
  <2>1. ASSUME NEW d \in Consumer, cons[d] = "write", d # c
        PROVE  Held(d)'
    <3>1. task[d].of # f /\ Worked(task[d]) /\ task[d] \in Task /\ Held(d)
      BY <1>1, <2>1 DEF WorkOnce, Tidy, InPool, Busy, TInv, Shape, f
    <3>2. fds'[task[d].src] = fds[task[d].src]
      BY <1>7, <3>1, PoolTasks DEF Worked
    <3> QED
      BY <1>1, <1>6, <2>1, <3>1, <3>2 DEF Held
  <2>2. Held(c)'
    BY <1>1, <1>4, <1>6, <1>8 DEF Held, f
  <2> QED
    BY <1>1, <1>6, <2>1, <2>2
<1>11. \A i \in 1..taskCount :
         /\ fds'[taskQueue[i].src] = fds[taskQueue[i].src]
         /\ fds'[taskQueue[i].dst] = fds[taskQueue[i].dst]
         /\ dest'[taskQueue[i].of] = dest[taskQueue[i].of]
  <2>1. \A i \in 1..taskCount : taskQueue[i].of # f
    BY <1>2 DEF QueueOnce
  <2> QED
    BY <1>1, <1>6, <1>7, <2>1, PoolTasks, QueueFields
<1>12. InPool'
  BY <1>1, <1>5, <1>9, <1>10, <1>11, InPoolKept
<1>13. InProducer'
  <2>1. prod \in InHand => entry # f
    BY <1>2 DEF QueueOnce
  <2>2. prod \in SrcOpen => srcFileFd[at] \in Fd /\ fds[srcFileFd[at]].of = entry
    BY DEF TInv, Shape, Tidy, InProducer
  <2>3. prod \in DstOpen => pending \in Fd /\ fds[pending].of = entry
    BY DEF TInv, Shape, Tidy, InProducer
  <2> QED
    BY <1>1, <1>7, <2>1, <2>2, <2>3
       DEF Tidy, InProducer, SrcOpen, DstOpen, InHand
<1>14. Contents'
  BY <1>1 DEF Tidy, Contents
<1> QED
  BY <1>12, <1>13, <1>14 DEF Tidy

LEMMA TidyWriteChunk ==
  ASSUME TInv, QueueOnce, WorkOnce, Tidy, NEW c \in Consumer, WriteChunk(c)
  PROVE  Tidy' /\ dest' = [dest EXCEPT ![task[c].of] = task[c].of]
<1> DEFINE f == task[c].of
<1>1. /\ cons[c] = "write"
      /\ \E to \in {"load", "close"} : cons' = [cons EXCEPT ![c] = to]
      /\ buffer' = [buffer EXCEPT ![c] = Empty]
      /\ UNCHANGED <<at, pending, srcFileFd, prod, unread, entry, task, taskQueue,
                     fds>>
  BY DEF WriteChunk, Cons
<1>2. task[c] \in Task /\ Worked(task[c]) /\ f \in taken
  BY <1>1 DEF Tidy, InPool, TInv, Shape, Busy, WorkOnce
<1>3. f \in Regular
  BY <1>2, PoolTasks
<1>4. dest[f] = Empty /\ buffer[c] = f
  BY <1>1 DEF Tidy, InPool, Held
<1>5. dest' = [dest EXCEPT ![f] = f]
  BY <1>2, <1>4 DEF WriteChunk, Worked
<1>6. /\ dest \in [Regular -> Regular \cup {Absent, Empty, Mixed}]
      /\ buffer \in [Consumer -> Regular \cup {Empty}]
      /\ cons \in [Consumer -> {"count", "flag", "lock", "wait", "copy", "write",
                                "load", "store", "close", "signal", "exited"}]
  BY DEF TInv, TypeOK
<1>7. fds[task[c].src].read
  BY <1>1 DEF Tidy, InPool, Held
<1> HIDE DEF f
<1>8. \A d \in Consumer \ {c} :
        /\ cons'[d] = cons[d] /\ buffer'[d] = buffer[d]
        /\ cons[d] \in Busy => task[d].of # f /\ task[d].of \in Regular
  BY <1>1, <1>6, PoolTasks DEF WorkOnce, Busy, f
<1>9. \A d \in Consumer : cons'[d] \in Busy => Worked(task[d])'
  <2>1. ASSUME NEW d \in Consumer, cons[d] \in Busy, d # c
        PROVE  Worked(task[d])'
    BY <1>1, <1>3, <1>5, <1>6, <1>8, <2>1 DEF Tidy, InPool, Worked
  <2>2. Worked(task[c])'
    BY <1>1, <1>2, <1>7 DEF Worked
  <2> QED
    BY <1>1, <1>8, <2>1, <2>2
<1>10. \A d \in Consumer :
         cons'[d] \in {"load", "store"} => dest'[task'[d].of] = task'[d].of
  <2>1. ASSUME NEW d \in Consumer, cons[d] \in {"load", "store"}, d # c
        PROVE  dest'[task[d].of] = task[d].of
    BY <1>3, <1>5, <1>6, <1>8, <2>1 DEF Tidy, InPool, Busy
  <2>2. dest'[task[c].of] = task[c].of
    BY <1>3, <1>5, <1>6 DEF f
  <2> QED
    BY <1>1, <1>8, <2>1, <2>2
<1>11. \A d \in Consumer : cons'[d] = "write" => Held(d)'
  <2>1. ASSUME NEW d \in Consumer, cons[d] = "write", d # c
        PROVE  Held(d)'
    BY <1>1, <1>3, <1>5, <1>6, <1>8, <2>1 DEF Tidy, InPool, Busy, Held
  <2>2. cons'[c] # "write"
    BY <1>1, <1>6
  <2> QED
    BY <1>8, <2>1, <2>2
<1>12. \A i \in 1..taskCount : dest'[taskQueue[i].of] = dest[taskQueue[i].of]
  BY <1>2, <1>3, <1>5, <1>6, PoolTasks DEF QueueOnce
<1>13. InPool'
  BY <1>1, <1>9, <1>10, <1>11, <1>12, InPoolKept
<1>14. InProducer'
  <2>1. prod \in DstOpen => entry # f /\ entry \in Regular
    BY <1>2 DEF QueueOnce, InHand, DstOpen, TInv, Shape
  <2> QED
    BY <1>1, <1>5, <1>6, <2>1 DEF Tidy, InProducer
<1>15. Contents'
  <2>1. f \notin unread /\ (prod \in InHand => entry # f /\ entry \in Regular)
    BY <1>2 DEF QueueOnce, TInv, Shape
  <2> QED
    BY <1>1, <1>3, <1>5, <1>6, <2>1 DEF Tidy, Contents, InHand
<1> QED
  BY <1>5, <1>13, <1>14, <1>15 DEF Tidy, f

LEMMA TidyCloseBoth ==
  ASSUME TInv, QueueOnce, WorkOnce, Tidy, NEW c \in Consumer, CloseBoth(c)
  PROVE  Tidy'
<1> DEFINE f == task[c].of
<1>1. /\ cons[c] = "close" /\ cons' = [cons EXCEPT ![c] = "signal"]
      /\ fds' = [fds EXCEPT ![task[c].src] = Closed, ![task[c].dst] = Closed]
      /\ task' = [task EXCEPT ![c] = <<>>]
      /\ UNCHANGED <<at, pending, srcFileFd, prod, unread, entry, buffer, dest, taskQueue>>
  BY DEF CloseBoth, Cons
<1>2. task[c] \in Task /\ Worked(task[c]) /\ f \in taken
  BY <1>1 DEF Tidy, InPool, TInv, Shape, Busy, WorkOnce
<1>3. /\ fds \in [Fd -> Opened \cup {Closed}]
      /\ task \in [Consumer -> Task \cup {<<>>}]
      /\ cons \in [Consumer -> {"count", "flag", "lock", "wait", "copy", "write",
                                "load", "store", "close", "signal", "exited"}]
  BY DEF TInv, TypeOK
<1>4. \A k \in Fd : fds[k].of # f => fds'[k] = fds[k]
  BY <1>1, <1>2, <1>3 DEF Worked
<1>5. \A d \in Consumer :
        cons'[d] \in Busy => d # c /\ cons[d] \in Busy /\ task'[d] = task[d]
  BY <1>1, <1>3 DEF Busy
<1> HIDE DEF f
<1>6. ASSUME NEW d \in Consumer, cons'[d] \in Busy
      PROVE  Worked(task[d])'
  <2>1. task[d].of # f /\ Worked(task[d]) /\ task[d] \in Task
    BY <1>1, <1>5, <1>6 DEF WorkOnce, Tidy, InPool, Busy, TInv, Shape, f
  <2>2. fds'[task[d].src] = fds[task[d].src] /\ fds'[task[d].dst] = fds[task[d].dst]
    BY <1>4, <2>1, PoolTasks DEF Worked
  <2>3. task'[d] = task[d] /\ dest' = dest
    BY <1>1, <1>5, <1>6
  <2> QED
    BY <2>1, <2>2, <2>3 DEF Worked
<1>7. \A d \in Consumer :
        cons'[d] \in {"load", "store"} => dest'[task'[d].of] = task'[d].of
  BY <1>1, <1>3 DEF Tidy, InPool
<1>8. \A i \in 1..taskCount :
        /\ fds'[taskQueue[i].src] = fds[taskQueue[i].src]
        /\ fds'[taskQueue[i].dst] = fds[taskQueue[i].dst]
  <2>1. \A i \in 1..taskCount : taskQueue[i].of # f
    BY <1>2 DEF QueueOnce
  <2> QED
    BY <1>4, <2>1, PoolTasks, QueueFields
<1>11. \A d \in Consumer : cons'[d] = "write" => Held(d)'
  <2>1. ASSUME NEW d \in Consumer, cons'[d] = "write"
        PROVE  Held(d)'
    <3>1. d # c /\ cons[d] = "write" /\ cons[d] \in Busy /\ task'[d] = task[d]
      BY <1>1, <1>3, <2>1 DEF Busy
    <3>2. task[d].of # f /\ Worked(task[d]) /\ task[d] \in Task /\ Held(d)
      BY <1>1, <3>1 DEF WorkOnce, Tidy, InPool, Busy, TInv, Shape, f
    <3>3. fds'[task[d].src] = fds[task[d].src]
      BY <1>4, <3>2, PoolTasks DEF Worked
    <3> QED
      BY <1>1, <3>1, <3>2, <3>3 DEF Held
  <2> QED
    BY <2>1
<1>9. InPool'
  BY <1>1, <1>6, <1>7, <1>8, <1>11, InPoolKept
<1>10. InProducer'
  <2>1. prod \in InHand => entry # f
    BY <1>2 DEF QueueOnce
  <2>2. prod \in SrcOpen => srcFileFd[at] \in Fd /\ fds[srcFileFd[at]].of = entry
    BY DEF TInv, Shape, Tidy, InProducer
  <2>3. prod \in DstOpen => pending \in Fd /\ fds[pending].of = entry
    BY DEF TInv, Shape, Tidy, InProducer
  <2> QED
    BY <1>1, <1>4, <2>1, <2>2, <2>3
       DEF Tidy, InProducer, SrcOpen, DstOpen, InHand
<1> QED
  BY <1>1, <1>9, <1>10 DEF Tidy, Contents

LEMMA TidyWorker ==
  ASSUME TInv, QueueOnce, WorkOnce, Tidy, [Next]_vars, NEW c \in Consumer, Worker(c)
  PROVE  Tidy'
<1> USE DEF Cons, Busy, SrcOpen, DstOpen
<1>1. CASE TestCount(c) \/ TestFlag(c) \/ TakeWaits(c)
  BY <1>1, TidyElse DEF TestCount, TestFlag, TakeWaits, TInv, TypeOK
<1>2. CASE CopyEnds(c) \/ WriteFails(c)
  BY <1>2, TidyElse DEF CopyEnds, WriteFails, TInv, TypeOK
<1>3. CASE LoadTotal(c) \/ StoreTotal(c)
  BY <1>3, TidyElse DEF LoadTotal, StoreTotal, TInv, TypeOK
<1>4. CASE SignalProducer(c)
  BY <1>4, TidyElse DEF SignalProducer, TInv, TypeOK
<1> QED
  BY <1>1, <1>2, <1>3, <1>4, TidyTake, TidyReadChunk, TidyWriteChunk,
     TidyCloseBoth DEF Worker

LEMMA TidyNext ==
  ASSUME TInv, QueueOnce, WorkOnce, Tidy, ~ stray', [Next]_vars
  PROVE  Tidy'
<1>1. CASE OpenFails
  BY <1>1, TidyOpenFails, TidyWalk DEF OpenFails
<1>2. CASE ~ OpenFails
  BY <1>2, TidyWalk, TidyOpenSrc, TidyOpenDst, TidyPut, TidyWorker
     DEF Next, Producer, Entry
<1> QED
  BY <1>1, <1>2

\* A descriptor closed by mistake stays a mistake.
LEMMA StrayStays ==
  ASSUME TInv, [Next]_vars, ~ stray'
  PROVE  ~ stray
BY DEF TInv, TypeOK, Next, Producer, Worker, OpenDir, OpenDirFails, EndOfDir,
   Read, ReadDir, ReadRegular, ReadOther, FifoFails, LockForFile, OpenSrc,
   OpenDst, OpenFails, PutWaits, Relock, Put, SignalConsumer, SetDone,
   Broadcast, Cons, TestCount, TestFlag, TakeWaits, Take, ReadChunk, CopyEnds,
   WriteChunk, WriteFails, LoadTotal, StoreTotal, CloseBoth, SignalProducer, MainReturns,
   HandleSignal, Stop, vars, fileVars

LEMMA TidyAlways ==
  Spec => [](TInv /\ QueueOnce /\ WorkOnce /\ (~ stray => Tidy))
<1>1. TInv /\ QueueOnce /\ WorkOnce /\ (~ stray => Tidy) /\ [Next]_vars
        => (~ stray => Tidy)'
  BY StrayStays, TidyNext
<1> QED
  BY <1>1, OnceAlways, TidyInit, PTL DEF Spec

\* As long as no descriptor was closed by mistake, whatever numbers the
\* descriptors of other files reuse, a copy holds nothing or the content of
\* its own file.
THEOREM CopiesAreRight ==
  Spec => []ContentRight
<1>1. (~ stray => Tidy) => ContentRight
  BY DEF Tidy, Contents, ContentRight
<1> QED
  BY <1>1, TidyAlways, PTL

-----------------------------------------------------------------------------
(* totalBytes. *)

\* The copies that were written and whose writer has added its bytes, or lost
\* them to another one.
Counted ==
  {f \in Written : \A c \in Consumer :
                     cons[c] \in {"load", "store"} => task[c].of # f}

TotalBound ==
  /\ totalBytes <= Cardinality(Counted)
  /\ \A c \in Consumer : cons[c] = "store" => reg[c] <= Cardinality(Counted)

LEMMA CountedFinite ==
  IsFiniteSet(Written) /\ IsFiniteSet(Counted) /\ Cardinality(Counted) \in Nat
<1>1. Written \subseteq Regular /\ Counted \subseteq Regular
  BY DEF Written, Counted
<1> QED
  BY <1>1, TreeAssumption, FS_Subset, FS_CardinalityType

\* A step that makes Counted no smaller and does not count.
LEMMA BoundKept ==
  ASSUME TInv, TotalBound, Counted \subseteq Counted', UNCHANGED totalBytes,
         \A c \in Consumer :
           cons'[c] = "store" =>
             \/ cons[c] = "store" /\ reg'[c] = reg[c]
             \/ reg'[c] = totalBytes
  PROVE  TotalBound'
<1>1. Counted' \subseteq Regular
  BY DEF Counted, Written
<1>2. IsFiniteSet(Counted')
  BY <1>1, TreeAssumption, FS_Subset
<1>3. /\ Cardinality(Counted) <= Cardinality(Counted')
      /\ Cardinality(Counted) \in Nat /\ Cardinality(Counted') \in Nat
  BY <1>2, CountedFinite, FS_Subset, FS_CardinalityType
<1>4. totalBytes \in Nat /\ \A c \in Consumer : reg[c] \in Nat
  BY DEF TInv, TypeOK
<1> QED
  BY <1>3, <1>4 DEF TotalBound

LEMMA BoundInit ==
  Init => TotalBound
BY CountedFinite DEF Init, TotalBound

LEMMA BoundWriteChunk ==
  ASSUME TInv, QueueOnce, WorkOnce, Tidy, TotalBound,
         NEW c \in Consumer, WriteChunk(c)
  PROVE  TotalBound'
<1>1. /\ cons[c] = "write"
      /\ \E to \in {"load", "close"} : cons' = [cons EXCEPT ![c] = to]
      /\ UNCHANGED <<task, reg, totalBytes>>
      /\ dest' = [dest EXCEPT ![task[c].of] = task[c].of]
  BY TidyWriteChunk DEF WriteChunk, Cons
<1>2. task[c].of \in Regular /\ dest[task[c].of] = Empty
  <2>1. task[c] \in Task /\ Held(c)
    BY <1>1 DEF Tidy, InPool, TInv, Shape, Busy
  <2> QED
    BY <2>1, PoolTasks DEF Held
<1>3. dest \in [Regular -> Regular \cup {Absent, Empty, Mixed}]
      /\ cons \in [Consumer -> {"count", "flag", "lock", "wait", "copy", "write",
                                "load", "store", "close", "signal", "exited"}]
  BY DEF TInv, TypeOK
<1>4. ASSUME NEW f \in Counted
      PROVE  f \in Counted'
  <2>1. f \in Regular /\ dest[f] \notin {Absent, Empty} /\ f # task[c].of
    BY <1>2, <1>4 DEF Counted, Written
  <2>2. f \in Written'
    BY <1>1, <1>2, <1>3, <2>1 DEF Written
  <2>3. \A d \in Consumer : cons'[d] \in {"load", "store"} => task'[d].of # f
    BY <1>1, <1>3, <1>4, <2>1 DEF Counted
  <2> QED
    BY <2>2, <2>3 DEF Counted
<1>5. \A d \in Consumer : cons'[d] = "store" => cons[d] = "store"
  BY <1>1, <1>3
<1>6. Counted \subseteq Counted'
  BY <1>4
<1> QED
  BY <1>1, <1>5, <1>6, BoundKept

LEMMA BoundStoreTotal ==
  ASSUME TInv, WorkOnce, Tidy, TotalBound, NEW c \in Consumer, StoreTotal(c)
  PROVE  TotalBound'
<1> DEFINE f == task[c].of
<1>1. /\ cons[c] = "store" /\ cons' = [cons EXCEPT ![c] = "copy"]
      /\ totalBytes' = reg[c] + 1
      /\ reg' = [reg EXCEPT ![c] = 0]
      /\ UNCHANGED <<task, dest>>
  BY DEF StoreTotal, Cons
<1>2. /\ reg \in [Consumer -> Nat]
      /\ cons \in [Consumer -> {"count", "flag", "lock", "wait", "copy", "write",
                                "load", "store", "close", "signal", "exited"}]
  BY DEF TInv, TypeOK
<1>3. f \in Regular /\ dest[f] = f
  BY <1>1, PoolTasks DEF Tidy, InPool, TInv, Shape, Busy
<1>4. f \in Written /\ Written' = Written
  BY <1>1, <1>3, PoolAssumption DEF Written
<1>5. f \notin Counted
  BY <1>1 DEF Counted
<1>6. \A d \in Consumer \ {c} : cons[d] \in {"load", "store"} => task[d].of # f
  BY <1>1 DEF WorkOnce, Busy
<1> HIDE DEF f
<1>7. Counted' = Counted \cup {f}
  <2>1. ASSUME NEW g \in Counted'
        PROVE  g \in Counted \cup {f}
    BY <1>1, <1>2, <1>4, <2>1 DEF Counted, f
  <2>2. f \in Counted'
    BY <1>1, <1>2, <1>4, <1>6 DEF Counted
  <2>3. ASSUME NEW g \in Counted
        PROVE  g \in Counted'
    BY <1>1, <1>2, <1>4, <2>3 DEF Counted
  <2> QED
    BY <2>1, <2>2, <2>3
<1>8. Cardinality(Counted') = Cardinality(Counted) + 1
  BY <1>5, <1>7, CountedFinite, FS_AddElement
<1>9. reg[c] <= Cardinality(Counted)
  BY <1>1 DEF TotalBound
<1>10. \A d \in Consumer : cons'[d] = "store" => d # c /\ cons[d] = "store"
  BY <1>1, <1>2
<1> QED
  BY <1>1, <1>2, <1>8, <1>9, <1>10, CountedFinite DEF TotalBound

\* The steps that do not write and do not count.
LEMMA BoundElse ==
  ASSUME TInv, QueueOnce, Tidy, TotalBound, [Next]_vars,
         \A c \in Consumer : ~ WriteChunk(c) /\ ~ StoreTotal(c)
  PROVE  TotalBound'
<1>1. \A f \in Written : f \in Written'
  <2>1. CASE \E n \in Fd : OpenDst(n)
    <3>1. prod = "dst" /\ dest' = [dest EXCEPT ![entry] = Empty]
      BY <2>1 DEF OpenDst, Prod
    <3>2. dest[entry] = Absent
      BY <3>1 DEF Tidy, Contents
    <3> QED
      BY <3>1, <3>2 DEF Written, TInv, TypeOK
  <2>2. CASE ~ \E n \in Fd : OpenDst(n)
    <3>1. UNCHANGED dest
      BY <2>2 DEF Next, Producer, Worker, OpenDir, OpenDirFails, EndOfDir, Read,
         ReadDir, ReadRegular, ReadOther, FifoFails, LockForFile, OpenSrc,
         OpenFails, PutWaits, Relock, Put, SignalConsumer, SetDone, Broadcast,
         TestCount, TestFlag, TakeWaits, Take, ReadChunk, CopyEnds, WriteFails,
         LoadTotal, CloseBoth,
         SignalProducer, MainReturns, HandleSignal, Stop, vars, fileVars
    <3> QED
      BY <3>1 DEF Written
  <2> QED
    BY <2>1, <2>2
<1>2. /\ UNCHANGED totalBytes
      /\ \A c \in Consumer :
           /\ cons'[c] \in {"load", "store"} =>
                cons[c] \in {"load", "store"} /\ task'[c] = task[c]
           /\ cons'[c] = "store" =>
                \/ cons[c] = "store" /\ reg'[c] = reg[c]
                \/ reg'[c] = totalBytes
  <2> USE DEF TInv, TypeOK, Cons
  <2>1. CASE UNCHANGED <<cons, task, reg, totalBytes>>
    BY <2>1
  <2>2. CASE SignalConsumer \/ Broadcast
    BY <2>2 DEF SignalConsumer, Broadcast, Waiting, fileVars
  <2>3. ASSUME NEW c \in Consumer, TestCount(c) \/ TestFlag(c) \/ TakeWaits(c)
        PROVE  <1>2!:
    BY <2>3 DEF TestCount, TestFlag, TakeWaits
  <2>4. ASSUME NEW c \in Consumer, Take(c) \/ CopyEnds(c) \/ LoadTotal(c)
        PROVE  <1>2!:
    BY <2>4 DEF Take, CopyEnds, LoadTotal
  <2>6. ASSUME NEW c \in Consumer, ReadChunk(c) \/ WriteFails(c)
        PROVE  <1>2!:
    BY <2>6 DEF ReadChunk, WriteFails
  <2>5. ASSUME NEW c \in Consumer, CloseBoth(c) \/ SignalProducer(c)
        PROVE  <1>2!:
    BY <2>5 DEF CloseBoth, SignalProducer
  <2> QED
    BY <2>1, <2>2, <2>3, <2>4, <2>5, <2>6 DEF Next, Producer, Worker,
       OpenDir, OpenDirFails, EndOfDir, Read, ReadDir, ReadRegular, ReadOther, FifoFails,
       LockForFile, OpenSrc, OpenDst, OpenFails, PutWaits, Relock, Put,
       SetDone, MainReturns, HandleSignal, Stop, vars, consVars, fileVars
<1>3. Counted \subseteq Counted'
  BY <1>1, <1>2 DEF Counted
<1> QED
  BY <1>2, <1>3, BoundKept

\* Consumers lose bytes when they add to totalBytes at the same time, but the
\* total never exceeds what they wrote.
THEOREM TotalNeverTooLarge ==
  Spec => []NeverOvercounts
<1>1. /\ TInv /\ QueueOnce /\ WorkOnce /\ (~ stray => Tidy) /\ [Next]_vars
      /\ (~ stray => TotalBound)
      => (~ stray => TotalBound)'
  BY StrayStays, BoundWriteChunk, BoundStoreTotal, BoundElse
<1>2. Init => (~ stray => TotalBound)
  BY BoundInit
<1>3. TInv /\ (~ stray => TotalBound) => NeverOvercounts
  <2>1. Counted \subseteq Written
    BY DEF Counted
  <2>2. /\ Cardinality(Counted) <= Cardinality(Written)
        /\ Cardinality(Counted) \in Nat /\ Cardinality(Written) \in Nat
    BY <2>1, CountedFinite, FS_Subset, FS_CardinalityType
  <2> QED
    BY <2>2 DEF TotalBound, NeverOvercounts, TInv, TypeOK
<1> QED
  BY <1>1, <1>2, <1>3, TidyAlways, PTL DEF Spec
=============================================================================
