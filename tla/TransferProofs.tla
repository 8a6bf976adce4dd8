---------------------------- MODULE TransferProofs ----------------------------
(***************************************************************************)
(* Proofs about Transfer: for any number of connections, any sizes of      *)
(* files and buffers.                                                      *)
(***************************************************************************)
EXTENDS Transfer, TLAPS, SequenceTheorems

-----------------------------------------------------------------------------
(* What a connection carries. *)

\* k units of content.
Row(q, k) == Len(q) = k /\ \A i \in 1..k : q[i].kind = "content"

\* k units of content and the next packet.
RowThen(q, k, size) ==
  /\ Len(q) = k + 1
  /\ \A i \in 1..k : q[i].kind = "content"
  /\ q[k + 1].kind = "message" /\ q[k + 1].size = size

\* A response and k units of content.
ThenRow(q, what, size, k) ==
  /\ Len(q) = k + 1
  /\ q[1].kind = "message" /\ q[1].what = what /\ q[1].size = size
  /\ \A i \in 2..(k + 1) : q[i].kind = "content"

\* No response is under way, or only one.
NoMessage(q) == \A i \in 1..Len(q) : q[i].kind = "content"
OneMessage(q) ==
  \A i, j \in 1..Len(q) : q[i].kind = "message" /\ q[j].kind = "message" => i = j

-----------------------------------------------------------------------------
(* The framing of a connection whose files keep the size that was          *)
(* announced: every situation in which its two ends can be.                *)

\* Nothing is under way, and the client has nothing more to send.
Quiet(c) ==
  /\ spc[c] = "wait"
  /\ cpc[c] = "ready" \/ (cpc[c] = "send" /\ cpos[c] = csize[c])
  /\ Row(toServer[c], 0) /\ Row(toClient[c], 0)

\* A packet is under way, or the session works on it.
Requested(c) ==
  /\ cpc[c] = "answer"
  /\ Row(toClient[c], 0)
  /\ \/ spc[c] = "wait" /\ RowThen(toServer[c], 0, csize[c])
     \/ /\ spc[c] \in {"lock", "reply"}
        /\ Row(toServer[c], 0)
        /\ spc[c] = "lock" => ssize[c] = csize[c]
        /\ spc[c] = "reply" /\ answer[c] # "newer" => ssize[c] = csize[c]
        /\ spc[c] = "reply" /\ answer[c] = "newer" => ssize[c] = Len(file)

\* The session has nothing to add to its response, or has asked for no bytes.
Agreed(c) ==
  /\ spc[c] = "wait" /\ cpc[c] = "answer"
  /\ Row(toServer[c], 0)
  /\ \E n \in Size : \/ ThenRow(toClient[c], "same", n, 0)
                     \/ ThenRow(toClient[c], "ask", n, 0) /\ csize[c] = 0

\* The session sends the file; at its end it may be slower than the client.
Download(c) ==
  /\ spc[c] = "send"
  /\ ssize[c] = Len(file) /\ spos[c] <= ssize[c]
  /\ \/ /\ cpc[c] = "answer" /\ Row(toServer[c], 0)
        /\ ThenRow(toClient[c], "newer", ssize[c], spos[c])
     \/ /\ cpc[c] = "get" /\ csize[c] = ssize[c] /\ cpos[c] <= spos[c]
        /\ Row(toServer[c], 0)
        /\ Row(toClient[c], spos[c] - cpos[c])
     \/ /\ spos[c] = ssize[c] /\ Row(toClient[c], 0)
        /\ \/ cpc[c] = "ready" /\ Row(toServer[c], 0)
           \/ cpc[c] = "answer" /\ RowThen(toServer[c], 0, csize[c])

\* It has sent all of it.
Downloaded(c) ==
  /\ spc[c] = "wait"
  /\ Row(toServer[c], 0)
  /\ \/ cpc[c] = "answer" /\ \E n \in Size : ThenRow(toClient[c], "newer", n, n)
     \/ /\ cpc[c] = "get" /\ cpos[c] <= csize[c]
        /\ Row(toClient[c], csize[c] - cpos[c])

\* The session has asked for the file.
Upload(c) ==
  /\ (spc[c] = "open" /\ spos[c] = 0) \/ spc[c] = "get"
  /\ spos[c] <= ssize[c]
  /\ \/ /\ cpc[c] = "answer" /\ csize[c] = ssize[c] /\ spos[c] = 0
        /\ Row(toServer[c], 0)
        /\ \E n \in Size : ThenRow(toClient[c], "ask", n, 0)
     \/ /\ cpc[c] = "send" /\ csize[c] = ssize[c]
        /\ spos[c] <= cpos[c] /\ cpos[c] <= csize[c]
        /\ Row(toServer[c], cpos[c] - spos[c]) /\ Row(toClient[c], 0)
     \/ /\ cpc[c] = "ready"
        /\ Row(toServer[c], ssize[c] - spos[c]) /\ Row(toClient[c], 0)
     \/ /\ cpc[c] = "answer"
        /\ RowThen(toServer[c], ssize[c] - spos[c], csize[c])
        /\ Row(toClient[c], 0)

\* The client has gone; the session reads what it has left.
ClientLeft(c) ==
  /\ cpc[c] = "gone"
  /\ \/ spc[c] = "wait" /\ Row(toServer[c], 0)
     \/ /\ spc[c] \in {"wait", "send"}
        /\ \E n \in Size : RowThen(toServer[c], 0, n)
     \/ spc[c] \in {"lock", "reply", "send"} /\ Row(toServer[c], 0)
     \/ /\ (spc[c] = "open" /\ spos[c] = 0) \/ spc[c] = "get"
        /\ \/ \E k \in 0..(ssize[c] - spos[c]) : Row(toServer[c], k)
           \/ \E n \in Size : RowThen(toServer[c], ssize[c] - spos[c], n)
              /\ spos[c] <= ssize[c]
     \/ spc[c] = "over"
  /\ spc[c] = "send" \/ (spc[c] = "reply" /\ answer[c] = "newer") =>
       ssize[c] = Len(file)

\* The server has gone; the client reads what it has left.
ServerLeft(c) ==
  /\ spc[c] = "over"
  /\ \/ cpc[c] \in {"ready", "send", "answer"} /\ Row(toClient[c], 0)
     \/ /\ cpc[c] = "answer"
        /\ \E n \in Size : ThenRow(toClient[c], "same", n, 0)
                           \/ ThenRow(toClient[c], "ask", n, 0)
     \/ /\ cpc[c] = "answer"
        /\ \E n \in Size : \E k \in 0..n : ThenRow(toClient[c], "newer", n, k)
     \/ cpc[c] = "get" /\ \E k \in 0..(csize[c] - cpos[c]) : Row(toClient[c], k)
     \/ cpc[c] \in {"spin", "gone"}

InStepAt(c) ==
  /\ \/ Quiet(c) \/ Requested(c) \/ Agreed(c) \/ Download(c) \/ Downloaded(c)
     \/ Upload(c) \/ ClientLeft(c) \/ ServerLeft(c)
  /\ cpc[c] \in {"answer", "send"} => Len(local[c]) = csize[c]
  /\ spc[c] # "over" => server = "up"

InStep == \A c \in Conn \ resized : InStepAt(c)

-----------------------------------------------------------------------------
(* Every connection, also one that is out of step. *)

\* A client has one request at most, which is under way, being worked on, or
\* answered; only then is there a message on the connection.
OneRequest(c) ==
  /\ cpc[c] \in {"ready", "send", "get"} =>
       /\ NoMessage(toServer[c]) /\ NoMessage(toClient[c])
       /\ spc[c] \notin {"lock", "reply"}
  /\ cpc[c] = "answer" =>
       \/ NoMessage(toServer[c]) /\ NoMessage(toClient[c])
       \/ /\ spc[c] \notin {"lock", "reply"}
          /\ \/ OneMessage(toServer[c]) /\ NoMessage(toClient[c])
             \/ NoMessage(toServer[c]) /\ OneMessage(toClient[c])

\* The file as it was announced has been announced, is on its way, or is behind
\* content that the client will take for the response.
Promised(c) ==
  \/ spc[c] = "reply" /\ answer[c] = "newer" /\ ssize[c] = Len(file)
  \/ toClient[c] # <<>> /\ toClient[c][1].kind = "content"
  \/ /\ toClient[c] # <<>>
     /\ toClient[c][1].kind = "message"
     /\ toClient[c][1].what = "newer" /\ toClient[c][1].size = Len(file)
     /\ Len(toClient[c]) <= Len(file) + 1
     /\ \A i \in 2..Len(toClient[c]) : toClient[c][i] = file[i - 1]
     /\ spc[c] = "send" => spos[c] = Len(toClient[c]) - 1
  \/ spc[c] = "over" /\ toClient[c] = <<>>

\* It has arrived up to cpos, and what follows is under way.
Arriving(c) ==
  /\ csize[c] = Len(file)
  /\ Len(local[c]) = cpos[c]
  /\ cpos[c] + Len(toClient[c]) <= Len(file)
  /\ \A i \in 1..cpos[c] : local[c][i] = file[i]
  /\ \A i \in 1..Len(toClient[c]) : toClient[c][i] = file[cpos[c] + i]
  /\ spc[c] = "send" => spos[c] = cpos[c] + Len(toClient[c])

Steady(c) ==
  /\ cpc[c] \notin {"ready", "send"}
  /\ cpc[c] = "answer" => Promised(c)
  /\ cpc[c] = "get" => Arriving(c)

Requests == \A c \in Conn : OneRequest(c)
SteadyFile == \A c \in steady : Steady(c)

IInv == TypeOK /\ InStep /\ Requests /\ SteadyFile

-----------------------------------------------------------------------------
(* Reading and writing the rows that occur. *)

\* A row of nothing is the empty channel.
LEMMA RowOfNone ==
  ASSUME NEW q \in Seq(Unit)
  PROVE  Row(q, 0) <=> q = <<>>
  BY SMT DEF Row

\* Reading a unit of content.
LEMMA RowRead ==
  ASSUME NEW q \in Seq(Unit), NEW k \in Nat, Row(q, k), q # <<>>
  PROVE  k > 0 /\ Head(q).kind = "content" /\ Row(Tail(q), k - 1)
  BY SMT DEF Row

\* Writing one.
LEMMA RowWrite ==
  ASSUME NEW q \in Seq(Unit), NEW k \in Nat, Row(q, k),
         NEW u \in Unit, u.kind = "content"
  PROVE  Row(Append(q, u), k + 1)
  BY SMT DEF Row

\* Writing the next packet behind content.
LEMMA RowThenWrite ==
  ASSUME NEW q \in Seq(Unit), NEW k \in Nat, Row(q, k), NEW n \in Size
  PROVE  RowThen(Append(q, Message("sync", n)), k, n)
  BY SMT DEF Row, RowThen, Message, Unit

\* Reading up to it.
LEMMA RowThenRead ==
  ASSUME NEW q \in Seq(Unit), NEW k \in Nat, NEW n \in Size, RowThen(q, k, n)
  PROVE  /\ q # <<>>
         /\ k > 0 => Head(q).kind = "content" /\ RowThen(Tail(q), k - 1, n)
         /\ k = 0 => /\ Head(q).kind = "message" /\ Head(q).size = n
                     /\ Row(Tail(q), 0)
  BY SMT DEF Row, RowThen

\* Writing a response.
LEMMA ThenRowStart ==
  ASSUME NEW w \in {"same", "ask", "newer"}, NEW n \in Size,
         NEW q \in Seq(Unit), Row(q, 0)
  PROVE  ThenRow(Append(q, Message(w, n)), w, n, 0)
  BY SMT DEF Row, ThenRow, Message, Unit

\* Writing content behind it.
LEMMA ThenRowWrite ==
  ASSUME NEW q \in Seq(Unit), NEW w, NEW n \in Size, NEW k \in Nat,
         ThenRow(q, w, n, k), NEW u \in Unit, u.kind = "content"
  PROVE  ThenRow(Append(q, u), w, n, k + 1)
  BY SMT DEF ThenRow

\* Reading it.
LEMMA ThenRowRead ==
  ASSUME NEW q \in Seq(Unit), NEW w, NEW n \in Size, NEW k \in Nat,
         ThenRow(q, w, n, k)
  PROVE  /\ q # <<>>
         /\ Head(q).kind = "message" /\ Head(q).what = w /\ Head(q).size = n
         /\ Row(Tail(q), k)
  BY SMT DEF Row, ThenRow

-----------------------------------------------------------------------------
(* Files and channels. *)

\* What a unit carries.
LEMMA UnitFields ==
  ASSUME NEW u \in Unit
  PROVE  /\ u.kind = "content" => \E i \in Size : u = Content(i)
         /\ u.kind = "message" => u.what \in {"sync", "same", "ask", "newer"}
                                 /\ u.size \in Size
         /\ u.kind \in {"content", "message"}
  BY DEF Unit, Content, Message

\* And what units there are.
LEMMA Units ==
  /\ \A i \in Size : Content(i) \in Unit
  /\ \A w \in {"sync", "same", "ask", "newer"}, n \in Size : Message(w, n) \in Unit
  BY DEF Unit

\* A unit of content that is written at the end or inside of a file, and the
\* size of the file afterwards.
LEMMA WriteAtIsFile ==
  ASSUME NEW f \in File, NEW offset \in Size, offset < MaxSize,
         NEW i \in Size
  PROVE  WriteAt(f, offset, Content(i)) \in File
<1>1. PICK n \in Size : f \in [1..n -> {Content(j) : j \in Size}]
  BY DEF File
<1>2. Len(f) = n
  BY <1>1 DEF Size
<1> DEFINE m == IF offset < n THEN n ELSE offset + 1
<1>3. m \in Size /\ 0 \in Size
  BY TransferAssumption DEF Size
<1>4. WriteAt(f, offset, Content(i)) \in [1..m -> {Content(j) : j \in Size}]
  BY <1>1, <1>2, <1>3 DEF WriteAt, Size
<1> QED
  BY <1>3, <1>4 DEF File

\* Every unit of a file is content, and it has at most MaxSize of them.
LEMMA FileUnits ==
  ASSUME NEW f \in File
  PROVE  /\ Len(f) \in Size
         /\ f \in Seq(Unit)
         /\ \A i \in 1..Len(f) : \E j \in Size : f[i] = Content(j)
         /\ \A i \in 1..Len(f) : f[i] \in Unit /\ f[i].kind = "content"
<1>1. PICK n \in Size : f \in [1..n -> {Content(j) : j \in Size}]
  BY DEF File
<1>2. Len(f) = n
  BY <1>1 DEF Size
<1>3. \A i \in 1..Len(f) : \E j \in Size : f[i] = Content(j)
  BY <1>1, <1>2
<1>4. \A i \in 1..Len(f) : f[i] \in Unit /\ f[i].kind = "content"
  <2>1. \A j \in Size : Content(j) \in Unit /\ Content(j).kind = "content"
    BY Units DEF Content
  <2> QED
    BY <1>3, <2>1
<1>5. f \in [1..n -> Unit]
  BY <1>1, <1>2, <1>4
<1> QED
  BY <1>1, <1>2, <1>3, <1>4, <1>5, SMT DEF Size

\* The file as a user saves it, and the empty file.
LEMMA SavedIsFile ==
  /\ \A n \in Size : Saved(n) \in File
  /\ <<>> \in File
<1>1. \A n \in Size : Saved(n) \in File
  BY TransferAssumption DEF Saved, File, Size
<1>2. 0 \in Size /\ Saved(0) = <<>>
  BY TransferAssumption DEF Saved, Size
<1> QED
  BY <1>1, <1>2

\* Writing to a channel and reading from one leave a channel.
LEMMA ChannelStep ==
  ASSUME NEW q \in Channel
  PROVE  /\ q \in Seq(Unit)
         /\ \A u \in Unit : Len(q) < Buffer => Append(q, u) \in Channel
         /\ q # <<>> => Head(q) \in Unit /\ Tail(q) \in Channel
<1>1. q \in Seq(Unit) /\ Len(q) \in Nat /\ Len(q) <= Buffer /\ Buffer \in Nat
  BY TransferAssumption DEF Channel
<1>2. ASSUME NEW u \in Unit, Len(q) < Buffer
      PROVE  Append(q, u) \in Channel
  <2>1. Append(q, u) \in Seq(Unit) /\ Len(Append(q, u)) = Len(q) + 1
    BY <1>1, SMT
  <2> QED
    BY <1>1, <1>2, <2>1 DEF Channel
<1>3. ASSUME q # <<>>
      PROVE  Head(q) \in Unit /\ Tail(q) \in Channel
  <2>1. /\ Head(q) \in Unit /\ Tail(q) \in Seq(Unit)
        /\ Len(Tail(q)) = Len(q) - 1
    BY <1>1, <1>3, SMT
  <2> QED
    BY <1>1, <2>1 DEF Channel
<1> QED
  BY <1>1, <1>2, <1>3

-----------------------------------------------------------------------------
(* Types. *)

LEMMA TypeInit ==
  Init => TypeOK
<1> SUFFICES ASSUME Init
             PROVE  TypeOK
  OBVIOUS
<1>1. 0 \in Size /\ <<>> \in Channel
  BY TransferAssumption DEF Size, Channel
<1> QED
  BY <1>1, SavedIsFile DEF Init, TypeOK

LEMMA TypeClient ==
  ASSUME TypeOK, NEW c \in Conn, ClientStep(c) \/ Save(c) \/ Kill(c)
  PROVE  TypeOK'
<1> USE DEF TypeOK, ServerIdle, serverVars, clientVars, history, ClientGoes
<1>1. 0 \in Size /\ local[c] \in File /\ Len(local[c]) \in Size
  <2>1. 0 \in Size
    BY TransferAssumption DEF Size
  <2>2. local[c] \in File
    OBVIOUS
  <2> QED
    BY <2>1, <2>2, FileUnits
<1>2. toServer[c] \in Channel /\ toClient[c] \in Channel
  OBVIOUS
<1>3. CASE Offer(c)
  BY <1>1, <1>2, <1>3, ChannelStep, Units DEF Offer, Write
<1>4. CASE Answer(c)
  <2>1. toClient[c] # <<>> /\ toClient' \in [Conn -> Channel]
    BY <1>2, <1>4, ChannelStep DEF Answer, Read
  <2>2. /\ cpc' \in [Conn -> {"ready", "answer", "send", "get", "spin", "gone", "lost"}]
        /\ csize' \in [Conn -> Size] /\ cpos' \in [Conn -> Size]
        /\ local' \in [Conn -> File]
    <3>1. Head(toClient[c]) \in Unit
      BY <1>2, <2>1, ChannelStep
    <3>2. Head(toClient[c]).kind = "message" => Head(toClient[c]).size \in Size
      BY <3>1, UnitFields
    <3> QED
      BY <1>1, <1>4, <3>2, SavedIsFile DEF Answer
  <2> QED
    BY <1>4, <2>1, <2>2 DEF Answer
<1>5. CASE SendUnit(c)
  <2>1. cpos[c] + 1 \in 1..Len(local[c]) /\ cpos[c] + 1 \in Size
    BY <1>1, <1>5, TransferAssumption DEF SendUnit, Size
  <2>2. local[c][cpos[c] + 1] \in Unit
    BY <1>1, <2>1, FileUnits
  <2> QED
    BY <1>2, <1>5, <2>1, <2>2, ChannelStep DEF SendUnit, Write
<1>6. CASE SendEnds(c) \/ GetEnds(c) \/ GetSpins(c) \/ ClientExits(c) \/ Kill(c)
  BY <1>1, <1>6 DEF SendEnds, GetEnds, GetSpins, ClientExits, Kill
<1>7. CASE GetUnit(c)
  <2>1. toClient[c] # <<>> /\ toClient' \in [Conn -> Channel]
    BY <1>2, <1>7, ChannelStep DEF GetUnit, Read
  <2>2. /\ cpos[c] \in Size /\ csize[c] \in Size /\ cpos[c] < csize[c]
        /\ cpos[c] + 1 \in Size /\ cpos[c] < MaxSize
    BY <1>7, TransferAssumption DEF GetUnit, Size
  <2>3. CASE Head(toClient[c]).kind = "content"
    <3>1. WriteAt(local[c], cpos[c], Head(toClient[c])) \in File
      BY <1>2, <2>1, <2>2, <2>3, ChannelStep, UnitFields, WriteAtIsFile
    <3> QED
      BY <1>7, <2>1, <2>2, <2>3, <3>1 DEF GetUnit
  <2>4. CASE Head(toClient[c]).kind = "message"
    BY <1>1, <1>7, <2>1, <2>4 DEF GetUnit
  <2> QED
    BY <1>7, <2>3, <2>4 DEF GetUnit
<1>8. CASE Save(c)
  BY <1>8, SavedIsFile DEF Save
<1> QED
  BY <1>3, <1>4, <1>5, <1>6, <1>7, <1>8 DEF ClientStep

LEMMA TypeSession ==
  ASSUME TypeOK, NEW c \in Conn, Session(c)
  PROVE  TypeOK'
<1> USE DEF TypeOK, ClientIdle, clientVars, history, Goes, At
<1>1. 0 \in Size /\ <<>> \in Channel
  BY TransferAssumption DEF Size, Channel
<1>2. toServer[c] \in Channel /\ toClient[c] \in Channel /\ file \in File
  OBVIOUS
<1>3. Len(file) \in Size
  BY <1>2, FileUnits
<1>4. ASSUME NEW u \in Unit
      PROVE  Len(toClient[c]) < Buffer =>
               [toClient EXCEPT ![c] = Append(@, u)] \in [Conn -> Channel]
  BY <1>2, ChannelStep
<1>5. ASSUME Read(toServer, c)
      PROVE  /\ toServer[c] # <<>> /\ toServer' \in [Conn -> Channel]
             /\ Head(toServer[c]) \in Unit
  BY <1>2, <1>5, ChannelStep DEF Read
<1>6. ASSUME NEW f, f \in File, Puts(f)
      PROVE  file' \in File /\ resized' \subseteq Conn /\ steady' \subseteq Conn
  BY <1>6 DEF Puts, Reading
<1>7. CASE Request(c)
  <2>1. Head(toServer[c]).kind = "message" => Head(toServer[c]).size \in Size
    BY <1>5, <1>7, UnitFields DEF Request
  <2> QED
    BY <1>1, <1>5, <1>7, <2>1 DEF Request
<1>8. CASE Decide(c)
  BY <1>1, <1>3, <1>8 DEF Decide
<1>9. CASE Reply(c)
  <2>1. Message(answer[c], ssize[c]) \in Unit
    BY Units
  <2>2. toClient' \in [Conn -> Channel]
    BY <1>4, <1>9, <2>1, ZenonT(40) DEF Reply, SendTo, Write
  <2> QED
    BY <1>1, <1>9, <2>2, ZenonT(40) DEF Reply
<1>10. CASE ReplyUnit(c)
  <2>1. spos[c] + 1 \in 1..Len(file) /\ spos[c] + 1 \in Size
    BY <1>3, <1>10, TransferAssumption DEF ReplyUnit, Size
  <2>2. file[spos[c] + 1] \in Unit
    BY <1>2, <2>1, FileUnits
  <2>3. toClient' \in [Conn -> Channel]
    BY <1>4, <1>10, <2>2, ZenonT(40) DEF ReplyUnit, SendTo, Write
  <2> QED
    BY <1>10, <2>1, <2>3 DEF ReplyUnit
<1>11. CASE ReplyEnds(c) \/ ReceiveEnds(c) \/ Disconnect(c)
  BY <1>1, <1>11 DEF ReplyEnds, ReceiveEnds, Disconnect
<1>12. CASE Open(c)
  <2>1. file' \in File /\ resized' \subseteq Conn /\ steady' \subseteq Conn
    BY <1>6, <1>12, SavedIsFile DEF Open
  <2> QED
    BY <1>1, <1>12, <2>1 DEF Open
<1>13. CASE Receive(c)
  <2>1. /\ spos[c] \in Size /\ spos[c] < MaxSize /\ spos[c] + 1 \in Size
    BY <1>13, TransferAssumption DEF Receive, Size
  <2>2. CASE Head(toServer[c]).kind = "content"
    <3>1. Head(toServer[c]) \in Unit
      BY <1>5, <1>13 DEF Receive
    <3>2. WriteAt(file, spos[c], Head(toServer[c])) \in File
      BY <1>2, <2>1, <2>2, <3>1, UnitFields, WriteAtIsFile
    <3>3. Puts(WriteAt(file, spos[c], Head(toServer[c])))
      BY <1>13, <2>2 DEF Receive
    <3>4. file' \in File /\ resized' \subseteq Conn /\ steady' \subseteq Conn
      BY <1>6, <3>2, <3>3
    <3> QED
      BY <1>5, <1>13, <2>1, <2>2, <3>4 DEF Receive
  <2>3. CASE Head(toServer[c]).kind = "message"
    BY <1>1, <1>5, <1>13, <2>3 DEF Receive
  <2> QED
    BY <1>13, <2>2, <2>3 DEF Receive
<1>14. CASE ServerExits(c)
  BY <1>1, <1>14 DEF ServerExits
<1> QED
  BY <1>7, <1>8, <1>9, <1>10, <1>11, <1>12, <1>13, <1>14, Session(c) DEF Session

LEMMA TypeStutter ==
  TypeOK /\ UNCHANGED vars => TypeOK'
  BY DEF TypeOK, vars, serverVars, clientVars, history

-----------------------------------------------------------------------------
(* The framing. *)

\* The file that is being sent to d still has the size that was announced.
SizeKept(d) == d \in Reading => ssize[d] = Len(file)

\* The steps of others: they may change the file, but not its size while d
\* gets it.
LEMMA Elsewhere ==
  ASSUME NEW d \in Conn, InStepAt(d), SizeKept(d)',
         server' = server, local'[d] = local[d],
         toServer'[d] = toServer[d], toClient'[d] = toClient[d],
         spc'[d] = spc[d], answer'[d] = answer[d],
         ssize'[d] = ssize[d], spos'[d] = spos[d],
         cpc'[d] = cpc[d], csize'[d] = csize[d], cpos'[d] = cpos[d]
  PROVE  InStepAt(d)'
<1> USE DEF InStepAt, SizeKept, Reading
<1>1. CASE Quiet(d) \/ Agreed(d) \/ Downloaded(d) \/ Upload(d)
  BY <1>1 DEF Quiet, Agreed, Downloaded, Upload
<1>2. CASE Requested(d)
  BY <1>2 DEF Requested
<1>3. CASE Download(d)
  BY <1>3 DEF Download
<1>4. CASE ClientLeft(d)
  BY <1>4 DEF ClientLeft
<1>5. CASE ServerLeft(d)
  BY <1>5 DEF ServerLeft
<1> QED
  BY <1>1, <1>2, <1>3, <1>4, <1>5

\* As long as the file does not change, that is so.
LEMMA SizeIsKept ==
  ASSUME NEW d \in Conn, InStepAt(d)
  PROVE  SizeKept(d)
  BY DEF InStepAt, SizeKept, Reading, Quiet, Requested, Agreed, Download,
         Downloaded, Upload, ClientLeft, ServerLeft

LEMMA OfferInStep ==
  ASSUME TypeOK, NEW c \in Conn, InStepAt(c), Offer(c)
  PROVE  InStepAt(c)'
<1> DEFINE n == Len(local[c])
<1>1. /\ cpc[c] = "ready" /\ cpc'[c] = "answer"
      /\ csize'[c] = n /\ cpos'[c] = 0
      /\ toServer'[c] = Append(toServer[c], Message("sync", n))
      /\ toClient'[c] = toClient[c]
      /\ UNCHANGED <<server, local, spc, answer, ssize, spos, file>>
  BY DEF Offer, Write, ClientGoes, ServerIdle, serverVars, TypeOK
<1>2. /\ toServer[c] \in Seq(Unit) /\ n \in Size
      /\ ssize[c] \in Nat /\ spos[c] \in Nat
  BY FileUnits DEF TypeOK, Channel, Size
<1>3. \A k \in Nat : Row(toServer[c], k) => RowThen(toServer'[c], k, n)
  BY <1>1, <1>2, RowThenWrite
<1>4. CASE Quiet(c)
  BY <1>1, <1>3, <1>4 DEF InStepAt, Quiet, Requested
<1>5. CASE Download(c)
  BY <1>1, <1>3, <1>5 DEF InStepAt, Download
<1>6. CASE Upload(c)
  <2>1. ssize[c] - spos[c] \in Nat
    BY <1>2, <1>6 DEF Upload
  <2> QED
    BY <1>1, <1>3, <1>6, <2>1 DEF InStepAt, Upload
<1>7. CASE ServerLeft(c)
  BY <1>1, <1>7 DEF InStepAt, ServerLeft
<1> QED
  BY <1>1, <1>4, <1>5, <1>6, <1>7
  DEF InStepAt, Requested, Agreed, Downloaded, ClientLeft

LEMMA AnswerInStep ==
  ASSUME TypeOK, NEW c \in Conn, InStepAt(c), Answer(c)
  PROVE  InStepAt(c)'
<1> DEFINE m == Head(toClient[c])
<1>1. /\ cpc[c] = "answer" /\ toClient[c] # <<>>
      /\ toClient'[c] = Tail(toClient[c])
      /\ UNCHANGED <<server, toServer, spc, answer, ssize, spos, file>>
  BY DEF Answer, Read, ServerIdle, serverVars, TypeOK
<1>2. /\ toClient[c] \in Seq(Unit) /\ csize[c] \in Nat
      /\ ssize[c] \in Nat /\ spos[c] \in Nat
      /\ Size \subseteq Nat
  BY DEF TypeOK, Channel, Size
<1>3. /\ m.kind = "message" /\ m.what = "same" =>
           cpc'[c] = "ready" /\ local'[c] = local[c]
      /\ m.kind = "message" /\ m.what = "ask" =>
           /\ cpc'[c] = "send" /\ csize'[c] = csize[c] /\ cpos'[c] = 0
           /\ local'[c] = local[c]
      /\ m.kind = "message" /\ m.what = "newer" =>
           cpc'[c] = "get" /\ csize'[c] = m.size /\ cpos'[c] = 0
  BY DEF Answer, ClientGoes, TypeOK
<1>4. ~ Row(toClient[c], 0)
  BY <1>1, <1>2, RowOfNone
<1>5. \A w : \A n \in Size, k \in Nat : ThenRow(toClient[c], w, n, k) =>
        /\ m.kind = "message" /\ m.what = w /\ m.size = n
        /\ Row(toClient'[c], k)
  BY <1>1, <1>2, ThenRowRead
<1>6. CASE Agreed(c)
  BY <1>1, <1>2, <1>3, <1>5, <1>6 DEF InStepAt, Agreed, Quiet
<1>7. CASE Download(c)
  <2>1. ssize[c] \in Size
    BY DEF TypeOK
  <2> QED
    BY <1>1, <1>2, <1>3, <1>4, <1>5, <1>7, <2>1 DEF InStepAt, Download
<1>8. CASE Downloaded(c)
  <2>1. PICK n \in Size : ThenRow(toClient[c], "newer", n, n)
    BY <1>1, <1>8 DEF Downloaded
  <2>2. cpc'[c] = "get" /\ csize'[c] = n /\ cpos'[c] = 0 /\ Row(toClient'[c], n)
    BY <1>2, <1>3, <1>5, <2>1
  <2>3. Downloaded(c)'
    BY <1>1, <1>2, <1>8, <2>2 DEF Downloaded
  <2> QED
    BY <1>1, <2>2, <2>3 DEF InStepAt
<1>9. CASE Upload(c)
  BY <1>1, <1>2, <1>3, <1>4, <1>5, <1>9 DEF InStepAt, Upload
<1>10. CASE ServerLeft(c)
  <2>1. \/ \E n \in Size : \/ ThenRow(toClient[c], "same", n, 0)
                           \/ ThenRow(toClient[c], "ask", n, 0)
        \/ \E n \in Size : \E k \in 0..n : ThenRow(toClient[c], "newer", n, k)
    BY <1>1, <1>4, <1>10 DEF ServerLeft
  <2>2. spc[c] = "over"
    BY <1>10 DEF ServerLeft
  <2>3. CASE \E n \in Size : \/ ThenRow(toClient[c], "same", n, 0)
                             \/ ThenRow(toClient[c], "ask", n, 0)
    <3>1. cpc'[c] \in {"ready", "send"} /\ Row(toClient'[c], 0)
      BY <1>2, <1>3, <1>5, <2>3
    <3>2. cpc'[c] = "send" => Len(local'[c]) = csize'[c]
      BY <1>1, <1>2, <1>3, <1>5, <2>3 DEF InStepAt
    <3> QED
      BY <1>1, <2>2, <3>1, <3>2 DEF InStepAt, ServerLeft
  <2>4. ASSUME NEW n \in Size, NEW k \in 0..n, ThenRow(toClient[c], "newer", n, k)
        PROVE  InStepAt(c)'
    <3>1. /\ cpc'[c] = "get" /\ csize'[c] = n /\ cpos'[c] = 0
          /\ Row(toClient'[c], k)
      BY <1>2, <1>3, <1>5, <2>4
    <3>2. k \in 0..(csize'[c] - cpos'[c])
      BY <1>2, <3>1
    <3> QED
      BY <1>1, <2>2, <3>1, <3>2 DEF InStepAt, ServerLeft
  <2> QED
    BY <2>1, <2>3, <2>4
<1> QED
  BY <1>1, <1>4, <1>6, <1>7, <1>8, <1>9, <1>10
  DEF InStepAt, Quiet, Requested, ClientLeft

LEMMA SendInStep ==
  ASSUME TypeOK, NEW c \in Conn, InStepAt(c), SendUnit(c) \/ SendEnds(c)
  PROVE  InStepAt(c)'
<1>1. /\ cpc[c] = "send"
      /\ toClient'[c] = toClient[c]
      /\ UNCHANGED <<server, local, spc, answer, ssize, spos, file>>
  BY DEF SendUnit, SendEnds, ServerIdle, serverVars
<1>2. /\ toServer[c] \in Seq(Unit) /\ Len(local[c]) = csize[c]
      /\ csize[c] \in Nat /\ cpos[c] \in Nat
      /\ ssize[c] \in Nat /\ spos[c] \in Nat
  BY <1>1 DEF InStepAt, TypeOK, Channel, Size
<1>3. CASE SendUnit(c)
  <2> DEFINE u == local[c][cpos[c] + 1]
  <2>1. /\ cpc'[c] = "send" /\ csize'[c] = csize[c] /\ cpos'[c] = cpos[c] + 1
        /\ cpos[c] < csize[c]
        /\ toServer'[c] = Append(toServer[c], u)
    BY <1>2, <1>3 DEF SendUnit, Write, ClientGoes, TypeOK
  <2>2. u \in Unit /\ u.kind = "content"
    <3>1. cpos[c] + 1 \in 1..Len(local[c]) /\ local[c] \in File
      BY <1>2, <2>1 DEF TypeOK
    <3> QED
      BY <3>1, FileUnits
  <2>3. \A k \in Nat : Row(toServer[c], k) => Row(toServer'[c], k + 1)
    BY <1>2, <2>1, <2>2, RowWrite
  <2>4. CASE Upload(c)
    <3>1. /\ csize[c] = ssize[c] /\ spos[c] <= cpos[c]
          /\ Row(toServer[c], cpos[c] - spos[c]) /\ Row(toClient[c], 0)
      BY <1>1, <2>4 DEF Upload
    <3>2. Row(toServer'[c], cpos'[c] - spos[c])
      BY <1>2, <2>1, <2>3, <3>1
    <3> QED
      BY <1>1, <1>2, <2>1, <2>4, <3>1, <3>2 DEF InStepAt, Upload
  <2>5. CASE ServerLeft(c)
    BY <1>1, <1>2, <2>1, <2>5 DEF InStepAt, ServerLeft
  <2> QED
    BY <1>1, <1>2, <2>1, <2>4, <2>5
    DEF InStepAt, Quiet, Requested, Agreed, Download, Downloaded, ClientLeft
<1>4. CASE SendEnds(c)
  <2>1. /\ cpc'[c] = "ready" /\ toServer'[c] = toServer[c]
        /\ cpos[c] >= csize[c]
    BY <1>2, <1>4 DEF SendEnds, ClientGoes, TypeOK
  <2>2. CASE Quiet(c)
    BY <1>1, <2>1, <2>2 DEF InStepAt, Quiet
  <2>3. CASE Upload(c)
    <3>1. cpos[c] = ssize[c]
      BY <1>1, <1>2, <2>1, <2>3 DEF Upload
    <3> QED
      BY <1>1, <2>1, <2>3, <3>1 DEF InStepAt, Upload
  <2>4. CASE ServerLeft(c)
    BY <1>1, <2>1, <2>4 DEF InStepAt, ServerLeft
  <2> QED
    BY <1>1, <2>1, <2>2, <2>3, <2>4
    DEF InStepAt, Requested, Agreed, Download, Downloaded, ClientLeft
<1> QED
  BY <1>3, <1>4

LEMMA GetInStep ==
  ASSUME TypeOK, NEW c \in Conn, InStepAt(c), GetUnit(c) \/ GetEnds(c)
  PROVE  InStepAt(c)'
<1>1. /\ cpc[c] = "get"
      /\ toServer'[c] = toServer[c]
      /\ UNCHANGED <<server, spc, answer, ssize, spos, file>>
  BY DEF GetUnit, GetEnds, ServerIdle, serverVars
<1>2. /\ toClient[c] \in Seq(Unit) /\ csize[c] \in Nat /\ cpos[c] \in Nat
      /\ ssize[c] \in Nat /\ spos[c] \in Nat
  BY DEF TypeOK, Channel, Size
<1>3. \/ Download(c) /\ csize[c] = ssize[c] /\ cpos[c] <= spos[c]
         /\ Row(toClient[c], spos[c] - cpos[c])
      \/ Downloaded(c) /\ cpos[c] <= csize[c]
         /\ Row(toClient[c], csize[c] - cpos[c])
      \/ /\ ServerLeft(c)
         /\ \E k \in 0..(csize[c] - cpos[c]) : Row(toClient[c], k)
  BY <1>1 DEF InStepAt, Quiet, Requested, Agreed, Download, Downloaded, Upload,
              ClientLeft, ServerLeft
<1>4. CASE GetUnit(c)
  <2>1. toClient[c] # <<>> /\ toClient'[c] = Tail(toClient[c])
    BY <1>4 DEF GetUnit, Read, TypeOK
  <2>2. \A k \in Nat : Row(toClient[c], k) =>
          /\ k > 0 /\ Head(toClient[c]).kind = "content"
          /\ Row(toClient'[c], k - 1)
    BY <1>2, <2>1, RowRead
  <2>3. Head(toClient[c]).kind = "content"
    BY <1>2, <1>3, <2>2
  <2>4. /\ cpc'[c] = "get" /\ csize'[c] = csize[c] /\ cpos'[c] = cpos[c] + 1
    BY <1>4, <2>3 DEF GetUnit, ClientGoes, TypeOK
  <2>5. CASE Download(c) /\ csize[c] = ssize[c] /\ cpos[c] <= spos[c]
             /\ Row(toClient[c], spos[c] - cpos[c])
    <3>1. cpos'[c] <= spos[c] /\ Row(toClient'[c], spos[c] - cpos'[c])
      BY <1>2, <2>2, <2>4, <2>5
    <3> QED
      BY <1>1, <2>4, <2>5, <3>1 DEF InStepAt, Download
  <2>6. CASE Downloaded(c) /\ cpos[c] <= csize[c]
             /\ Row(toClient[c], csize[c] - cpos[c])
    <3>1. cpos'[c] <= csize'[c] /\ Row(toClient'[c], csize'[c] - cpos'[c])
      BY <1>2, <2>2, <2>4, <2>6
    <3> QED
      BY <1>1, <2>4, <2>6, <3>1 DEF InStepAt, Downloaded
  <2>7. ASSUME ServerLeft(c),
               NEW k \in 0..(csize[c] - cpos[c]), Row(toClient[c], k)
        PROVE  InStepAt(c)'
    <3>1. k - 1 \in 0..(csize'[c] - cpos'[c]) /\ Row(toClient'[c], k - 1)
      BY <1>2, <2>2, <2>4, <2>7
    <3> QED
      BY <1>1, <2>4, <2>7, <3>1 DEF InStepAt, ServerLeft
  <2> QED
    BY <1>3, <2>5, <2>6, <2>7
<1>5. CASE GetEnds(c)
  <2>1. /\ cpc'[c] = "ready" /\ toClient'[c] = toClient[c]
        /\ cpos[c] >= csize[c]
    BY <1>5 DEF GetEnds, ClientGoes, TypeOK
  <2>2. CASE Download(c) /\ csize[c] = ssize[c] /\ cpos[c] <= spos[c]
             /\ Row(toClient[c], spos[c] - cpos[c])
    <3>1. spos[c] = ssize[c] /\ spos[c] - cpos[c] = 0
      BY <1>1, <1>2, <2>1, <2>2 DEF Download
    <3>2. Row(toClient'[c], 0)
      BY <2>1, <2>2, <3>1
    <3> QED
      BY <1>1, <2>1, <2>2, <3>1, <3>2 DEF InStepAt, Download
  <2>3. CASE Downloaded(c) /\ cpos[c] <= csize[c]
             /\ Row(toClient[c], csize[c] - cpos[c])
    <3>1. csize[c] - cpos[c] = 0
      BY <1>2, <2>1, <2>3
    <3>2. Row(toClient'[c], 0)
      BY <2>1, <2>3, <3>1
    <3> QED
      BY <1>1, <2>1, <2>3, <3>2 DEF InStepAt, Downloaded, Quiet
  <2>4. CASE /\ ServerLeft(c)
             /\ \E k \in 0..(csize[c] - cpos[c]) : Row(toClient[c], k)
    <3>1. Row(toClient'[c], 0)
      BY <1>2, <2>1, <2>4
    <3> QED
      BY <1>1, <2>1, <2>4, <3>1 DEF InStepAt, ServerLeft
  <2> QED
    BY <1>3, <2>2, <2>3, <2>4
<1> QED
  BY <1>4, <1>5

\* A client that ends, in any way.
LEMMA EndInStep ==
  ASSUME TypeOK, NEW c \in Conn, InStepAt(c),
         GetSpins(c) \/ ClientExits(c) \/ Kill(c)
  PROVE  InStepAt(c)'
<1>1. /\ UNCHANGED <<server, toServer, toClient, spc, answer, ssize, spos, file>>
      /\ cpc'[c] = "gone" \/ (cpc'[c] = "spin" /\ spc[c] = "over")
  BY DEF GetSpins, ClientExits, Kill, EndOfServer, ServerIdle, serverVars,
         ClientGoes, TypeOK
<1>2. /\ ssize[c] \in Nat /\ spos[c] \in Nat /\ csize[c] \in Nat
      /\ cpos[c] \in Nat /\ csize[c] \in Size
  BY DEF TypeOK, Size
<1>3. CASE spc[c] = "over"
  BY <1>1, <1>3 DEF InStepAt, ServerLeft
<1>4. CASE spc[c] # "over"
  <2>1. cpc'[c] = "gone"
    BY <1>1, <1>4
  <2>2. CASE Quiet(c) \/ Requested(c) \/ Agreed(c) \/ Download(c)
             \/ Downloaded(c) \/ ClientLeft(c)
    <3>1. ClientLeft(c)'
      BY <1>1, <1>2, <2>1, <2>2
      DEF Quiet, Requested, Agreed, Download, Downloaded, ClientLeft
    <3> QED
      BY <1>1, <2>1, <3>1 DEF InStepAt
  <2>3. CASE Upload(c)
    <3>1. \/ \E k \in 0..(ssize[c] - spos[c]) : Row(toServer[c], k)
          \/ \E n \in Size : RowThen(toServer[c], ssize[c] - spos[c], n)
      BY <1>2, <2>3 DEF Upload
    <3>2. ClientLeft(c)'
      BY <1>1, <2>1, <2>3, <3>1 DEF Upload, ClientLeft
    <3> QED
      BY <1>1, <2>1, <3>2 DEF InStepAt
  <2> QED
    BY <1>4, <2>2, <2>3 DEF InStepAt, ServerLeft
<1> QED
  BY <1>3, <1>4

\* A session takes a request, and decides on it.
LEMMA RequestInStep ==
  ASSUME TypeOK, NEW c \in Conn, InStepAt(c), Request(c) \/ Decide(c)
  PROVE  InStepAt(c)'
<1>1. /\ server = "up" /\ toClient'[c] = toClient[c]
      /\ UNCHANGED <<server, local, cpc, csize, cpos, file>>
  BY DEF Request, Decide, At, ClientIdle, clientVars
<1>2. toServer[c] \in Seq(Unit) /\ csize[c] \in Size
  BY DEF TypeOK, Channel
<1>3. CASE Request(c)
  <2>1. /\ spc[c] = "wait" /\ toServer[c] # <<>>
        /\ toServer'[c] = Tail(toServer[c])
        /\ Head(toServer[c]).kind = "message" =>
             spc'[c] = "lock" /\ ssize'[c] = Head(toServer[c]).size
    BY <1>3 DEF Request, At, Read, Goes, TypeOK
  <2>2. \A n \in Size : RowThen(toServer[c], 0, n) =>
          /\ spc'[c] = "lock" /\ ssize'[c] = n /\ Row(toServer'[c], 0)
    BY <1>2, <2>1, RowThenRead
  <2>3. ~ Row(toServer[c], 0)
    BY <1>2, <2>1, RowOfNone
  <2>4. CASE Requested(c)
    BY <1>1, <1>2, <2>1, <2>2, <2>4 DEF InStepAt, Requested
  <2>5. CASE ClientLeft(c)
    BY <1>1, <2>1, <2>2, <2>3, <2>5 DEF InStepAt, ClientLeft
  <2> QED
    BY <2>1, <2>3, <2>4, <2>5
    DEF InStepAt, Quiet, Agreed, Download, Downloaded, Upload, ServerLeft
<1>4. CASE Decide(c)
  <2>1. /\ spc[c] = "lock" /\ spc'[c] = "reply" /\ toServer'[c] = toServer[c]
        /\ \/ answer'[c] # "newer" /\ ssize'[c] = ssize[c]
           \/ answer'[c] = "newer" /\ ssize'[c] = Len(file)
    BY <1>4 DEF Decide, At, Goes, TypeOK
  <2>2. CASE Requested(c)
    BY <1>1, <2>1, <2>2 DEF InStepAt, Requested
  <2>3. CASE ClientLeft(c)
    BY <1>1, <2>1, <2>3 DEF InStepAt, ClientLeft
  <2> QED
    BY <2>1, <2>2, <2>3
    DEF InStepAt, Quiet, Agreed, Download, Downloaded, Upload, ServerLeft
<1> QED
  BY <1>3, <1>4

LEMMA ReplyInStep ==
  ASSUME TypeOK, NEW c \in Conn, InStepAt(c), Reply(c)
  PROVE  InStepAt(c)'
<1>1. /\ server = "up" /\ spc[c] = "reply" /\ toServer'[c] = toServer[c]
      /\ UNCHANGED <<server, local, cpc, csize, cpos, file>>
      /\ spos'[c] = 0
      /\ answer[c] = "same" => spc'[c] = "wait"
      /\ answer[c] = "ask" => spc'[c] = "open" /\ ssize'[c] = ssize[c]
      /\ answer[c] = "newer" => spc'[c] = "send" /\ ssize'[c] = ssize[c]
  BY DEF Reply, At, Goes, ClientIdle, clientVars, TypeOK
<1>2. /\ toClient[c] \in Seq(Unit) /\ ssize[c] \in Size /\ ssize[c] \in Nat
      /\ Len(file) \in Nat /\ answer[c] \in {"same", "ask", "newer"}
  BY FileUnits DEF TypeOK, Channel, Size
<1>3. CASE Requested(c)
  <2>1. toClient'[c] = Append(toClient[c], Message(answer[c], ssize[c]))
    BY <1>3 DEF Requested, Reply, SendTo, Write, TypeOK
  <2>2. ThenRow(toClient'[c], answer[c], ssize[c], 0)
    BY <1>2, <1>3, <2>1, ThenRowStart DEF Requested
  <2>3. CASE answer[c] = "same"
    BY <1>1, <1>2, <1>3, <2>2, <2>3 DEF InStepAt, Requested, Agreed
  <2>4. CASE answer[c] = "ask"
    BY <1>1, <1>2, <1>3, <2>2, <2>4 DEF InStepAt, Requested, Upload
  <2>5. CASE answer[c] = "newer"
    BY <1>1, <1>2, <1>3, <2>2, <2>5 DEF InStepAt, Requested, Download
  <2> QED
    BY <1>2, <2>3, <2>4, <2>5
<1>4. CASE ClientLeft(c)
  <2>1. cpc[c] = "gone" /\ Row(toServer[c], 0)
    BY <1>1, <1>4 DEF ClientLeft
  <2>2. CASE answer[c] = "ask"
    <3>1. 0 \in 0..(ssize'[c] - spos'[c])
      BY <1>1, <1>2, <2>2
    <3> QED
      BY <1>1, <2>1, <2>2, <3>1 DEF InStepAt, ClientLeft
  <2>3. CASE answer[c] # "ask"
    BY <1>1, <1>2, <1>4, <2>1, <2>3 DEF InStepAt, ClientLeft
  <2> QED
    BY <2>2, <2>3
<1> QED
  BY <1>1, <1>3, <1>4
  DEF InStepAt, Quiet, Agreed, Download, Downloaded, Upload, ServerLeft

LEMMA ReplyUnitInStep ==
  ASSUME TypeOK, NEW c \in Conn, InStepAt(c), ReplyUnit(c) \/ ReplyEnds(c)
  PROVE  InStepAt(c)'
<1>1. /\ server = "up" /\ spc[c] = "send" /\ toServer'[c] = toServer[c]
      /\ UNCHANGED <<server, local, cpc, csize, cpos, file>>
  BY DEF ReplyUnit, ReplyEnds, At, ClientIdle, clientVars
<1>2. /\ toClient[c] \in Seq(Unit) /\ ssize[c] \in Size /\ ssize[c] \in Nat
      /\ spos[c] \in Nat /\ cpos[c] \in Nat /\ csize[c] \in Size
      /\ Len(file) \in Nat /\ file \in File
  BY FileUnits DEF TypeOK, Channel, Size
<1>3. Download(c) \/ ClientLeft(c)
  BY <1>1 DEF InStepAt, Quiet, Requested, Agreed, Downloaded, Upload, ServerLeft
<1>4. CASE ReplyUnit(c)
  <2> DEFINE u == file[spos[c] + 1]
  <2>1. /\ spos[c] < Len(file)
        /\ spc'[c] = "send" /\ ssize'[c] = ssize[c] /\ spos'[c] = spos[c] + 1
    BY <1>4 DEF ReplyUnit, Goes, TypeOK
  <2>2. u \in Unit /\ u.kind = "content"
    <3>1. spos[c] + 1 \in 1..Len(file)
      BY <1>2, <2>1
    <3> QED
      BY <1>2, <3>1, FileUnits
  <2>3. CASE Download(c)
    <3>1. toClient'[c] = Append(toClient[c], u)
      BY <1>4, <2>3 DEF Download, ReplyUnit, SendTo, Write, TypeOK
    <3>2. CASE /\ cpc[c] = "answer" /\ Row(toServer[c], 0)
               /\ ThenRow(toClient[c], "newer", ssize[c], spos[c])
      <4>1. ThenRow(toClient'[c], "newer", ssize'[c], spos'[c])
        BY <1>2, <2>1, <2>2, <3>1, <3>2, ThenRowWrite
      <4> QED
        BY <1>1, <1>2, <2>1, <2>3, <3>2, <4>1 DEF InStepAt, Download
    <3>3. CASE /\ cpc[c] = "get" /\ csize[c] = ssize[c] /\ cpos[c] <= spos[c]
               /\ Row(toServer[c], 0) /\ Row(toClient[c], spos[c] - cpos[c])
      <4>1. Row(toClient'[c], spos'[c] - cpos[c])
        BY <1>2, <2>1, <2>2, <3>1, <3>3, RowWrite
      <4> QED
        BY <1>1, <1>2, <2>1, <2>3, <3>3, <4>1 DEF InStepAt, Download
    <3> QED
      BY <1>2, <2>1, <2>3, <3>2, <3>3 DEF Download
  <2>4. CASE ClientLeft(c)
    BY <1>1, <2>1, <2>4 DEF InStepAt, ClientLeft
  <2> QED
    BY <1>3, <2>3, <2>4
<1>5. CASE ReplyEnds(c)
  <2>1. spos[c] >= Len(file) /\ spc'[c] = "wait" /\ toClient'[c] = toClient[c]
    BY <1>5 DEF ReplyEnds, Goes, TypeOK
  <2>2. CASE Download(c)
    <3>1. spos[c] = ssize[c]
      BY <1>2, <2>1, <2>2 DEF Download
    <3> QED
      BY <1>1, <1>2, <2>1, <2>2, <3>1
      DEF InStepAt, Download, Downloaded, Quiet, Requested
  <2>3. CASE ClientLeft(c)
    BY <1>1, <2>1, <2>3 DEF InStepAt, ClientLeft
  <2> QED
    BY <1>3, <2>2, <2>3
<1> QED
  BY <1>4, <1>5

LEMMA OpenInStep ==
  ASSUME TypeOK, NEW c \in Conn, InStepAt(c), Open(c)
  PROVE  InStepAt(c)'
<1>1. /\ server = "up" /\ spc[c] = "open" /\ spc'[c] = "get"
      /\ ssize'[c] = ssize[c] /\ spos'[c] = 0
      /\ toServer'[c] = toServer[c] /\ toClient'[c] = toClient[c]
      /\ UNCHANGED <<server, local, cpc, csize, cpos>>
  BY DEF Open, At, Goes, ClientIdle, clientVars, TypeOK
<1>2. CASE Upload(c)
  BY <1>1, <1>2 DEF InStepAt, Upload
<1>3. CASE ClientLeft(c)
  BY <1>1, <1>3 DEF InStepAt, ClientLeft
<1> QED
  BY <1>1, <1>2, <1>3
  DEF InStepAt, Quiet, Requested, Agreed, Download, Downloaded, ServerLeft

LEMMA ReceiveInStep ==
  ASSUME TypeOK, NEW c \in Conn, InStepAt(c), Receive(c)
  PROVE  InStepAt(c)'
<1>1. /\ server = "up" /\ spc[c] = "get" /\ spos[c] < ssize[c]
      /\ toServer[c] # <<>> /\ toServer'[c] = Tail(toServer[c])
      /\ toClient'[c] = toClient[c]
      /\ UNCHANGED <<server, local, cpc, csize, cpos>>
  BY DEF Receive, At, Read, ClientIdle, clientVars, TypeOK
<1>2. /\ toServer[c] \in Seq(Unit) /\ csize[c] \in Size /\ cpos[c] \in Nat
      /\ csize[c] \in Nat /\ ssize[c] \in Nat /\ spos[c] \in Nat
      /\ ssize[c] - spos[c] \in Nat /\ ssize[c] - spos[c] > 0
  BY <1>1 DEF TypeOK, Channel, Size
<1>3. Upload(c) \/ ClientLeft(c)
  BY <1>1
  DEF InStepAt, Quiet, Requested, Agreed, Download, Downloaded, ServerLeft
<1>4. \A k \in Nat : Row(toServer[c], k) =>
        k > 0 /\ Head(toServer[c]).kind = "content" /\ Row(toServer'[c], k - 1)
  BY <1>1, <1>2, RowRead
<1>5. \A n \in Size : RowThen(toServer[c], ssize[c] - spos[c], n) =>
        /\ Head(toServer[c]).kind = "content"
        /\ RowThen(toServer'[c], ssize[c] - spos[c] - 1, n)
  BY <1>1, <1>2, RowThenRead
<1>6. Head(toServer[c]).kind = "content"
  BY <1>1, <1>2, <1>3, <1>4, <1>5 DEF Upload, ClientLeft
<1>7. /\ spc'[c] = "get" /\ ssize'[c] = ssize[c] /\ spos'[c] = spos[c] + 1
      /\ ssize'[c] - spos'[c] = ssize[c] - spos[c] - 1
      /\ spos'[c] <= ssize'[c]
  <2>1. spc'[c] = "get" /\ ssize'[c] = ssize[c] /\ spos'[c] = spos[c] + 1
    BY <1>6 DEF Receive, Goes, TypeOK
  <2> QED
    BY <1>1, <1>2, <2>1
<1>8. CASE Upload(c)
  <2>1. CASE /\ cpc[c] = "send" /\ csize[c] = ssize[c]
             /\ spos[c] <= cpos[c] /\ cpos[c] <= csize[c]
             /\ Row(toServer[c], cpos[c] - spos[c]) /\ Row(toClient[c], 0)
    <3>1. spos'[c] <= cpos[c] /\ Row(toServer'[c], cpos[c] - spos'[c])
      BY <1>2, <1>4, <1>7, <2>1
    <3> QED
      BY <1>1, <1>7, <2>1, <3>1 DEF InStepAt, Upload
  <2>2. CASE /\ cpc[c] = "ready"
             /\ Row(toServer[c], ssize[c] - spos[c]) /\ Row(toClient[c], 0)
    <3>1. Row(toServer'[c], ssize'[c] - spos'[c])
      BY <1>2, <1>4, <1>7, <2>2
    <3> QED
      BY <1>1, <1>7, <2>2, <3>1 DEF InStepAt, Upload
  <2>3. CASE /\ cpc[c] = "answer"
             /\ RowThen(toServer[c], ssize[c] - spos[c], csize[c])
             /\ Row(toClient[c], 0)
    <3>1. RowThen(toServer'[c], ssize'[c] - spos'[c], csize[c])
      BY <1>2, <1>5, <1>7, <2>3
    <3> QED
      BY <1>1, <1>7, <1>8, <2>3, <3>1 DEF InStepAt, Upload
  <2>4. ~ Row(toServer[c], 0)
    BY <1>1, <1>2, RowOfNone
  <2> QED
    BY <1>8, <2>1, <2>2, <2>3, <2>4 DEF Upload
<1>9. CASE ClientLeft(c)
  <2>1. \/ \E k \in 0..(ssize'[c] - spos'[c]) : Row(toServer'[c], k)
        \/ \E n \in Size : RowThen(toServer'[c], ssize'[c] - spos'[c], n)
    <3>1. CASE \E k \in 0..(ssize[c] - spos[c]) : Row(toServer[c], k)
      <4>1. PICK k \in 0..(ssize[c] - spos[c]) : Row(toServer[c], k)
        BY <3>1
      <4>2. k - 1 \in 0..(ssize'[c] - spos'[c]) /\ Row(toServer'[c], k - 1)
        BY <1>2, <1>4, <1>7, <4>1, SMTT(20)
      <4> QED
        BY <4>2
    <3>2. CASE \E n \in Size : RowThen(toServer[c], ssize[c] - spos[c], n)
      BY <1>5, <1>7, <3>2
    <3> QED
      BY <1>1, <1>9, <3>1, <3>2 DEF ClientLeft
  <2> QED
    BY <1>1, <1>7, <1>9, <2>1 DEF InStepAt, ClientLeft
<1> QED
  BY <1>3, <1>8, <1>9

LEMMA ReceiveEndsInStep ==
  ASSUME TypeOK, NEW c \in Conn, InStepAt(c), ReceiveEnds(c) \/ Disconnect(c)
  PROVE  InStepAt(c)'
<1>1. /\ server = "up" /\ UNCHANGED <<toServer, toClient>>
      /\ UNCHANGED <<server, local, cpc, csize, cpos, file>>
  BY DEF ReceiveEnds, Disconnect, At, ClientIdle, clientVars
<1>2. /\ csize[c] \in Size /\ cpos[c] \in Nat /\ csize[c] \in Nat
      /\ ssize[c] \in Nat /\ spos[c] \in Nat
  BY DEF TypeOK, Size
<1>3. CASE ReceiveEnds(c)
  <2>1. spc[c] = "get" /\ spos[c] >= ssize[c] /\ spc'[c] = "wait"
    BY <1>3 DEF ReceiveEnds, At, Goes, TypeOK
  <2>2. CASE Upload(c)
    <3>1. spos[c] = ssize[c] /\ ssize[c] - spos[c] = 0
      BY <1>2, <2>1, <2>2 DEF Upload
    <3>2. cpc[c] = "send" => cpos[c] = csize[c] /\ cpos[c] - spos[c] = 0
      BY <1>2, <2>2, <3>1 DEF Upload
    <3> QED
      BY <1>1, <1>2, <2>1, <2>2, <3>1, <3>2
      DEF InStepAt, Upload, Quiet, Agreed, Requested
  <2>3. CASE ClientLeft(c)
    <3>1. Row(toServer[c], 0) \/ \E n \in Size : RowThen(toServer[c], 0, n)
      BY <1>2, <2>1, <2>3 DEF ClientLeft
    <3> QED
      BY <1>1, <2>1, <2>3, <3>1 DEF InStepAt, ClientLeft
  <2> QED
    BY <2>1, <2>2, <2>3
    DEF InStepAt, Quiet, Requested, Agreed, Download, Downloaded, ServerLeft
<1>4. CASE Disconnect(c)
  <2>1. cpc[c] = "gone" /\ spc'[c] = "over"
    BY <1>4 DEF Disconnect, EndOfClient, Goes, TypeOK
  <2> QED
    BY <1>1, <2>1 DEF InStepAt, ClientLeft
<1> QED
  BY <1>3, <1>4

\* The end of the server is the end of all sessions.
LEMMA ExitInStep ==
  ASSUME TypeOK, NEW c \in Conn, ServerExits(c), NEW d \in Conn, InStepAt(d)
  PROVE  InStepAt(d)'
<1>1. /\ spc'[d] = "over"
      /\ UNCHANGED <<toClient, local, cpc, csize, cpos, file>>
  BY DEF ServerExits, ClientIdle, clientVars
<1>2. /\ csize[d] \in Nat /\ cpos[d] \in Nat /\ ssize[d] \in Size
      /\ ssize[d] \in Nat /\ spos[d] \in Nat /\ Size \subseteq Nat
  BY DEF TypeOK, Size
<1>3. CASE Quiet(d) \/ Requested(d) \/ ClientLeft(d) \/ ServerLeft(d)
  BY <1>1, <1>3 DEF InStepAt, Quiet, Requested, ClientLeft, ServerLeft
<1>4. CASE Agreed(d) \/ Upload(d)
  BY <1>1, <1>4 DEF InStepAt, Agreed, Upload, ServerLeft
<1>5. CASE Download(d)
  <2>1. cpc[d] = "answer" /\ ThenRow(toClient[d], "newer", ssize[d], spos[d]) =>
          \E n \in Size : \E k \in 0..n : ThenRow(toClient[d], "newer", n, k)
    BY <1>2, <1>5 DEF Download
  <2>2. cpc[d] = "get" => \E k \in 0..(csize[d] - cpos[d]) : Row(toClient[d], k)
    BY <1>2, <1>5 DEF Download
  <2> QED
    BY <1>1, <1>5, <2>1, <2>2 DEF InStepAt, Download, ServerLeft
<1>6. CASE Downloaded(d)
  <2>1. cpc[d] = "answer" =>
          \E n \in Size : \E k \in 0..n : ThenRow(toClient[d], "newer", n, k)
    <3>1. \A n \in Size : n \in 0..n
      BY <1>2
    <3> QED
      BY <1>6, <3>1 DEF Downloaded
  <2>2. cpc[d] = "get" => \E k \in 0..(csize[d] - cpos[d]) : Row(toClient[d], k)
    BY <1>2, <1>6 DEF Downloaded
  <2> QED
    BY <1>1, <1>6, <2>1, <2>2 DEF InStepAt, Downloaded, ServerLeft
<1> QED
  BY <1>3, <1>4, <1>5, <1>6 DEF InStepAt

LEMMA InStepInit ==
  Init => InStep
<1> SUFFICES ASSUME Init, NEW c \in Conn
             PROVE  InStepAt(c)
  BY DEF InStep
<1>1. Row(toServer[c], 0) /\ Row(toClient[c], 0)
  BY DEF Init, Row
<1> QED
  BY <1>1 DEF Init, InStepAt, Quiet

LEMMA InStepClient ==
  ASSUME TypeOK, InStep, NEW c \in Conn, ClientStep(c) \/ Save(c) \/ Kill(c)
  PROVE  InStep'
<1> SUFFICES ASSUME NEW d \in Conn, d \notin resized'
             PROVE  InStepAt(d)'
  BY DEF InStep
<1>1. resized \subseteq resized'
  BY DEF ClientStep, Save, Kill, Offer, Answer, SendUnit, SendEnds, GetUnit,
         GetEnds, GetSpins, ClientExits, history
<1>2. InStepAt(d)
  BY <1>1 DEF InStep
<1>3. /\ UNCHANGED <<server, file, spc, answer, ssize, spos>>
      /\ d # c => /\ local'[d] = local[d] /\ toServer'[d] = toServer[d]
                  /\ toClient'[d] = toClient[d] /\ cpc'[d] = cpc[d]
                  /\ csize'[d] = csize[d] /\ cpos'[d] = cpos[d]
  <2> USE DEF TypeOK, ServerIdle, serverVars, clientVars, ClientGoes, Read, Write
  <2>1. CASE Offer(c) \/ SendUnit(c) \/ SendEnds(c) \/ GetEnds(c) \/ GetSpins(c)
             \/ ClientExits(c) \/ Kill(c)
    BY <2>1 DEF Offer, SendUnit, SendEnds, GetEnds, GetSpins, ClientExits, Kill
  <2>2. CASE Answer(c)
    BY <2>2 DEF Answer
  <2>3. CASE GetUnit(c)
    BY <2>3 DEF GetUnit
  <2>4. CASE Save(c)
    BY <2>4 DEF Save
  <2> QED
    BY <2>1, <2>2, <2>3, <2>4 DEF ClientStep
<1>4. SizeKept(d)'
  BY <1>2, <1>3, SizeIsKept DEF SizeKept, Reading
<1>5. CASE d # c
  BY <1>2, <1>3, <1>4, <1>5, Elsewhere
<1>6. CASE d = c /\ (ClientStep(c) \/ Kill(c))
  BY <1>2, <1>6, OfferInStep, AnswerInStep, SendInStep, GetInStep, EndInStep
  DEF ClientStep
<1>7. CASE d = c /\ Save(c)
  <2>1. /\ cpc[c] \in {"answer", "send"} => Len(local'[c]) = csize[c]
        /\ UNCHANGED <<toServer, toClient, cpc, csize, cpos>>
        /\ cpc[c] \in {"ready", "answer", "send"}
    BY <1>7 DEF Save, clientVars
  <2> QED
    BY <1>2, <1>3, <1>7, <2>1
    DEF InStepAt, Quiet, Requested, Agreed, Download, Downloaded, Upload,
        ClientLeft, ServerLeft
<1> QED
  BY <1>5, <1>6, <1>7

LEMMA InStepSession ==
  ASSUME TypeOK, InStep, NEW c \in Conn, Session(c)
  PROVE  InStep'
<1> SUFFICES ASSUME NEW d \in Conn, d \notin resized'
             PROVE  InStepAt(d)'
  BY DEF InStep
<1>1. InStepAt(d)
  BY DEF InStep, Session, Request, Decide, Reply, ReplyUnit, ReplyEnds, Open,
         Receive, ReceiveEnds, Disconnect, ServerExits, Puts, history
<1>2. CASE ServerExits(c)
  BY <1>1, <1>2, ExitInStep
<1>3. CASE ~ ServerExits(c) /\ d = c
  BY <1>1, <1>3, RequestInStep, ReplyInStep, ReplyUnitInStep, OpenInStep,
     ReceiveInStep, ReceiveEndsInStep, Session(c)
  DEF Session
<1>4. CASE ~ ServerExits(c) /\ d # c
  <2>1. /\ UNCHANGED <<server, local, cpc, csize, cpos>>
        /\ spc'[d] = spc[d] /\ answer'[d] = answer[d]
        /\ ssize'[d] = ssize[d] /\ spos'[d] = spos[d]
        /\ toServer'[d] = toServer[d] /\ toClient'[d] = toClient[d]
    <3> USE DEF TypeOK, ClientIdle, clientVars, Goes, Read
    <3>1. CASE Request(c) \/ Decide(c)
      BY <1>4, <3>1 DEF Request, Decide
    <3>2. CASE Reply(c)
      BY <1>4, <3>2 DEF Reply, SendTo, Write
    <3>3. CASE ReplyUnit(c)
      BY <1>4, <3>3 DEF ReplyUnit, SendTo, Write
    <3>4. CASE ReplyEnds(c) \/ Open(c) \/ ReceiveEnds(c) \/ Disconnect(c)
      BY <1>4, <3>4 DEF ReplyEnds, Open, ReceiveEnds, Disconnect
    <3>5. CASE Receive(c)
      BY <1>4, <3>5 DEF Receive
    <3> QED
      BY <1>4, <3>1, <3>2, <3>3, <3>4, <3>5, Session(c) DEF Session
  <2>2. SizeKept(d)'
    <3>1. CASE file' = file
      BY <1>1, <2>1, <3>1, SizeIsKept DEF SizeKept, Reading
    <3>2. ASSUME NEW f, Puts(f)
          PROVE  SizeKept(d)'
      BY <1>4, <2>1, <3>2 DEF Puts, SizeKept, Reading
    <3>3. file' = file \/ \E f : Puts(f)
      BY <1>4, Session(c)
      DEF Session, Request, Decide, Reply, ReplyUnit, ReplyEnds, Open, Receive,
          ReceiveEnds, Disconnect
    <3> QED
      BY <3>1, <3>2, <3>3
  <2> QED
    BY <1>1, <2>1, <2>2, Elsewhere
<1> QED
  BY <1>2, <1>3, <1>4

-----------------------------------------------------------------------------
(* Requests and responses, on every connection. *)

LEMMA MessagesWrite ==
  ASSUME NEW q \in Seq(Unit), NEW u \in Unit
  PROVE  /\ NoMessage(q) /\ u.kind = "content" => NoMessage(Append(q, u))
         /\ NoMessage(q) => OneMessage(Append(q, u))
         /\ OneMessage(q) /\ u.kind = "content" => OneMessage(Append(q, u))
<1>1. /\ Len(q) \in Nat /\ Len(Append(q, u)) = Len(q) + 1
      /\ Append(q, u)[Len(q) + 1] = u
      /\ \A i \in 1..Len(q) : Append(q, u)[i] = q[i]
  BY SMT
<1>2. \A i \in 1..(Len(q) + 1) : i # Len(q) + 1 => i \in 1..Len(q)
  BY <1>1
<1>3. \A v : v = "content" => v # "message"
  OBVIOUS
<1> QED
  BY <1>1, <1>2, <1>3 DEF NoMessage, OneMessage

LEMMA MessagesRead ==
  ASSUME NEW q \in Seq(Unit), q # <<>>
  PROVE  /\ NoMessage(q) => Head(q).kind = "content" /\ NoMessage(Tail(q))
         /\ OneMessage(q) => OneMessage(Tail(q))
         /\ OneMessage(q) /\ Head(q).kind = "message" => NoMessage(Tail(q))
<1>1. /\ Len(q) \in Nat /\ Len(q) > 0 /\ Len(Tail(q)) = Len(q) - 1
      /\ Head(q) = q[1]
      /\ \A i \in 1..Len(Tail(q)) : Tail(q)[i] = q[i + 1]
      /\ \A i \in 1..Len(q) : q[i] \in Unit
  BY SMT
<1>2. \A i \in 1..Len(q) : q[i].kind \in {"content", "message"}
  BY <1>1, UnitFields
<1>3. \A i \in 1..Len(Tail(q)) : i + 1 \in 1..Len(q) /\ i + 1 # 1
  BY <1>1
<1>4. 1 \in 1..Len(q)
  BY <1>1
<1>5. NoMessage(q) => Head(q).kind = "content" /\ NoMessage(Tail(q))
  BY <1>1, <1>3, <1>4 DEF NoMessage
<1>6. OneMessage(q) => OneMessage(Tail(q))
  <2> SUFFICES ASSUME OneMessage(q),
                      NEW i \in 1..Len(Tail(q)), NEW j \in 1..Len(Tail(q)),
                      Tail(q)[i].kind = "message", Tail(q)[j].kind = "message"
               PROVE  i = j
    BY DEF OneMessage
  <2>1. i + 1 = j + 1
    BY <1>1, <1>3 DEF OneMessage
  <2> QED
    BY <2>1
<1>7. OneMessage(q) /\ Head(q).kind = "message" => NoMessage(Tail(q))
  BY <1>1, <1>2, <1>3, <1>4 DEF OneMessage, NoMessage
<1> QED
  BY <1>5, <1>6, <1>7

LEMMA RequestsClient ==
  ASSUME TypeOK, Requests, NEW c \in Conn, ClientStep(c) \/ Save(c) \/ Kill(c)
  PROVE  Requests'
<1> SUFFICES ASSUME NEW d \in Conn
             PROVE  OneRequest(d)'
  BY DEF Requests
<1>1. OneRequest(d) /\ OneRequest(c)
  BY DEF Requests
<1>2. /\ toServer[c] \in Seq(Unit) /\ toClient[c] \in Seq(Unit)
      /\ toServer[c] \in Channel /\ toClient[c] \in Channel
      /\ local[c] \in File /\ cpos[c] \in Nat
  BY DEF TypeOK, Channel, Size
<1> USE DEF TypeOK, ServerIdle, serverVars, ClientGoes
<1>3. CASE Offer(c)
  <2>1. Message("sync", Len(local[c])) \in Unit
    BY <1>2, FileUnits, Units
  <2>2. NoMessage(toServer[c]) =>
          OneMessage(Append(toServer[c], Message("sync", Len(local[c]))))
    BY <1>2, <2>1, MessagesWrite
  <2> QED
    BY <1>1, <1>3, <2>2 DEF Offer, Write, OneRequest
<1>4. CASE Answer(c)
  <2>1. toClient[c] # <<>>
    BY <1>4 DEF Answer, Read
  <2>2. /\ NoMessage(toClient[c]) => Head(toClient[c]).kind # "message"
        /\ OneMessage(toClient[c]) /\ Head(toClient[c]).kind = "message" =>
             NoMessage(Tail(toClient[c]))
    BY <1>2, <2>1, MessagesRead
  <2> QED
    BY <1>1, <1>4, <2>2 DEF Answer, Read, OneRequest
<1>5. CASE SendUnit(c)
  <2> DEFINE u == local[c][cpos[c] + 1]
  <2>1. Len(local[c]) \in Nat
    BY <1>2, FileUnits DEF Size
  <2>2. cpos[c] + 1 \in 1..Len(local[c])
    BY <1>2, <1>5, <2>1 DEF SendUnit
  <2>3. u \in Unit /\ u.kind = "content"
    BY <1>2, <2>2, FileUnits
  <2>4. NoMessage(toServer[c]) => NoMessage(Append(toServer[c], u))
    BY <1>2, <2>3, MessagesWrite
  <2> QED
    BY <1>1, <1>5, <2>4 DEF SendUnit, Write, OneRequest
<1>6. CASE GetUnit(c)
  <2>1. toClient[c] # <<>>
    BY <1>6 DEF GetUnit, Read
  <2>2. NoMessage(toClient[c]) => NoMessage(Tail(toClient[c]))
    BY <1>2, <2>1, MessagesRead
  <2> QED
    BY <1>1, <1>6, <2>2 DEF GetUnit, Read, OneRequest
<1>7. CASE SendEnds(c) \/ GetEnds(c) \/ GetSpins(c) \/ ClientExits(c) \/ Kill(c)
  BY <1>1, <1>7 DEF SendEnds, GetEnds, GetSpins, ClientExits, Kill, OneRequest
<1>8. CASE Save(c)
  BY <1>1, <1>8 DEF Save, OneRequest, clientVars
<1> QED
  BY <1>3, <1>4, <1>5, <1>6, <1>7, <1>8 DEF ClientStep

LEMMA RequestsSession ==
  ASSUME TypeOK, Requests, NEW c \in Conn, Session(c)
  PROVE  Requests'
<1> SUFFICES ASSUME NEW d \in Conn
             PROVE  OneRequest(d)'
  BY DEF Requests
<1>1. OneRequest(d) /\ OneRequest(c)
  BY DEF Requests
<1>2. /\ toServer[c] \in Seq(Unit) /\ toClient[c] \in Seq(Unit)
      /\ file \in File /\ spos[c] \in Nat
      /\ cpc[c] \in {"ready", "answer", "send", "get", "spin", "gone", "lost"}
  BY DEF TypeOK, Channel, Size
<1> USE DEF TypeOK, ClientIdle, clientVars, Goes, At
<1>3. CASE Request(c)
  <2>1. toServer[c] # <<>>
    BY <1>3 DEF Request, Read
  <2>2. /\ NoMessage(toServer[c]) =>
             NoMessage(Tail(toServer[c])) /\ Head(toServer[c]).kind # "message"
        /\ OneMessage(toServer[c]) => OneMessage(Tail(toServer[c]))
        /\ OneMessage(toServer[c]) /\ Head(toServer[c]).kind = "message" =>
             NoMessage(Tail(toServer[c]))
    BY <1>2, <2>1, MessagesRead
  <2> QED
    BY <1>1, <1>3, <2>2 DEF Request, Read, OneRequest
<1>4. CASE Decide(c)
  BY <1>1, <1>4 DEF Decide, OneRequest
<1>5. CASE Reply(c)
  <2>1. Message(answer[c], ssize[c]) \in Unit
    BY Units
  <2>2. NoMessage(toClient[c]) =>
          OneMessage(Append(toClient[c], Message(answer[c], ssize[c])))
    BY <1>2, <2>1, MessagesWrite
  <2> QED
    BY <1>1, <1>5, <2>2 DEF Reply, SendTo, Write, OneRequest
<1>6. CASE ReplyUnit(c)
  <2> DEFINE u == file[spos[c] + 1]
  <2>1. Len(file) \in Nat
    BY <1>2, FileUnits DEF Size
  <2>2. spos[c] + 1 \in 1..Len(file)
    BY <1>2, <1>6, <2>1 DEF ReplyUnit
  <2>3. u \in Unit /\ u.kind = "content"
    BY <1>2, <2>2, FileUnits
  <2>4. /\ NoMessage(toClient[c]) => NoMessage(Append(toClient[c], u))
        /\ OneMessage(toClient[c]) => OneMessage(Append(toClient[c], u))
    BY <1>2, <2>3, MessagesWrite
  <2> QED
    BY <1>1, <1>6, <2>4 DEF ReplyUnit, SendTo, Write, OneRequest
<1>7. CASE ReplyEnds(c) \/ Open(c) \/ ReceiveEnds(c) \/ Disconnect(c)
  BY <1>1, <1>7 DEF ReplyEnds, Open, ReceiveEnds, Disconnect, OneRequest
<1>8. CASE Receive(c)
  <2>1. toServer[c] # <<>>
    BY <1>8 DEF Receive, Read
  <2>2. /\ NoMessage(toServer[c]) => NoMessage(Tail(toServer[c]))
        /\ OneMessage(toServer[c]) => OneMessage(Tail(toServer[c]))
    BY <1>2, <2>1, MessagesRead
  <2> QED
    BY <1>1, <1>8, <2>2 DEF Receive, Read, OneRequest
<1>9. CASE ServerExits(c)
  <2>1. NoMessage(<<>>)
    BY DEF NoMessage
  <2> QED
    BY <1>1, <1>9, <2>1 DEF ServerExits, OneRequest
<1> QED
  BY <1>3, <1>4, <1>5, <1>6, <1>7, <1>8, <1>9, Session(c) DEF Session

-----------------------------------------------------------------------------
(* The content of a download. *)

\* The steps of others leave the file of a steady download as it is.
LEMMA SteadyElsewhere ==
  ASSUME NEW d \in Conn, Steady(d), file' = file, local'[d] = local[d],
         toClient'[d] = toClient[d], spc'[d] = spc[d], answer'[d] = answer[d],
         ssize'[d] = ssize[d], spos'[d] = spos[d],
         cpc'[d] = cpc[d], csize'[d] = csize[d], cpos'[d] = cpos[d]
  PROVE  Steady(d)'
  BY DEF Steady, Promised, Arriving

\* The client reads the response.
LEMMA AnswerSteady ==
  ASSUME TypeOK, NEW c \in Conn, OneRequest(c), Steady(c), Answer(c)
  PROVE  Steady(c)'
<1> DEFINE q == toClient[c]
           m == Head(q)
<1>1. /\ cpc[c] = "answer" /\ q # <<>> /\ toClient'[c] = Tail(q)
      /\ UNCHANGED <<file, spc, answer, ssize, spos>>
      /\ m.kind = "content" => cpc'[c] = "lost"
      /\ m.kind = "message" /\ m.what = "newer" =>
           /\ cpc'[c] = "get" /\ csize'[c] = m.size /\ cpos'[c] = 0
           /\ local'[c] = <<>>
  BY DEF Answer, Read, ClientGoes, ServerIdle, serverVars, TypeOK
<1>2. /\ q \in Seq(Unit) /\ Len(q) \in Nat /\ Len(q) > 0 /\ m = q[1]
      /\ Len(Tail(q)) = Len(q) - 1
      /\ \A i \in 1..Len(Tail(q)) : Tail(q)[i] = q[i + 1]
      /\ Len(file) \in Nat /\ spos[c] \in Nat
  <2>1. q \in Seq(Unit) /\ Len(file) \in Nat /\ spos[c] \in Nat
    BY FileUnits DEF TypeOK, Channel, Size
  <2> QED
    BY <1>1, <2>1, SMT
<1>3. CASE m.kind = "content"
  BY <1>1, <1>3 DEF Steady
<1>4. CASE m.kind # "content"
  <2>1. 1 \in 1..Len(q)
    BY <1>2
  <2>2. spc[c] # "reply"
    BY <1>1, <1>2, <1>4, <2>1 DEF OneRequest, NoMessage
  <2>3. /\ m.kind = "message" /\ m.what = "newer" /\ m.size = Len(file)
        /\ Len(q) <= Len(file) + 1
        /\ \A i \in 2..Len(q) : q[i] = file[i - 1]
        /\ spc[c] = "send" => spos[c] = Len(q) - 1
    BY <1>1, <1>2, <1>4, <2>2 DEF Steady, Promised
  <2>4. \A i \in 1..Len(Tail(q)) : Tail(q)[i] = file[i]
    BY <1>2, <2>3
  <2>5. /\ cpc'[c] = "get" /\ csize'[c] = Len(file) /\ cpos'[c] = 0
        /\ local'[c] = <<>> /\ Len(local'[c]) = 0
    BY <1>1, <2>3
  <2>6. Arriving(c)'
    BY <1>1, <1>2, <2>3, <2>4, <2>5 DEF Arriving
  <2> QED
    BY <2>5, <2>6 DEF Steady
<1> QED
  BY <1>3, <1>4

\* What is written behind the end of a file is appended.
LEMMA WriteAtEndOfFile ==
  ASSUME NEW f \in File, NEW u
  PROVE  /\ Len(WriteAt(f, Len(f), u)) = Len(f) + 1
         /\ \A i \in 1..Len(f) : WriteAt(f, Len(f), u)[i] = f[i]
         /\ WriteAt(f, Len(f), u)[Len(f) + 1] = u
<1>1. Len(f) \in Nat
  BY FileUnits DEF Size
<1>2. WriteAt(f, Len(f), u) =
        [i \in 1..(Len(f) + 1) |->
           CASE i = Len(f) + 1 -> u
             [] i # Len(f) + 1 /\ i <= Len(f) -> f[i]
             [] OTHER -> Content(0)]
  BY <1>1 DEF WriteAt
<1>3. DOMAIN WriteAt(f, Len(f), u) = 1..(Len(f) + 1)
  BY <1>2
<1>4. \A i \in 1..Len(f) : /\ i \in 1..(Len(f) + 1)
                          /\ i # Len(f) + 1 /\ i <= Len(f)
  BY <1>1
<1>5. Len(f) + 1 \in 1..(Len(f) + 1)
  BY <1>1
<1>6. \A i \in 1..Len(f) : WriteAt(f, Len(f), u)[i] = f[i]
  BY <1>2, <1>4, Zenon
<1>7. WriteAt(f, Len(f), u)[Len(f) + 1] = u
  BY <1>2, <1>5, Zenon
<1> QED
  BY <1>1, <1>3, <1>6, <1>7

\* The client writes what it has read behind what it has.
LEMMA GetSteady ==
  ASSUME TypeOK, NEW c \in Conn, Steady(c), GetUnit(c)
  PROVE  Steady(c)'
<1> DEFINE q == toClient[c]
<1>1. /\ cpc[c] = "get" /\ q # <<>> /\ toClient'[c] = Tail(q)
      /\ UNCHANGED <<file, spc, answer, ssize, spos>>
      /\ Head(q).kind = "message" => cpc'[c] = "lost"
      /\ Head(q).kind = "content" =>
           /\ cpc'[c] = "get" /\ csize'[c] = csize[c] /\ cpos'[c] = cpos[c] + 1
           /\ local'[c] = WriteAt(local[c], cpos[c], Head(q))
  BY DEF GetUnit, Read, ClientGoes, ServerIdle, serverVars, TypeOK
<1>2. /\ q \in Seq(Unit) /\ Len(q) \in Nat /\ Len(q) > 0 /\ Head(q) = q[1]
      /\ Head(q) \in Unit
      /\ Len(Tail(q)) = Len(q) - 1
      /\ \A i \in 1..Len(Tail(q)) : Tail(q)[i] = q[i + 1]
      /\ Len(file) \in Nat /\ spos[c] \in Nat /\ cpos[c] \in Nat
      /\ local[c] \in File
  <2>1. /\ q \in Seq(Unit) /\ Len(file) \in Nat /\ spos[c] \in Nat
        /\ cpos[c] \in Nat /\ local[c] \in File
    BY FileUnits DEF TypeOK, Channel, Size
  <2> QED
    BY <1>1, <2>1, SMT
<1>3. CASE Head(q).kind = "message"
  BY <1>1, <1>3 DEF Steady
<1>4. CASE Head(q).kind = "content"
  <2>1. Arriving(c)
    BY <1>1 DEF Steady
  <2>2. /\ Len(local'[c]) = cpos[c] + 1
        /\ \A i \in 1..cpos[c] : local'[c][i] = local[c][i]
        /\ local'[c][cpos[c] + 1] = q[1]
    BY <1>1, <1>2, <1>4, <2>1, WriteAtEndOfFile DEF Arriving
  <2>3. q[1] = file[cpos[c] + 1]
    BY <1>2, <2>1 DEF Arriving
  <2>4. \A i \in 1..(cpos[c] + 1) : local'[c][i] = file[i]
    BY <1>2, <2>1, <2>2, <2>3 DEF Arriving
  <2>5. \A i \in 1..Len(Tail(q)) : Tail(q)[i] = file[cpos[c] + 1 + i]
    <3> TAKE i \in 1..Len(Tail(q))
    <3>1. i + 1 \in 1..Len(q) /\ cpos[c] + (i + 1) = cpos[c] + 1 + i
      BY <1>2
    <3>2. q[i + 1] = file[cpos[c] + (i + 1)]
      BY <2>1, <3>1 DEF Arriving
    <3> QED
      BY <1>2, <3>1, <3>2
  <2>6. Arriving(c)'
    BY <1>1, <1>2, <1>4, <2>1, <2>2, <2>4, <2>5, SMTT(20) DEF Arriving
  <2> QED
    BY <1>1, <1>4, <2>6 DEF Steady
<1> QED
  BY <1>2, <1>3, <1>4, UnitFields

LEMMA SteadyClient ==
  ASSUME TypeOK, Requests, SteadyFile, NEW c \in Conn,
         ClientStep(c) \/ Save(c) \/ Kill(c)
  PROVE  SteadyFile'
<1> SUFFICES ASSUME NEW d \in Conn, d \in steady'
             PROVE  Steady(d)'
  BY TypeClient DEF SteadyFile, TypeOK
<1>1. steady' \subseteq steady /\ UNCHANGED <<file, spc, answer, ssize, spos>>
  BY DEF ClientStep, Save, Kill, Offer, Answer, SendUnit, SendEnds, GetUnit,
         GetEnds, GetSpins, ClientExits, history, ServerIdle, serverVars
<1>2. Steady(d) /\ OneRequest(d)
  BY <1>1 DEF SteadyFile, Requests
<1>3. CASE d # c
  <2>1. /\ local'[d] = local[d] /\ toClient'[d] = toClient[d]
        /\ cpc'[d] = cpc[d] /\ csize'[d] = csize[d] /\ cpos'[d] = cpos[d]
    <3> USE DEF TypeOK, ClientGoes, clientVars, Read
    <3>1. CASE Offer(c) \/ SendUnit(c) \/ SendEnds(c) \/ GetEnds(c)
               \/ GetSpins(c) \/ ClientExits(c) \/ Kill(c)
      BY <1>3, <3>1
      DEF Offer, SendUnit, SendEnds, GetEnds, GetSpins, ClientExits, Kill
    <3>2. CASE Answer(c)
      BY <1>3, <3>2 DEF Answer
    <3>3. CASE GetUnit(c)
      BY <1>3, <3>3 DEF GetUnit
    <3>4. CASE Save(c)
      BY <1>3, <3>4 DEF Save
    <3> QED
      BY <3>1, <3>2, <3>3, <3>4 DEF ClientStep
  <2> QED
    BY <1>1, <1>2, <2>1, SteadyElsewhere
<1>4. CASE d = c
  <2>1. CASE Answer(c)
    BY <1>2, <1>4, <2>1, AnswerSteady
  <2>2. CASE GetUnit(c)
    BY <1>2, <1>4, <2>2, GetSteady
  <2>3. CASE GetSpins(c) \/ ClientExits(c) \/ Kill(c)
    <3>1. cpc'[c] \in {"spin", "gone"}
      BY <2>3 DEF GetSpins, ClientExits, Kill, ClientGoes, TypeOK
    <3> QED
      BY <1>4, <3>1 DEF Steady
  <2>4. ~ Offer(c) /\ ~ SendUnit(c) /\ ~ SendEnds(c) /\ ~ GetEnds(c)
    BY <1>2, <1>4 DEF Steady, Offer, SendUnit, SendEnds, GetEnds
  <2>5. CASE Save(c)
    <3>1. cpc[c] \in {"ready", "answer", "send"} /\ UNCHANGED <<toClient, cpc>>
      BY <2>5 DEF Save, clientVars
    <3> QED
      BY <1>1, <1>2, <1>4, <3>1 DEF Steady, Promised
  <2> QED
    BY <2>1, <2>2, <2>3, <2>4, <2>5 DEF ClientStep
<1> QED
  BY <1>3, <1>4

\* The beginning of a row, and a row with one unit more.
LEMMA PrefixUnits ==
  ASSUME NEW q \in Seq(Unit), NEW n \in Nat, n <= Len(q)
  PROVE  /\ SubSeq(q, 1, n) \in Seq(Unit) /\ Len(SubSeq(q, 1, n)) = n
         /\ \A i \in 1..n : SubSeq(q, 1, n)[i] = q[i]
<1>1. \A i \in 1..n : q[i] \in Unit
  BY ElementOfSeq, LenProperties
<1>2. /\ SubSeq(q, 1, n) \in Seq(Unit)
      /\ Len(SubSeq(q, 1, n)) = IF 1 <= n THEN n - 1 + 1 ELSE 0
      /\ \A i \in 1..(n - 1 + 1) : SubSeq(q, 1, n)[i] = q[1 + i - 1]
  BY <1>1, SubSeqProperties
<1>3. n - 1 + 1 = n /\ \A i \in 1..n : 1 + i - 1 = i
  OBVIOUS
<1> QED
  BY <1>2, <1>3

LEMMA AppendedUnit ==
  ASSUME NEW q \in Seq(Unit), NEW u \in Unit
  PROVE  /\ Len(q) \in Nat /\ Len(Append(q, u)) = Len(q) + 1
         /\ Append(q, u) # <<>> /\ Append(q, u)[Len(q) + 1] = u
         /\ \A i \in 1..Len(q) : Append(q, u)[i] = q[i]
         /\ q # <<>> => 1 \in 1..Len(q)
         /\ q = <<>> => Len(q) = 0
<1>1. Len(q) \in Nat /\ Len(Append(q, u)) = Len(q) + 1 /\ Append(q, u) # <<>>
  BY SMT
<1>2. Append(q, u)[Len(q) + 1] = u
  BY SMT
<1>3. \A i \in 1..Len(q) : Append(q, u)[i] = q[i]
  BY SMT
<1>4. q # <<>> => 1 \in 1..Len(q)
  BY SMT
<1>5. q = <<>> => Len(q) = 0
  OBVIOUS
<1> QED
  BY <1>1, <1>2, <1>3, <1>4, <1>5

\* The session announces the file, and sends the response.
LEMMA ReplySteady ==
  ASSUME TypeOK, NEW c \in Conn, OneRequest(c), Steady(c), Reply(c)
  PROVE  Steady(c)'
<1> DEFINE q == toClient[c]
           m == Message(answer[c], ssize[c])
<1>1. /\ spc[c] = "reply" /\ UNCHANGED <<file, local, cpc, csize, cpos>>
      /\ spc'[c] \in {"wait", "open", "send"}
      /\ spc'[c] = "send" => answer[c] = "newer" /\ spos'[c] = 0
  BY DEF Reply, At, Goes, ClientIdle, clientVars, TypeOK
<1>2. cpc[c] # "get"
  BY <1>1 DEF OneRequest
<1>3. CASE cpc[c] # "answer"
  BY <1>1, <1>2, <1>3 DEF Steady
<1>4. CASE cpc[c] = "answer"
  <2>1. NoMessage(q) /\ Promised(c)
    BY <1>1, <1>4 DEF OneRequest, Steady
  <2>2. toClient'[c] = Append(q, m)
    BY <1>4 DEF Reply, SendTo, Write, TypeOK
  <2>3. m \in Unit /\ q \in Seq(Unit) /\ Len(file) \in Nat
    <3>1. q \in Seq(Unit) /\ Len(file) \in Nat
      BY FileUnits DEF TypeOK, Channel, Size
    <3>2. m \in Unit
      BY Units DEF TypeOK
    <3> QED
      BY <3>1, <3>2
  <2>4. /\ Len(q) \in Nat /\ Len(Append(q, m)) = Len(q) + 1
        /\ Append(q, m) # <<>> /\ Append(q, m)[Len(q) + 1] = m
        /\ \A i \in 1..Len(q) : Append(q, m)[i] = q[i]
        /\ q # <<>> => 1 \in 1..Len(q)
        /\ q = <<>> => Len(q) = 0
    BY <2>3, AppendedUnit
  <2>5. CASE q # <<>>
    <3>1. Append(q, m)[1].kind = "content"
      BY <2>1, <2>4, <2>5 DEF NoMessage
    <3> QED
      BY <1>1, <1>4, <2>2, <2>4, <3>1 DEF Steady, Promised
  <2>6. CASE q = <<>>
    <3>1. answer[c] = "newer" /\ ssize[c] = Len(file)
      BY <1>1, <2>1, <2>6 DEF Promised
    <3>2. /\ Append(q, m)[1].kind = "message" /\ Append(q, m)[1].what = "newer"
          /\ Append(q, m)[1].size = Len(file) /\ Len(Append(q, m)) = 1
      BY <2>4, <2>6, <3>1 DEF Message
    <3>3. Promised(c)'
      BY <1>1, <2>2, <2>3, <2>4, <3>2 DEF Promised
    <3> QED
      BY <1>1, <1>4, <3>3 DEF Steady
  <2> QED
    BY <2>5, <2>6
<1> QED
  BY <1>3, <1>4

LEMMA ReplyUnitSteady ==
  ASSUME TypeOK, NEW c \in Conn, Steady(c), ReplyUnit(c)
  PROVE  Steady(c)'
<1> DEFINE q == toClient[c]
           u == file[spos[c] + 1]
<1>1. /\ spc[c] = "send" /\ UNCHANGED <<file, local, cpc, csize, cpos>>
      /\ spc'[c] = "send" /\ spos'[c] = spos[c] + 1 /\ spos[c] < Len(file)
  BY DEF ReplyUnit, At, Goes, ClientIdle, clientVars, TypeOK
<1>2. /\ q \in Seq(Unit) /\ Len(file) \in Nat /\ file \in File
      /\ spos[c] \in Nat /\ cpos[c] \in Nat
  BY FileUnits DEF TypeOK, Channel, Size
<1>3. spos[c] + 1 \in 1..Len(file)
  BY <1>1, <1>2
<1>4. u \in Unit
  BY <1>2, <1>3, FileUnits
<1>5. /\ Len(q) \in Nat /\ Len(Append(q, u)) = Len(q) + 1
      /\ Append(q, u) # <<>> /\ Append(q, u)[Len(q) + 1] = u
      /\ \A i \in 1..Len(q) : Append(q, u)[i] = q[i]
      /\ q # <<>> => 1 \in 1..Len(q)
  BY <1>2, <1>4, AppendedUnit
<1>6. cpc[c] # "gone" => toClient'[c] = Append(q, u)
  BY DEF ReplyUnit, SendTo, Write, TypeOK
<1>7. CASE cpc[c] = "answer"
  <2>1. Promised(c)
    BY <1>7 DEF Steady
  <2>2. CASE q # <<>> /\ q[1].kind = "content"
    BY <1>1, <1>5, <1>6, <1>7, <2>2 DEF Steady, Promised
  <2>3. CASE /\ q # <<>>
             /\ q[1].kind = "message" /\ q[1].what = "newer"
             /\ q[1].size = Len(file)
             /\ \A i \in 2..Len(q) : q[i] = file[i - 1]
             /\ spos[c] = Len(q) - 1
    <3>1. \A i \in 2..Len(Append(q, u)) : Append(q, u)[i] = file[i - 1]
      <4> TAKE i \in 2..Len(Append(q, u))
      <4>1. CASE i = Len(q) + 1
        BY <1>2, <1>5, <2>3, <4>1
      <4>2. CASE i # Len(q) + 1
        <5>1. i \in 1..Len(q) /\ i \in 2..Len(q)
          BY <1>5, <4>2
        <5> QED
          BY <1>5, <2>3, <5>1
      <4> QED
        BY <4>1, <4>2
    <3>2. /\ Append(q, u)[1] = q[1]
          /\ Len(Append(q, u)) <= Len(file) + 1
          /\ spos'[c] = Len(Append(q, u)) - 1
      BY <1>1, <1>2, <1>5, <2>3
    <3>3. Promised(c)'
      BY <1>1, <1>5, <1>6, <1>7, <2>3, <3>1, <3>2 DEF Promised
    <3> QED
      BY <1>1, <1>7, <3>3 DEF Steady
  <2> QED
    BY <1>1, <2>1, <2>2, <2>3 DEF Promised
<1>8. CASE cpc[c] = "get"
  <2>1. Arriving(c) /\ spos[c] = cpos[c] + Len(q)
    BY <1>1, <1>8 DEF Steady, Arriving
  <2>2. \A i \in 1..Len(Append(q, u)) : Append(q, u)[i] = file[cpos[c] + i]
    <3> TAKE i \in 1..Len(Append(q, u))
    <3>1. CASE i = Len(q) + 1
      <4>1. cpos[c] + i = spos[c] + 1
        BY <1>2, <1>5, <2>1, <3>1, SMTT(20)
      <4> QED
        BY <1>5, <3>1, <4>1
    <3>2. CASE i # Len(q) + 1
      <4>1. i \in 1..Len(q)
        BY <1>5, <3>2
      <4> QED
        BY <1>5, <2>1, <4>1 DEF Arriving
    <3> QED
      BY <3>1, <3>2
  <2>3. /\ cpos[c] + Len(Append(q, u)) <= Len(file)
        /\ spos'[c] = cpos[c] + Len(Append(q, u))
    BY <1>1, <1>2, <1>5, <2>1
  <2>4. toClient'[c] = Append(q, u)
    BY <1>6, <1>8
  <2>5. Arriving(c)'
    BY <1>1, <2>1, <2>2, <2>3, <2>4 DEF Arriving
  <2> QED
    BY <1>1, <1>8, <2>5 DEF Steady
<1>9. CASE cpc[c] \notin {"answer", "get"}
  BY <1>1, <1>9 DEF Steady
<1> QED
  BY <1>7, <1>8, <1>9

LEMMA SteadySession ==
  ASSUME TypeOK, Requests, SteadyFile, NEW c \in Conn, Session(c)
  PROVE  SteadyFile'
<1> SUFFICES ASSUME NEW d \in Conn, d \in steady'
             PROVE  Steady(d)'
  BY TypeSession DEF SteadyFile, TypeOK
<1>1. /\ d \in steady \/ (d = c /\ Decide(c))
      /\ file' = file
      /\ UNCHANGED <<local, cpc, csize, cpos>>
  <2> USE DEF ClientIdle, clientVars, history
  <2>1. CASE Open(c) \/ Receive(c)
    BY <2>1 DEF Open, Receive, Puts
  <2>2. CASE ~ Open(c) /\ ~ Receive(c)
    BY <2>2, Session(c)
    DEF Session, Request, Decide, Reply, ReplyUnit, ReplyEnds, ReceiveEnds,
        Disconnect, ServerExits
  <2> QED
    BY <2>1, <2>2
<1>2. OneRequest(d)
  BY DEF Requests
<1>3. CASE ServerExits(c)
  <2>1. Steady(d)
    BY <1>1, <1>3 DEF SteadyFile, Decide, ServerExits
  <2>2. spc'[d] = "over" /\ UNCHANGED toClient
    BY <1>3 DEF ServerExits
  <2>3. CASE cpc[d] = "answer"
    <3>1. Promised(d)
      BY <2>1, <2>3 DEF Steady
    <3>2. CASE spc[d] = "reply" /\ toClient[d] # <<>>
      <4>1. toClient[d] \in Seq(Unit)
        BY DEF TypeOK, Channel
      <4>2. 1 \in 1..Len(toClient[d])
        BY <3>2, <4>1, SMT
      <4>3. toClient[d][1].kind = "content"
        BY <1>2, <2>3, <3>2, <4>2 DEF OneRequest, NoMessage
      <4> QED
        BY <1>1, <2>2, <2>3, <3>2, <4>3 DEF Steady, Promised
    <3>3. CASE ~ (spc[d] = "reply" /\ toClient[d] # <<>>)
      BY <1>1, <2>2, <2>3, <3>1, <3>3 DEF Steady, Promised
    <3> QED
      BY <3>2, <3>3
  <2>4. CASE cpc[d] # "answer"
    BY <1>1, <2>1, <2>2, <2>4 DEF Steady, Arriving
  <2> QED
    BY <2>3, <2>4
<1>4. CASE ~ ServerExits(c) /\ d # c
  <2>1. /\ spc'[d] = spc[d] /\ answer'[d] = answer[d]
        /\ ssize'[d] = ssize[d] /\ spos'[d] = spos[d]
        /\ toClient'[d] = toClient[d]
    <3> USE DEF TypeOK, Goes
    <3>1. CASE Request(c) \/ Decide(c)
      BY <1>4, <3>1 DEF Request, Decide
    <3>2. CASE Reply(c)
      BY <1>4, <3>2 DEF Reply, SendTo, Write
    <3>5. CASE ReplyUnit(c)
      BY <1>4, <3>5 DEF ReplyUnit, SendTo, Write
    <3>3. CASE ReplyEnds(c) \/ Open(c) \/ ReceiveEnds(c) \/ Disconnect(c)
      BY <1>4, <3>3 DEF ReplyEnds, Open, ReceiveEnds, Disconnect
    <3>4. CASE Receive(c)
      BY <1>4, <3>4 DEF Receive
    <3> QED
      BY <1>4, <3>1, <3>2, <3>3, <3>4, <3>5, Session(c) DEF Session
  <2>2. Steady(d)
    BY <1>1, <1>4 DEF SteadyFile
  <2> QED
    BY <1>1, <2>1, <2>2, SteadyElsewhere
<1>5. CASE d = c /\ Decide(c)
  <2>1. /\ spc[c] = "lock" /\ spc'[c] = "reply" /\ toClient'[c] = toClient[c]
        /\ \/ c \in steady
           \/ answer'[c] = "newer" /\ ssize'[c] = Len(file)
    BY <1>5, <1>1 DEF Decide, At, Goes, TypeOK
  <2>2. cpc[c] \notin {"ready", "send", "get"}
    BY <1>2, <1>5, <2>1 DEF OneRequest
  <2>3. CASE c \in steady
    <3>1. Steady(c)
      BY <2>3 DEF SteadyFile
    <3> QED
      BY <1>1, <1>5, <2>1, <2>2, <3>1 DEF Steady, Promised
  <2>4. CASE answer'[c] = "newer" /\ ssize'[c] = Len(file)
    BY <1>1, <1>5, <2>1, <2>2, <2>4 DEF Steady, Promised
  <2> QED
    BY <2>1, <2>3, <2>4
<1>6. CASE d = c /\ ~ Decide(c) /\ ~ ServerExits(c)
  <2>1. Steady(c) /\ OneRequest(c)
    BY <1>1, <1>2, <1>6 DEF SteadyFile
  <2>2. CASE Reply(c)
    BY <1>6, <2>1, <2>2, ReplySteady
  <2>3. CASE ReplyUnit(c)
    BY <1>6, <2>1, <2>3, ReplyUnitSteady
  <2>4. CASE ~ Reply(c) /\ ~ ReplyUnit(c)
    <3>1. /\ spc[c] # "reply" /\ spc[c] # "over"
          /\ spc'[c] \notin {"reply", "send"}
          /\ toClient'[c] = toClient[c]
      <4> USE DEF At, Goes, TypeOK
      <4>1. CASE Request(c) \/ ReplyEnds(c) \/ Open(c)
        BY <4>1 DEF Request, ReplyEnds, Open
      <4>2. CASE Receive(c) \/ ReceiveEnds(c) \/ Disconnect(c)
        BY <4>2 DEF Receive, ReceiveEnds, Disconnect
      <4> QED
        BY <1>6, <2>4, <4>1, <4>2, Session(c) DEF Session
    <3> QED
      BY <1>1, <1>6, <2>1, <3>1 DEF Steady, Promised, Arriving
  <2> QED
    BY <2>2, <2>3, <2>4
<1> QED
  BY <1>3, <1>4, <1>5, <1>6

-----------------------------------------------------------------------------
(* The theorems. *)

LEMMA TransferInit ==
  Init => IInv
<1> SUFFICES ASSUME Init
             PROVE  IInv
  OBVIOUS
<1>1. Requests
  BY DEF Init, Requests, OneRequest, NoMessage
<1>2. SteadyFile
  BY DEF Init, SteadyFile
<1> QED
  BY <1>1, <1>2, TypeInit, InStepInit DEF IInv

LEMMA TransferNext ==
  IInv /\ [Next]_vars => IInv'
<1> SUFFICES ASSUME IInv, [Next]_vars
             PROVE  IInv'
  OBVIOUS
<1> USE DEF IInv
<1>1. ASSUME NEW c \in Conn, Session(c)
      PROVE  IInv'
  BY <1>1, TypeSession, InStepSession, RequestsSession, SteadySession
<1>2. ASSUME NEW c \in Conn, ClientStep(c) \/ Save(c) \/ Kill(c)
      PROVE  IInv'
  BY <1>2, TypeClient, InStepClient, RequestsClient, SteadyClient
<1>3. CASE UNCHANGED vars
  <2> USE <1>3 DEF vars, serverVars, clientVars, history
  <2>1. TypeOK'
    BY TypeStutter
  <2>2. InStep'
    BY DEF InStep, InStepAt, Quiet, Requested, Agreed, Download, Downloaded,
           Upload, ClientLeft, ServerLeft
  <2>3. Requests'
    BY DEF Requests, OneRequest
  <2>4. SteadyFile'
    BY DEF SteadyFile, Steady, Promised, Arriving
  <2> QED
    BY <2>1, <2>2, <2>3, <2>4
<1> QED
  BY <1>1, <1>2, <1>3 DEF Next

\* The inductive invariant: the types, the framing, one request at a time, and
\* the content of the downloads that nobody disturbs.
THEOREM TransferInvariance ==
  Spec => []IInv
  BY TransferInit, TransferNext, PTL DEF Spec

\* Every variable has its type; what send_file and get_file write stays within
\* the file and the buffers.
THEOREM TransferTypeCorrect ==
  Spec => []TypeOK
<1>1. IInv => TypeOK
  BY DEF IInv
<1> QED
  BY <1>1, TransferInvariance, PTL

\* Neither end reads content as a message or a message as content, on any
\* connection whose files kept the size that was announced.
THEOREM BytesStayAligned ==
  Spec => []Aligned
<1>1. IInv => Aligned
  <2> SUFFICES ASSUME IInv, NEW c \in Conn, c \notin resized
               PROVE  /\ spc[c] # "lost" /\ cpc[c] # "lost"
                      /\ cpc[c] = "ready" => toClient[c] = <<>>
    BY DEF Aligned
  <2>1. InStepAt(c)
    BY DEF IInv, InStep
  <2>2. toClient[c] \in Seq(Unit)
    BY DEF IInv, TypeOK, Channel
  <2>3. spc[c] # "lost" /\ cpc[c] # "lost"
    BY <2>1
    DEF InStepAt, Quiet, Requested, Agreed, Download, Downloaded, Upload,
        ClientLeft, ServerLeft
  <2>4. cpc[c] = "ready" => Row(toClient[c], 0)
    BY <2>1
    DEF InStepAt, Quiet, Requested, Agreed, Download, Downloaded, Upload,
        ClientLeft, ServerLeft
  <2> QED
    BY <2>2, <2>3, <2>4, RowOfNone
<1> QED
  BY <1>1, TransferInvariance, PTL

\* What a client has got of a file that nobody uploads meanwhile, and what is
\* on its way, is the file as it was announced from its beginning.
THEOREM DownloadsAreWhole ==
  Spec => []DownloadIsWhole
<1>1. IInv => DownloadIsWhole
  <2> SUFFICES ASSUME IInv, NEW c \in steady, cpc[c] = "get"
               PROVE  /\ csize[c] = Len(file)
                      /\ IsPrefix(local[c] \o toClient[c], file)
    BY DEF DownloadIsWhole
  <2> DEFINE s == local[c] \o toClient[c]
  <2>1. c \in Conn /\ Arriving(c)
    BY DEF IInv, TypeOK, SteadyFile, Steady
  <2>2. /\ local[c] \in Seq(Unit) /\ toClient[c] \in Seq(Unit)
        /\ file \in Seq(Unit)
    BY <2>1, FileUnits DEF IInv, TypeOK, Channel
  <2>3. /\ s \in Seq(Unit) /\ Len(s) = Len(local[c]) + Len(toClient[c])
        /\ \A i \in 1..Len(s) :
             s[i] = IF i <= Len(local[c]) THEN local[c][i]
                                          ELSE toClient[c][i - Len(local[c])]
        /\ Len(local[c]) \in Nat /\ Len(toClient[c]) \in Nat
        /\ Len(file) \in Nat
    BY <2>2, ConcatProperties, LenProperties
  <2> HIDE DEF s
  <2>4. Len(s) <= Len(file)
    BY <2>1, <2>3 DEF Arriving
  <2>5. \A i \in 1..Len(s) : s[i] = file[i]
    <3> TAKE i \in 1..Len(s)
    <3>1. CASE i <= Len(local[c])
      BY <2>1, <2>3, <3>1 DEF Arriving
    <3>2. CASE i > Len(local[c])
      <4> DEFINE n == Len(local[c])
                 k == Len(toClient[c])
      <4>1. n \in Nat /\ k \in Nat /\ Len(s) = n + k
        BY <2>3
      <4>2. n = cpos[c] /\ \A j \in 1..k : toClient[c][j] = file[n + j]
        BY <2>1 DEF Arriving
      <4>3. s[i] = IF i <= n THEN local[c][i] ELSE toClient[c][i - n]
        BY <2>3
      <4> HIDE DEF n, k
      <4>4. i \in Int /\ i > n /\ i <= n + k
        BY <3>2, <4>1 DEF n
      <4>5. i - n \in 1..k /\ n + (i - n) = i /\ ~ (i <= n)
        BY <4>1, <4>4
      <4>6. toClient[c][i - n] = file[i]
        BY <4>2, <4>5
      <4> QED
        BY <4>3, <4>5, <4>6
    <3> QED
      BY <2>3, <3>1, <3>2
  <2>6. SubSeq(s, 1, Len(s)) = SubSeq(file, 1, Len(s))
    <3> DEFINE t == SubSeq(s, 1, Len(s))
               v == SubSeq(file, 1, Len(s))
    <3>1. Len(s) \in Nat /\ Len(s) <= Len(s)
      <4>1. s \in Seq(Unit)
        BY <2>3
      <4>2. Len(s) \in Nat
        BY <4>1, LenProperties
      <4> QED
        BY <4>2
    <3>2. /\ t \in Seq(Unit) /\ Len(t) = Len(s)
          /\ \A i \in 1..Len(s) : t[i] = s[i]
      BY <2>3, <3>1, PrefixUnits
    <3>3. /\ v \in Seq(Unit) /\ Len(v) = Len(s)
          /\ \A i \in 1..Len(s) : v[i] = file[i]
      BY <2>2, <2>4, <3>1, PrefixUnits
    <3> HIDE DEF t, v
    <3>4. t = v
      BY <2>3, <2>5, <3>2, <3>3, SeqEqual
    <3> QED
      BY <3>4 DEF t, v
  <2> QED
    BY <2>1, <2>4, <2>6 DEF IsPrefix, Arriving, s
<1> QED
  BY <1>1, TransferInvariance, PTL
=============================================================================
