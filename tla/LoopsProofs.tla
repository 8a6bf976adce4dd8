------------------------------ MODULE LoopsProofs -----------------------------
(***************************************************************************)
(* The closed forms of FileTable are what the loops of FileTableLoops      *)
(* compute, for arrays of any size and every fileLength, also one beyond   *)
(* the array.  A loop is a recursive function; that it obeys its equation  *)
(* follows from some function that does, and what it yields from the       *)
(* equation by looking at the least counterexample.                        *)
(***************************************************************************)
EXTENDS FileTableLoops, FileTableProofs, WellFoundedInduction

-----------------------------------------------------------------------------
(* Induction without an operator as parameter. *)

\* A set of numbers that is not empty has a least element.
LEMMA LeastNumber ==
  ASSUME NEW T, T \subseteq Nat, T # {}
  PROVE  \E x \in T : \A y \in T : x <= y
<1>1. IsWellFoundedOn(OpToRel(<, Nat), Nat)
  BY NatLessThanWellFounded
<1>2. PICK x \in T : \A y \in T : ~ (<<y, x>> \in OpToRel(<, Nat))
  BY <1>1, WFMin, Zenon
<1>3. \A y \in T : ~ (y < x)
  <2> TAKE y \in T
  <2>1. <<y, x>> \in Nat \X Nat
    OBVIOUS
  <2> QED
    BY <1>2, <2>1 DEF OpToRel
<1> QED
  BY <1>3

\* A set of numbers with a and every successor, up to n, has all from a to n.
LEMMA Counting ==
  ASSUME NEW a \in Nat, NEW n \in Nat, NEW S,
         a \in S,
         \A i \in a..n : i < n /\ i \in S => i + 1 \in S
  PROVE  a..n \subseteq S
<1> DEFINE Bad == (a..n) \ S
<1> SUFFICES ASSUME Bad # {} PROVE FALSE
  OBVIOUS
<1>1. PICK x \in Bad : \A y \in Bad : x <= y
  <2>1. Bad \subseteq Nat
    OBVIOUS
  <2> HIDE DEF Bad
  <2> QED
    BY <2>1, LeastNumber
<1>2. x # a /\ x - 1 \in a..n /\ x - 1 \notin Bad
  BY <1>1
<1> QED
  BY <1>1, <1>2

\* The other way round.
LEMMA CountingDown ==
  ASSUME NEW n \in Nat, NEW S,
         n + 1 \in S,
         \A i \in 1..n : i + 1 \in S => i \in S
  PROVE  1..(n + 1) \subseteq S
<1> DEFINE T == {k \in 0..n : n + 1 - k \in S}
<1>1. \A k \in 0..n : k < n /\ k \in T => k + 1 \in T
  <2> TAKE k \in 0..n
  <2> HAVE k < n /\ k \in T
  <2>1. n - k \in 1..n /\ (n - k) + 1 = n + 1 - k /\ n + 1 - (k + 1) = n - k
    OBVIOUS
  <2> QED
    BY <2>1
<1>2. 0..n \subseteq T
  <2> HIDE DEF T
  <2>1. 0 \in T
    BY DEF T
  <2> QED
    BY <1>1, <2>1, Counting
<1>3. ASSUME NEW i \in 1..(n + 1) PROVE i \in S
  <2>1. n + 1 - i \in 0..n /\ n + 1 - (n + 1 - i) = i
    OBVIOUS
  <2> QED
    BY <1>2, <2>1
<1> QED
  BY <1>3

-----------------------------------------------------------------------------
(* The loops that search. *)

\* The first index from i on that is in hit, 0 when there is none.
FirstHit(i, n, hit) ==
  IF \E k \in i..n : k \in hit
  THEN CHOOSE k \in i..n : k \in hit /\ \A j \in i..(k - 1) : j \notin hit
  ELSE 0

\* What it is.
LEMMA FirstHitIs ==
  ASSUME NEW n \in Nat, NEW i \in 1..(n + 1), NEW hit
  PROVE  LET k == FirstHit(i, n, hit)
         IN  \/ k = 0 /\ \A j \in i..n : j \notin hit
             \/ k \in i..n /\ k \in hit /\ \A j \in i..(k - 1) : j \notin hit
<1>1. CASE \E k \in i..n : k \in hit
  <2> DEFINE T == {k \in i..n : k \in hit}
  <2>1. T \subseteq Nat /\ T # {}
    BY <1>1
  <2>2. PICK k \in T : \A y \in T : k <= y
    BY <2>1, LeastNumber
  <2>3. k \in i..n /\ k \in hit /\ \A j \in i..(k - 1) : j \notin hit
    BY <2>2
  <2> QED
    BY <1>1, <2>3 DEF FirstHit
<1>2. CASE ~ \E k \in i..n : k \in hit
  BY <1>2 DEF FirstHit
<1> QED
  BY <1>1, <1>2

\* It obeys the equation of a loop that stops at the first hit.
LEMMA FirstHitStep ==
  ASSUME NEW n \in Nat, NEW i \in 1..(n + 1), NEW hit
  PROVE  FirstHit(i, n, hit) =
           IF i > n THEN 0 ELSE IF i \in hit THEN i ELSE FirstHit(i + 1, n, hit)
<1>1. CASE i > n
  BY <1>1, FirstHitIs
<1>2. CASE i <= n /\ i \in hit
  BY <1>2, FirstHitIs
<1>3. CASE i <= n /\ i \notin hit
  <2>1. i + 1 \in 1..(n + 1)
    BY <1>3
  <2> DEFINE k == FirstHit(i, n, hit)
             m == FirstHit(i + 1, n, hit)
  <2>2. \/ k = 0 /\ \A j \in i..n : j \notin hit
        \/ k \in i..n /\ k \in hit /\ \A j \in i..(k - 1) : j \notin hit
    BY FirstHitIs
  <2>3. \/ m = 0 /\ \A j \in (i + 1)..n : j \notin hit
        \/ m \in (i + 1)..n /\ m \in hit /\ \A j \in (i + 1)..(m - 1) : j \notin hit
    BY <2>1, FirstHitIs
  <2> HIDE DEF k, m
  <2>4. k = m
    BY <1>3, <2>2, <2>3
  <2> QED
    BY <1>3, <2>4 DEF k, m
<1> QED
  BY <1>1, <1>2, <1>3

\* Whatever obeys it is the first hit.
LEMMA SearchIsFirstHit ==
  ASSUME NEW n \in Nat, NEW hit, NEW f,
         \A i \in 1..(n + 1) :
           f[i] = IF i > n THEN 0 ELSE IF i \in hit THEN i ELSE f[i + 1]
  PROVE  f[1] = FirstHit(1, n, hit)
<1> DEFINE S == {i \in 1..(n + 1) : f[i] = FirstHit(i, n, hit)}
<1>1. n + 1 \in S
  BY FirstHitStep
<1>2. \A i \in 1..n : i + 1 \in S => i \in S
  BY FirstHitStep
<1>3. 1..(n + 1) \subseteq S
  <2> HIDE DEF S
  <2> QED
    BY <1>1, <1>2, CountingDown
<1> QED
  BY <1>3

-----------------------------------------------------------------------------
(* The three searches. *)

\* Where check_file stops, and where the search for vanished files does.
Stopping(name) == {i \in Slot : Stops(files, name, i)}
Vanishing == {i \in 1..len : Missing(files, disk, i)}

\* check_file.
LEMMA CheckFileLoop ==
  ASSUME NEW name
  PROVE  check_file(name) = FirstHit(1, MaxFiles, Stopping(name))
<1> DEFINE D == 1..(MaxFiles + 1)
           from == CHOOSE f : f =
             [i \in D |->
                IF i > MaxFiles THEN 0
                ELSE IF files[i].filename = name THEN i
                ELSE IF files[i].filename = NoName THEN i
                ELSE f[i + 1]]
           first == [i \in D |-> FirstHit(i, MaxFiles, Stopping(name))]
<1>0. MaxFiles \in Nat
  BY FileTableAssumption
<1>1. check_file(name) = from[1]
  BY Zenon DEF check_file
<1>2. \A i \in 1..MaxFiles : i \in Stopping(name) <=>
        files[i].filename = name \/ files[i].filename = NoName
  BY DEF Stopping, Stops, Slot
<1>3. first = [i \in D |->
                 IF i > MaxFiles THEN 0
                 ELSE IF files[i].filename = name THEN i
                 ELSE IF files[i].filename = NoName THEN i
                 ELSE first[i + 1]]
  <2>1. ASSUME NEW i \in D
        PROVE  FirstHit(i, MaxFiles, Stopping(name)) =
                 IF i > MaxFiles THEN 0
                 ELSE IF files[i].filename = name THEN i
                 ELSE IF files[i].filename = NoName THEN i
                 ELSE first[i + 1]
    <3>1. CASE i > MaxFiles
      BY <1>0, <3>1, FirstHitStep
    <3>2. CASE i <= MaxFiles
      <4>1. i + 1 \in D /\ i \in 1..MaxFiles
        BY <1>0, <3>2
      <4> QED
        BY <1>0, <1>2, <3>2, <4>1, FirstHitStep
    <3> QED
      BY <1>0, <3>1, <3>2
  <2> QED
    BY <2>1
<1>4. from = [i \in D |->
                IF i > MaxFiles THEN 0
                ELSE IF files[i].filename = name THEN i
                ELSE IF files[i].filename = NoName THEN i
                ELSE from[i + 1]]
  BY <1>3, Zenon
<1> HIDE DEF from
<1>5. \A i \in 1..(MaxFiles + 1) :
        from[i] = IF i > MaxFiles THEN 0
                  ELSE IF i \in Stopping(name) THEN i ELSE from[i + 1]
  BY <1>0, <1>2, <1>4
<1> QED
  BY <1>0, <1>1, <1>5, SearchIsFirstHit

\* The loop that looks for a file that is gone.
LEMMA VanishedLoop ==
  ASSUME len \in Nat
  PROVE  Vanished = FirstHit(1, len, Vanishing)
<1> DEFINE D == 1..(len + 1)
           from == CHOOSE f : f =
             [i \in D |->
                IF i > len THEN 0
                ELSE IF ~ Exists(disk, At(files, i).filename) THEN i
                ELSE f[i + 1]]
           first == [i \in D |-> FirstHit(i, len, Vanishing)]
<1>1. Vanished = from[1]
  BY Zenon DEF Vanished
<1>2. \A i \in 1..len : i \in Vanishing <=> ~ Exists(disk, At(files, i).filename)
  BY DEF Vanishing, Missing
<1>3. first = [i \in D |->
                 IF i > len THEN 0
                 ELSE IF ~ Exists(disk, At(files, i).filename) THEN i
                 ELSE first[i + 1]]
  <2>1. ASSUME NEW i \in D
        PROVE  FirstHit(i, len, Vanishing) =
                 IF i > len THEN 0
                 ELSE IF ~ Exists(disk, At(files, i).filename) THEN i
                 ELSE first[i + 1]
    <3>1. CASE i > len
      BY <3>1, FirstHitStep
    <3>2. CASE i <= len
      <4>1. i + 1 \in D /\ i \in 1..len
        BY <3>2
      <4> QED
        BY <1>2, <3>2, <4>1, FirstHitStep
    <3> QED
      BY <3>1, <3>2
  <2> QED
    BY <2>1
<1>4. from = [i \in D |->
                IF i > len THEN 0
                ELSE IF ~ Exists(disk, At(files, i).filename) THEN i
                ELSE from[i + 1]]
  BY <1>3, Zenon
<1> HIDE DEF from
<1>5. \A i \in 1..(len + 1) :
        from[i] = IF i > len THEN 0
                  ELSE IF i \in Vanishing THEN i ELSE from[i + 1]
  BY <1>2, <1>4
<1> QED
  BY <1>1, <1>5, SearchIsFirstHit

\* The loop of send_new_file ends where check_file does, and tells which of the
\* two reasons there was.
LEMMA FoundLoop ==
  ASSUME NEW name, name # NoName
  PROVE  LET k == FirstHit(1, MaxFiles, Stopping(name))
         IN  Found(name) = (k # 0 /\ files[k].filename = name)
<1> DEFINE D == 1..(MaxFiles + 1)
           from == CHOOSE f : f =
             [j \in D |->
                IF j > MaxFiles THEN FALSE
                ELSE IF files[j].filename = NoName THEN FALSE
                ELSE IF files[j].filename = name THEN TRUE
                ELSE f[j + 1]]
           First(j) == FirstHit(j, MaxFiles, Stopping(name))
           Holds(j) == First(j) # 0 /\ files[First(j)].filename = name
           there == [j \in D |-> Holds(j)]
<1>0. MaxFiles \in Nat
  BY FileTableAssumption
<1>1. Found(name) = from[1]
  BY Zenon DEF Found
<1>2. \A j \in 1..MaxFiles : j \in Stopping(name) <=>
        files[j].filename = name \/ files[j].filename = NoName
  BY DEF Stopping, Stops, Slot
<1>3. ASSUME NEW j \in D
      PROVE  /\ j > MaxFiles => Holds(j) = FALSE
             /\ j <= MaxFiles /\ files[j].filename = NoName => Holds(j) = FALSE
             /\ j <= MaxFiles /\ files[j].filename = name => Holds(j) = TRUE
             /\ j <= MaxFiles /\ files[j].filename \notin {name, NoName} =>
                  j + 1 \in D /\ Holds(j) = Holds(j + 1)
  <2>1. First(j) = IF j > MaxFiles THEN 0
                   ELSE IF j \in Stopping(name) THEN j ELSE First(j + 1)
    BY <1>0, FirstHitStep
  <2> HIDE DEF First
  <2>2. CASE j > MaxFiles
    BY <1>0, <2>1, <2>2
  <2>3. CASE j <= MaxFiles
    <3>1. j \in 1..MaxFiles /\ j + 1 \in D /\ j # 0 /\ ~ (j > MaxFiles)
      BY <1>0, <2>3
    <3>2. CASE files[j].filename = NoName
      BY <1>2, <2>1, <3>1, <3>2
    <3>3. CASE files[j].filename = name
      BY <1>2, <2>1, <3>1, <3>3
    <3>4. CASE files[j].filename \notin {name, NoName}
      <4>1. First(j) = First(j + 1)
        BY <1>2, <2>1, <3>1, <3>4
      <4> QED
        BY <3>1, <3>4, <4>1
    <3> QED
      BY <3>1, <3>2, <3>3, <3>4
  <2> QED
    BY <1>0, <2>2, <2>3
<1>4. there = [j \in D |->
                 IF j > MaxFiles THEN FALSE
                 ELSE IF files[j].filename = NoName THEN FALSE
                 ELSE IF files[j].filename = name THEN TRUE
                 ELSE there[j + 1]]
  <2>1. ASSUME NEW j \in D
        PROVE  Holds(j) = IF j > MaxFiles THEN FALSE
                          ELSE IF files[j].filename = NoName THEN FALSE
                          ELSE IF files[j].filename = name THEN TRUE
                          ELSE there[j + 1]
    <3>1. CASE j > MaxFiles
      BY <1>3, <3>1, Zenon
    <3>2. CASE j <= MaxFiles
      <4>1. ~ (j > MaxFiles)
        BY <1>0, <3>2
      <4>2. CASE files[j].filename = NoName
        BY <1>3, <3>2, <4>1, <4>2, Zenon
      <4>3. CASE files[j].filename = name
        BY <1>3, <3>2, <4>1, <4>3, Zenon
      <4>4. CASE files[j].filename \notin {name, NoName}
        <5>1. j + 1 \in D /\ Holds(j) = Holds(j + 1)
          BY <1>3, <3>2, <4>4
        <5>2. there[j + 1] = Holds(j + 1)
          BY <5>1, Zenon
        <5> QED
          BY <4>1, <4>4, <5>1, <5>2, Zenon
      <4> QED
        BY <4>2, <4>3, <4>4
    <3>3. j > MaxFiles \/ j <= MaxFiles
      BY <1>0
    <3> QED
      BY <3>1, <3>2, <3>3, Zenon
  <2> HIDE DEF Holds
  <2> QED
    BY <2>1
<1>5. from = [j \in D |->
                IF j > MaxFiles THEN FALSE
                ELSE IF files[j].filename = NoName THEN FALSE
                ELSE IF files[j].filename = name THEN TRUE
                ELSE from[j + 1]]
  BY <1>4, Zenon
<1> HIDE DEF from, Holds
<1>6. 1..(MaxFiles + 1) \subseteq {j \in D : from[j] = Holds(j)}
  <2> DEFINE S == {j \in D : from[j] = Holds(j)}
  <2>1. MaxFiles + 1 \in S
    <3>1. MaxFiles + 1 \in D /\ MaxFiles + 1 > MaxFiles
      BY <1>0
    <3>2. from[MaxFiles + 1] = FALSE /\ Holds(MaxFiles + 1) = FALSE
      BY <1>3, <1>5, <3>1, Zenon
    <3> QED
      BY <3>1, <3>2
  <2>2. ASSUME NEW j \in 1..MaxFiles, j + 1 \in S PROVE j \in S
    <3>1. j \in D /\ ~ (j > MaxFiles) /\ j <= MaxFiles
      BY <1>0
    <3>2. from[j] = IF files[j].filename = NoName THEN FALSE
                    ELSE IF files[j].filename = name THEN TRUE
                    ELSE from[j + 1]
      BY <1>5, <3>1
    <3>3. from[j] = Holds(j)
      BY <1>3, <2>2, <3>1, <3>2
    <3> QED
      BY <3>1, <3>3
  <2> HIDE DEF S
  <2>3. 1..(MaxFiles + 1) \subseteq S
    BY <1>0, <2>1, <2>2, CountingDown
  <2> QED
    BY <2>3 DEF S
<1>7. 1 \in 1..(MaxFiles + 1)
  BY <1>0
<1>8. from[1] = Holds(1)
  BY <1>6, <1>7
<1> QED
  BY <1>1, <1>8, Zenon DEF Holds

\* The searches agree with FileTable in every state of the right types.
LEMMA SearchesAgreeWhenTyped ==
  ASSUME files \in FileArray, len \in Nat
  PROVE  SearchesAgree
<1>0. MaxFiles \in Nat /\ Slot = 1..MaxFiles /\ 1 \in 1..(MaxFiles + 1)
  BY FileTableAssumption DEF Slot
<1>1. ASSUME NEW name \in FileName
      PROVE  LET i == check_file(name)
             IN  /\ {j \in Slot : CheckFile(files, name, j)} = {i} \ {0}
                 /\ TableFull(files, name) = (i = 0)
                 /\ Listed(files, name) = Found(name)
  <2> DEFINE k == FirstHit(1, MaxFiles, Stopping(name))
  <2>1. check_file(name) = k
    BY CheckFileLoop
  <2>2. \/ k = 0 /\ \A j \in 1..MaxFiles : j \notin Stopping(name)
        \/ /\ k \in 1..MaxFiles /\ k \in Stopping(name)
           /\ \A j \in 1..(k - 1) : j \notin Stopping(name)
    BY <1>0, FirstHitIs
  <2>3. name # NoName
    BY FileTableAssumption DEF EntryName
  <2>4. Found(name) = (k # 0 /\ files[k].filename = name)
    BY <2>3, FoundLoop
  <2> HIDE DEF k
  <2>5. \A j \in Slot : j \in Stopping(name) <=> Stops(files, name, j)
    BY DEF Stopping
  <2>6. {j \in Slot : CheckFile(files, name, j)} = {k} \ {0}
    BY <1>0, <2>2, <2>5 DEF CheckFile
  <2>7. TableFull(files, name) = (k = 0)
    <3>1. TableFull(files, name) <=> k = 0
      BY <1>0, <2>2, <2>5 DEF TableFull
    <3> QED
      BY <3>1, Zenon DEF TableFull
  <2>8. Listed(files, name) = (k # 0 /\ files[k].filename = name)
    <3>1. ASSUME Listed(files, name)
          PROVE  k # 0 /\ files[k].filename = name
      <4>1. PICK i \in Slot : /\ files[i].filename = name
                             /\ \A j \in 1..(i - 1) : files[j].filename # NoName
        BY <3>1 DEF Listed
      <4>2. i \in Stopping(name)
        BY <2>5, <4>1 DEF Stops
      <4>3. k # 0 /\ k <= i
        BY <1>0, <2>2, <4>2
      <4>4. k # i => files[k].filename # NoName
        BY <1>0, <2>2, <4>1, <4>3
      <4>5. k = i => files[k].filename # NoName
        BY <2>3, <4>1
      <4> QED
        BY <1>0, <2>2, <2>5, <4>3, <4>4, <4>5 DEF Stops
    <3>2. ASSUME k # 0, files[k].filename = name
          PROVE  Listed(files, name)
      <4>1. \A j \in 1..(k - 1) : j \in Slot /\ ~ Stops(files, name, j)
        BY <1>0, <2>2, <2>5, <3>2
      <4> QED
        BY <1>0, <2>2, <3>2, <4>1 DEF Listed, Stops
    <3> QED
      BY <3>1, <3>2, Zenon DEF Listed
  <2> QED
    BY <2>1, <2>4, <2>6, <2>7, <2>8
<1>2. /\ {i \in 1..len : FirstMissing(files, len, disk, i)} = {Vanished} \ {0}
      /\ NoneMissing(files, len, disk) = (Vanished = 0)
  <2> DEFINE k == FirstHit(1, len, Vanishing)
  <2>1. Vanished = k
    BY VanishedLoop
  <2>2. \/ k = 0 /\ \A j \in 1..len : j \notin Vanishing
        \/ /\ k \in 1..len /\ k \in Vanishing
           /\ \A j \in 1..(k - 1) : j \notin Vanishing
    BY FirstHitIs
  <2> HIDE DEF k
  <2>3. \A j \in 1..len : j \in Vanishing <=> Missing(files, disk, j)
    BY DEF Vanishing
  <2>4. {i \in 1..len : FirstMissing(files, len, disk, i)} = {k} \ {0}
    BY <2>2, <2>3 DEF FirstMissing
  <2>5. NoneMissing(files, len, disk) = (k = 0)
    <3>1. NoneMissing(files, len, disk) <=> k = 0
      BY <2>2, <2>3 DEF NoneMissing
    <3> QED
      BY <3>1, Zenon DEF NoneMissing
  <2> QED
    BY <2>1, <2>4, <2>5
<1> QED
  BY <1>1, <1>2 DEF SearchesAgree

-----------------------------------------------------------------------------
(* refresh_file_times. *)

\* Entries name regular files only.
Plain(table) ==
  \A i \in Slot : table[i].filename \in FileName \cup {NoName}

\* After j iterations the first j entries are as RefreshTimes says.
Refreshing(j) ==
  [files |-> [i \in Slot |-> IF i <= j THEN RefreshTimes[i]
                             ELSE files[i]],
   stopped |-> \E i \in 1..j : files[i].filename = NoName]

\* That obeys the equation of the loop.
LEMMA RefreshingStep ==
  ASSUME files \in FileArray, Plain(files), disk \in Folders,
         NEW j \in 1..MaxFiles
  PROVE  Refreshing(j) =
           LET p == Refreshing(j - 1)
               name == p.files[j].filename
           IN  IF p.stopped \/ name = NoName
               THEN [p EXCEPT !.stopped = TRUE]
               ELSE IF Exists(disk, name)
               THEN [p EXCEPT !.files = RefreshEntry(p.files, j, disk, 0)]
               ELSE p
<1> DEFINE fresh == RefreshTimes
           upto(k) == [i \in Slot |-> IF i <= k THEN fresh[i] ELSE files[i]]
           stop(k) == \E i \in 1..k : files[i].filename = NoName
           name == files[j].filename
<1>0. MaxFiles \in Nat /\ Slot = 1..MaxFiles /\ j \in Slot /\ j - 1 \in Nat
  BY FileTableAssumption DEF Slot
<1>1. /\ Refreshing(j) = [files |-> upto(j), stopped |-> stop(j)]
      /\ Refreshing(j - 1) = [files |-> upto(j - 1), stopped |-> stop(j - 1)]
  BY DEF Refreshing
<1>2. upto(j - 1)[j] = files[j]
  BY <1>0
<1>3. fresh[j] = IF /\ \A i \in 1..j : files[i].filename # NoName
                    /\ Exists(disk, name)
                    /\ files[j].mtime < MTime(disk, name, 0)
                 THEN [files[j] EXCEPT !.mtime = MTime(disk, name, 0)]
                 ELSE files[j]
  BY <1>0 DEF RefreshTimes
<1>4. name \in FileName => MTime(disk, name, 0) = disk[name].mtime
  BY FileTableAssumption DEF MTime
<1>5. name \in FileName \cup {NoName}
  BY <1>0 DEF Plain
<1>6. \A i \in Slot : i # j => upto(j)[i] = upto(j - 1)[i]
  BY <1>0
<1>7. upto(j)[j] = fresh[j]
  BY <1>0
<1>8. stop(j) <=> stop(j - 1) \/ name = NoName
  BY <1>0
<1>9. CASE stop(j - 1) \/ name = NoName
  <2>1. fresh[j] = files[j]
    BY <1>0, <1>3, <1>9
  <2>2. upto(j) = upto(j - 1)
    BY <1>0, <1>2, <1>6, <1>7, <2>1
  <2>3. stop(j) = TRUE
    BY <1>8, <1>9
  <2> HIDE DEF upto, stop, fresh
  <2> QED
    <3>1. [Refreshing(j - 1) EXCEPT !.stopped = TRUE] =
            [files |-> upto(j), stopped |-> TRUE]
      <4>1. PICK b : Refreshing(j - 1) = [files |-> upto(j), stopped |-> b]
        BY <1>1, <2>2, Zenon
      <4>2. \A t : [[files |-> upto(j), stopped |-> b] EXCEPT !.stopped = t] =
                     [files |-> upto(j), stopped |-> t]
        OBVIOUS
      <4>3. [[files |-> upto(j), stopped |-> b] EXCEPT !.stopped = TRUE] =
              [files |-> upto(j), stopped |-> TRUE]
        BY <4>2, Zenon
      <4> QED
        BY <4>1, <4>3, Zenon
    <3>2. Refreshing(j - 1).stopped = stop(j - 1)
          /\ Refreshing(j - 1).files[j].filename = name
      BY <1>1, <1>2
    <3>3. Refreshing(j) = [files |-> upto(j), stopped |-> TRUE]
      BY <1>1, <2>3
    <3> QED
      BY <1>9, <3>1, <3>2, <3>3, Zenon
<1>10. CASE ~ (stop(j - 1) \/ name = NoName)
  <2>1. name \in FileName /\ \A i \in 1..j : files[i].filename # NoName
    BY <1>0, <1>5, <1>10
  <2>2. stop(j) = stop(j - 1)
    BY <1>8, <1>10, Zenon
  <2>3. CASE Exists(disk, name)
    <3>1. RefreshEntry(upto(j - 1), j, disk, 0) =
            IF files[j].mtime < disk[name].mtime
            THEN [upto(j - 1) EXCEPT ![j].mtime = disk[name].mtime]
            ELSE upto(j - 1)
      BY <1>2, <1>4, <2>1 DEF RefreshEntry
    <3>2. fresh[j] = IF files[j].mtime < disk[name].mtime
                     THEN [files[j] EXCEPT !.mtime = disk[name].mtime]
                     ELSE files[j]
      BY <1>3, <1>4, <2>1, <2>3
    <3>3. upto(j) = RefreshEntry(upto(j - 1), j, disk, 0)
      BY <1>0, <1>2, <1>6, <1>7, <3>1, <3>2
    <3> HIDE DEF upto, stop, fresh
    <3>4. Refreshing(j - 1).files = upto(j - 1)
      BY <1>1
    <3>5. [Refreshing(j - 1) EXCEPT !.files =
             RefreshEntry(Refreshing(j - 1).files, j, disk, 0)] =
            [files |-> upto(j), stopped |-> stop(j - 1)]
      BY <1>1, <3>3, <3>4
    <3> QED
      BY <1>1, <1>2, <1>10, <2>2, <2>3, <3>5
  <2>4. CASE ~ Exists(disk, name)
    <3>1. fresh[j] = files[j]
      BY <1>3, <2>4
    <3>2. upto(j) = upto(j - 1)
      BY <1>0, <1>2, <1>6, <1>7, <3>1
    <3> HIDE DEF upto, stop, fresh
    <3> QED
      BY <1>1, <1>2, <1>10, <2>2, <2>4, <3>2
  <2> QED
    BY <2>3, <2>4
<1> QED
  BY <1>9, <1>10

\* refresh_file_times agrees with RefreshTimes.
LEMMA RefreshAgreesWhenTyped ==
  ASSUME files \in FileArray, Plain(files), disk \in Folders
  PROVE  RefreshAgrees
<1> DEFINE D == 0..MaxFiles
           Body(p, j) ==
             LET name == p.files[j].filename
             IN  IF p.stopped \/ name = NoName
                 THEN [p EXCEPT !.stopped = TRUE]
                 ELSE IF Exists(disk, name)
                 THEN [p EXCEPT !.files = RefreshEntry(p.files, j, disk, 0)]
                 ELSE p
           start == [files |-> files, stopped |-> FALSE]
           after == CHOOSE f : f =
             [j \in D |-> IF j = 0 THEN start ELSE Body(f[j - 1], j)]
           form == [j \in D |-> Refreshing(j)]
<1>0. MaxFiles \in Nat /\ Slot = 1..MaxFiles
  BY FileTableAssumption DEF Slot
<1>1. refresh_file_times = after[MaxFiles].files
  BY Zenon DEF refresh_file_times
<1>2. Refreshing(0) = start
  <2>1. [i \in Slot |-> IF i <= 0 THEN RefreshTimes[i]
                        ELSE files[i]] = files
    BY <1>0 DEF FileArray
  <2>2. (\E i \in 1..0 : files[i].filename = NoName) = FALSE
    OBVIOUS
  <2> QED
    BY <2>1, <2>2 DEF Refreshing
<1>3. \A j \in 1..MaxFiles : Refreshing(j) = Body(Refreshing(j - 1), j)
  BY RefreshingStep, Zenon
<1> HIDE DEF Body, start
<1>4. form = [j \in D |-> IF j = 0 THEN start ELSE Body(form[j - 1], j)]
  <2>1. ASSUME NEW j \in D
        PROVE  Refreshing(j) = IF j = 0 THEN start ELSE Body(form[j - 1], j)
    <3>1. CASE j = 0
      BY <1>2, <3>1
    <3>2. CASE j # 0
      <4>1. j \in 1..MaxFiles /\ j - 1 \in D
        BY <1>0, <3>2
      <4> QED
        BY <1>3, <3>2, <4>1
    <3> QED
      BY <3>1, <3>2
  <2> QED
    BY <2>1
<1>5. after = [j \in D |-> IF j = 0 THEN start ELSE Body(after[j - 1], j)]
  BY <1>4, Zenon
<1> HIDE DEF after
<1> DEFINE S == {j \in D : after[j] = Refreshing(j)}
<1>6. 0 \in S
  BY <1>0, <1>2, <1>5
<1>7. ASSUME NEW j \in D, j < MaxFiles, j \in S PROVE j + 1 \in S
  <2>1. j + 1 \in 1..MaxFiles /\ j + 1 \in D /\ j + 1 # 0 /\ (j + 1) - 1 = j
    BY <1>0, <1>7
  <2>2. after[j + 1] = Body(after[j], j + 1)
    BY <1>5, <2>1
  <2> QED
    BY <1>3, <1>7, <2>1, <2>2
<1>8. MaxFiles \in S
  <2> HIDE DEF S
  <2>1. 0..MaxFiles \subseteq S
    BY <1>0, <1>6, <1>7, Counting
  <2> QED
    BY <1>0, <2>1
<1>9. Refreshing(MaxFiles).files = RefreshTimes
  <2>1. Refreshing(MaxFiles).files =
          [i \in Slot |-> IF i <= MaxFiles THEN RefreshTimes[i]
                          ELSE files[i]]
    BY DEF Refreshing
  <2>2. \A i \in Slot : i <= MaxFiles
    BY <1>0
  <2>3. Refreshing(MaxFiles).files = [i \in Slot |-> RefreshTimes[i]]
    BY <2>1, <2>2
  <2> QED
    BY <2>3, Zenon DEF RefreshTimes
<1> QED
  BY <1>1, <1>8, <1>9 DEF RefreshAgrees

-----------------------------------------------------------------------------
(* cleanFileInArray. *)

\* After the iterations up to i, the entries from index to i have moved.
Shifting(table, length, index, i) ==
  [k \in Slot |-> IF k \in index..i /\ k < length THEN At(table, k + 1)
                  ELSE table[k]]

\* One iteration.
LEMMA ShiftingStep ==
  ASSUME NEW table \in FileArray, NEW length \in Nat, NEW index \in 1..length,
         NEW i \in index..length
  PROVE  Shifting(table, length, index, i) =
           LET p == Shifting(table, length, index, i - 1)
           IN  IF i >= length \/ i \notin Slot THEN p
               ELSE [p EXCEPT ![i] = At(p, i + 1)]
<1> DEFINE p == Shifting(table, length, index, i - 1)
<1>0. MaxFiles \in Nat /\ Slot = 1..MaxFiles
  BY FileTableAssumption DEF Slot
<1>1. CASE i >= length \/ i \notin Slot
  <2>1. \A k \in Slot : k \in index..i /\ k < length <=>
                        k \in index..(i - 1) /\ k < length
    BY <1>0, <1>1
  <2>2. Shifting(table, length, index, i) = p
    BY <2>1 DEF Shifting
  <2> QED
    BY <1>1, <2>2
<1>2. CASE ~ (i >= length \/ i \notin Slot)
  <2>1. \A k \in Slot : k # i => (k \in index..i <=> k \in index..(i - 1))
    BY <1>0
  <2>2. At(p, i + 1) = At(table, i + 1)
    BY <1>0 DEF At, Shifting
  <2>3. i \in Slot /\ i \in index..i /\ i < length
    BY <1>2
  <2>4. Shifting(table, length, index, i) = [p EXCEPT ![i] = At(table, i + 1)]
    BY <2>1, <2>3 DEF Shifting
  <2> QED
    BY <1>2, <2>2, <2>4
<1> QED
  BY <1>1, <1>2

\* The shift and the blanking are what Clean says.
LEMMA CleanLoopIsClean ==
  ASSUME NEW table \in FileArray, NEW length \in Nat, NEW index \in 1..length
  PROVE  cleanFileInArray(table, length, index) = Clean(table, length, index)
<1> DEFINE D == (index - 1)..length
           Body(p, i) == IF i >= length \/ i \notin Slot THEN p
                         ELSE [p EXCEPT ![i] = At(p, i + 1)]
           shifted == CHOOSE f : f =
             [i \in D |-> IF i = index - 1 THEN table
                          ELSE IF i >= length \/ i \notin Slot THEN f[i - 1]
                          ELSE [f[i - 1] EXCEPT ![i] = At(f[i - 1], i + 1)]]
           Form(i) == Shifting(table, length, index, i)
           form == [i \in D |-> Form(i)]
<1>0. MaxFiles \in Nat /\ Slot = 1..MaxFiles
  BY FileTableAssumption DEF Slot
<1>1. cleanFileInArray(table, length, index) =
        [i \in Slot |-> IF i = length
                        THEN [shifted[length][i] EXCEPT !.filename = NoName]
                        ELSE shifted[length][i]]
  BY Zenon DEF cleanFileInArray
<1>2. Form(index - 1) = table
  BY <1>0 DEF Shifting, FileArray
<1>3. \A i \in index..length : Form(i) = Body(Form(i - 1), i)
  BY ShiftingStep, Zenon
<1> HIDE DEF Form
<1>4. form = [i \in D |->
                IF i = index - 1 THEN table
                ELSE IF i >= length \/ i \notin Slot THEN form[i - 1]
                ELSE [form[i - 1] EXCEPT ![i] = At(form[i - 1], i + 1)]]
  <2>1. ASSUME NEW i \in D
        PROVE  Form(i) =
                 IF i = index - 1 THEN table
                 ELSE IF i >= length \/ i \notin Slot THEN form[i - 1]
                 ELSE [form[i - 1] EXCEPT ![i] = At(form[i - 1], i + 1)]
    <3>1. CASE i = index - 1
      BY <1>2, <3>1
    <3>2. CASE i # index - 1
      <4>1. i \in index..length /\ i - 1 \in D
        BY <3>2
      <4>2. form[i - 1] = Form(i - 1)
        BY <4>1
      <4>3. Form(i) = Body(Form(i - 1), i)
        BY <1>3, <4>1
      <4> QED
        BY <3>2, <4>2, <4>3, Zenon
    <3> QED
      BY <3>1, <3>2
  <2> QED
    BY <2>1, Zenon
<1>5. shifted = [i \in D |->
                   IF i = index - 1 THEN table
                   ELSE IF i >= length \/ i \notin Slot THEN shifted[i - 1]
                   ELSE [shifted[i - 1] EXCEPT ![i] = At(shifted[i - 1], i + 1)]]
  BY <1>4, Zenon
<1> HIDE DEF shifted
<1> DEFINE S == {i \in D : shifted[i] = Form(i)}
<1>6. index - 1 \in S
  BY <1>2, <1>5
<1>7. ASSUME NEW i \in D, i < length, i \in S PROVE i + 1 \in S
  <2>1. i + 1 \in index..length /\ i + 1 \in D /\ i + 1 # index - 1
        /\ (i + 1) - 1 = i
    BY <1>7
  <2>2. shifted[i + 1] = Body(shifted[i], i + 1)
    BY <1>5, <2>1, Zenon
  <2>3. Form(i + 1) = Body(Form(i), i + 1)
    BY <1>3, <2>1
  <2> QED
    BY <1>7, <2>1, <2>2, <2>3
<1>8. length \in S
  <2> HIDE DEF S
  <2>1. (index - 1)..length \subseteq S
    BY <1>6, <1>7, Counting
  <2> QED
    BY <2>1
<1>9. shifted[length] = Shifting(table, length, index, length)
  BY <1>8 DEF Form
<1>10. ASSUME NEW i \in Slot
       PROVE  (IF i = length
               THEN [shifted[length][i] EXCEPT !.filename = NoName]
               ELSE shifted[length][i]) =
              (IF i = length THEN [filename |-> NoName, mtime |-> table[i].mtime]
               ELSE IF i \in index..(length - 1) THEN At(table, i + 1)
               ELSE table[i])
  <2>1. shifted[length][i] = IF i \in index..length /\ i < length
                             THEN At(table, i + 1) ELSE table[i]
    BY <1>9 DEF Shifting
  <2>2. CASE i = length
    <3>1. shifted[length][i] = table[i]
      BY <2>1, <2>2
    <3>2. table[i] \in [filename : EntryName \cup {NoName}, mtime : Nat]
      BY DEF FileArray, FileInfo
    <3>3. [table[i] EXCEPT !.filename = NoName] =
            [filename |-> NoName, mtime |-> table[i].mtime]
      BY <3>2
    <3> QED
      BY <2>2, <3>1, <3>3
  <2>3. CASE i # length
    BY <1>0, <2>1, <2>3
  <2> QED
    BY <2>2, <2>3
<1> QED
  BY <1>1, <1>10 DEF Clean
-----------------------------------------------------------------------------
(* The deletion loop: which entries it cleans. *)

\* A run of adjacent entries with the name, from start to k.
Run(table, name, start, k) ==
  /\ start \in 1..k
  /\ \A j \in start..k : At(table, j).filename = name
  /\ start = 1 \/ At(table, start - 1).filename # name

\* Every entry with the name ends a run.
LEMMA RunExists ==
  ASSUME NEW table, NEW name, NEW k \in Nat \ {0}, At(table, k).filename = name
  PROVE  \E start \in 1..k : Run(table, name, start, k)
<1> DEFINE T == {s \in 1..k : \A j \in s..k : At(table, j).filename = name}
<1>1. k \in T /\ T \subseteq Nat
  OBVIOUS
<1>2. PICK s \in T : \A y \in T : s <= y
  <2> HIDE DEF T
  <2> QED
    BY <1>1, LeastNumber
<1>3. s = 1 \/ At(table, s - 1).filename # name
  <2> SUFFICES ASSUME s # 1, At(table, s - 1).filename = name PROVE FALSE
    OBVIOUS
  <2>1. s - 1 \in 1..k
    OBVIOUS
  <2>2. \A j \in (s - 1)..k : j = s - 1 \/ j \in s..k
    OBVIOUS
  <2>3. s - 1 \in T
    BY <2>1, <2>2
  <2> QED
    BY <1>2, <2>3
<1> QED
  BY <1>3 DEF Run

\* There is one only.
LEMMA RunUnique ==
  ASSUME NEW table, NEW name, NEW k \in Nat, NEW s, NEW t,
         Run(table, name, s, k), Run(table, name, t, k)
  PROVE  s = t
<1>1. s \in 1..k /\ t \in 1..k
  BY DEF Run
<1>2. ~ (s < t)
  <2> SUFFICES ASSUME s < t PROVE FALSE
    OBVIOUS
  <2>1. t - 1 \in s..k /\ t # 1
    BY <1>1
  <2> QED
    BY <2>1 DEF Run
<1>3. ~ (t < s)
  <2> SUFFICES ASSUME t < s PROVE FALSE
    OBVIOUS
  <2>1. s - 1 \in t..k /\ s # 1
    BY <1>1
  <2> QED
    BY <2>1 DEF Run
<1> QED
  BY <1>1, <1>2, <1>3

\* An entry is cleaned when it has the name and its predecessor stays.
LEMMA CleanedStep ==
  ASSUME NEW table, NEW length \in Nat, NEW name, NEW k \in 1..length
  PROVE  k \in Cleaned(table, length, name) <=>
           /\ At(table, k).filename = name
           /\ k = 1 \/ k - 1 \notin Cleaned(table, length, name)
<1> DEFINE C == Cleaned(table, length, name)
           R(s, j) == Run(table, name, s, j)
<1>1. \A j \in 1..length :
        j \in C <=> \E s \in 1..j : R(s, j) /\ (j - s) % 2 = 0
  BY DEF Cleaned, Run
<1>2. ASSUME NEW s \in 1..(k - 1), At(table, k).filename = name
      PROVE  R(s, k - 1) <=> R(s, k)
  <2>1. \A j \in s..k : j = k \/ j \in s..(k - 1)
    OBVIOUS
  <2> QED
    BY <1>2, <2>1 DEF Run
<1>3. ASSUME k \in C PROVE At(table, k).filename = name
  <2>1. PICK s \in 1..k : R(s, k)
    BY <1>1, <1>3
  <2> QED
    BY <2>1 DEF Run
<1>4. ASSUME k \in C, k # 1, k - 1 \in C PROVE FALSE
  <2>1. PICK s \in 1..k : R(s, k) /\ (k - s) % 2 = 0
    BY <1>1, <1>4
  <2>2. k - 1 \in 1..length
    BY <1>4
  <2>3. PICK t \in 1..(k - 1) : R(t, k - 1) /\ (k - 1 - t) % 2 = 0
    BY <1>1, <1>4, <2>2
  <2>4. R(t, k)
    BY <1>2, <1>3, <1>4, <2>3
  <2>5. s = t
    BY <2>1, <2>4, RunUnique
  <2> QED
    BY <2>1, <2>3, <2>5
<1>5. ASSUME At(table, k).filename = name, k = 1 \/ k - 1 \notin C
      PROVE  k \in C
  <2>1. PICK s \in 1..k : R(s, k)
    BY <1>5, RunExists
  <2>2. (k - s) % 2 = 0
    <3>1. CASE s = k
      BY <3>1
    <3>2. CASE s # k
      <4>1. s \in 1..(k - 1) /\ k - 1 \in 1..length
        BY <3>2
      <4>2. R(s, k - 1)
        BY <1>2, <1>5, <2>1, <4>1
      <4>3. (k - 1 - s) % 2 # 0
        BY <1>1, <1>5, <4>1, <4>2
      <4> QED
        BY <4>1, <4>3
    <3> QED
      BY <3>1, <3>2
  <2> QED
    BY <1>1, <2>1, <2>2
<1> QED
  BY <1>3, <1>4, <1>5

\* How many of them come before k.
Before(cleaned, k) == Cardinality({j \in cleaned : j < k})

\* The number grows by one for each of them, from 0 to all.
LEMMA BeforeStep ==
  ASSUME NEW n \in Nat, NEW C, C \subseteq 1..n
  PROVE  /\ Before(C, 1) = 0
         /\ \A k \in Nat : Before(C, k) \in Nat
         /\ \A k \in Nat : Before(C, k + 1) =
              Before(C, k) + (IF k \in C THEN 1 ELSE 0)
         /\ Before(C, n + 1) = Cardinality(C)
<1> DEFINE B(k) == {j \in C : j < k}
<1>0. \A j \in C : j \in Nat /\ 1 <= j /\ j <= n
  OBVIOUS
<1>1. ASSUME NEW k \in Nat PROVE IsFiniteSet(B(k)) /\ Before(C, k) \in Nat
  <2>1. IsFiniteSet(1..n)
    BY FS_Interval
  <2>2. B(k) \subseteq 1..n
    OBVIOUS
  <2>3. IsFiniteSet(B(k))
    BY <2>1, <2>2, FS_Subset
  <2> QED
    BY <2>3, FS_CardinalityType DEF Before
<1>2. Before(C, 1) = 0
  <2>0. \A j \in C : ~ (j < 1)
    BY <1>0
  <2>1. B(1) = {}
    BY <2>0, Zenon
  <2> QED
    BY <2>1, FS_EmptySet DEF Before
<1>3. ASSUME NEW k \in Nat
      PROVE  Before(C, k + 1) = Before(C, k) + (IF k \in C THEN 1 ELSE 0)
  <2>1. CASE k \in C
    <3>0. ~ (k < k) /\ \A j \in C : j < k + 1 <=> j < k \/ j = k
      BY <1>0
    <3>1. B(k + 1) = B(k) \cup {k} /\ k \notin B(k)
      BY <2>1, <3>0, Zenon
    <3>2. Cardinality(B(k) \cup {k}) = Cardinality(B(k)) + 1
      <4> HIDE DEF B
      <4> QED
        BY <1>1, <3>1, FS_AddElement
    <3> QED
      BY <2>1, <3>1, <3>2 DEF Before
  <2>2. CASE k \notin C
    <3>0. \A j \in C : j < k + 1 <=> j < k
      BY <1>0, <2>2
    <3>1. B(k + 1) = B(k)
      BY <3>0, Zenon
    <3> QED
      BY <1>1, <2>2, <3>1 DEF Before
  <2> QED
    BY <2>1, <2>2
<1>4. Before(C, n + 1) = Cardinality(C)
  <2>0. \A j \in C : j < n + 1
    BY <1>0
  <2>1. B(n + 1) = C
    BY <2>0, Zenon
  <2> QED
    BY <2>1 DEF Before
<1> QED
  BY <1>1, <1>2, <1>3, <1>4

\* It grows no faster than k.
LEMMA BeforeSlope ==
  ASSUME NEW n \in Nat, NEW C, C \subseteq 1..n,
         NEW a \in Nat, NEW b \in Nat, a <= b
  PROVE  Before(C, a) <= Before(C, b) /\ Before(C, b) - Before(C, a) <= b - a
<1> DEFINE S == {k \in Nat : /\ Before(C, a) <= Before(C, k)
                             /\ Before(C, k) - Before(C, a) <= k - a}
<1>0. \A k \in Nat :
        /\ Before(C, k) \in Nat
        /\ Before(C, k + 1) = Before(C, k) + (IF k \in C THEN 1 ELSE 0)
  BY BeforeStep, Zenon
<1>1. a \in S
  BY <1>0
<1>2. ASSUME NEW i \in a..b, i < b, i \in S PROVE i + 1 \in S
  <2>1. /\ Before(C, i) \in Nat /\ Before(C, a) \in Nat
        /\ Before(C, i + 1) = Before(C, i) + (IF i \in C THEN 1 ELSE 0)
    BY <1>0
  <2>2. i + 1 \in Nat /\ i \in Nat
    OBVIOUS
  <2> QED
    BY <1>2, <2>1, <2>2
<1>3. a..b \subseteq S
  <2> HIDE DEF S
  <2> QED
    BY <1>1, <1>2, Counting
<1>4. b \in S
  <2> HIDE DEF S
  <2> QED
    BY <1>3
<1> QED
  BY <1>4

\* The entry that ends up in slot k, for each k that is left.
LEMMA OriginExists ==
  ASSUME NEW n \in Nat, NEW C, C \subseteq 1..n,
         NEW k \in 1..(n - Cardinality(C))
  PROVE  \E o \in (1..n) \ C : k = o - Before(C, o)
<1> DEFINE T == {o \in 1..n : k <= o - Before(C, o + 1)}
<1>1. Before(C, n + 1) \in Nat /\ Before(C, n + 1) = Cardinality(C)
  <2>1. n + 1 \in Nat
    OBVIOUS
  <2> QED
    BY <2>1, BeforeStep, Zenon
<1>2. n \in T /\ T \subseteq Nat
  BY <1>1
<1>3. PICK o \in T : \A y \in T : o <= y
  <2> HIDE DEF T
  <2> QED
    BY <1>2, LeastNumber
<1>4. /\ Before(C, o) \in Nat
      /\ Before(C, o + 1) = Before(C, o) + (IF o \in C THEN 1 ELSE 0)
      /\ Before(C, 1) = 0
  <2>1. o \in Nat
    OBVIOUS
  <2> QED
    BY <2>1, BeforeStep, Zenon
<1>5. ~ (k <= (o - 1) - Before(C, o))
  <2> SUFFICES ASSUME k <= (o - 1) - Before(C, o) PROVE FALSE
    OBVIOUS
  <2>1. o # 1
    BY <1>4
  <2>2. o - 1 \in 1..n /\ (o - 1) + 1 = o
    BY <2>1
  <2>3. o - 1 \in T
    BY <2>2
  <2> QED
    BY <1>3, <2>3
<1>6. o \notin C /\ k = o - Before(C, o)
  BY <1>4, <1>5
<1> QED
  BY <1>6

-----------------------------------------------------------------------------
(* The deletion loop: what it leaves. *)

\* An entry of an array after cleanFileInArray.
LEMMA AtClean ==
  ASSUME NEW table \in FileArray, NEW length \in Nat, NEW index \in 1..length,
         NEW k \in Nat \ {0}
  PROVE  At(Clean(table, length, index), k) =
           IF k = length THEN [filename |-> NoName, mtime |-> At(table, k).mtime]
           ELSE IF k \in index..(length - 1) THEN At(table, k + 1)
           ELSE At(table, k)
<1>0. MaxFiles \in Nat /\ Slot = 1..MaxFiles
  BY FileTableAssumption DEF Slot
<1>1. CASE k \in Slot
  BY <1>0, <1>1 DEF At, Clean
<1>2. CASE k \notin Slot
  <2>1. k + 1 \notin Slot
    BY <1>0, <1>2
  <2> QED
    BY <1>2, <2>1 DEF At, EmptySlot
<1> QED
  BY <1>1, <1>2

(***************************************************************************)
(* After i iterations the loop has dealt with the first q of the original  *)
(* entries: p holds those of them that stay, moved down to close the gaps, *)
(* then the others, moved by the number r of the cleaned ones, and blank   *)
(* entries in the r slots before the original fileLength.                  *)
(***************************************************************************)
Deleting(table, length, name, i, p, q) ==
  LET cleaned == Cleaned(table, length, name)
      r == Before(cleaned, q + 1)
  IN  /\ q \in 0..length /\ p.len = length - r
      /\ q = length \/ q \notin cleaned
      /\ q = i + r \/ (q = length /\ i >= p.len)
      /\ p.files \in FileArray
      /\ \A o \in 1..length :
           IF o <= q
           THEN o \notin cleaned =>
                  At(p.files, o - Before(cleaned, o)) = At(table, o)
           ELSE At(p.files, o - r) = At(table, o)
      /\ \A k \in Slot :
           /\ k > length => p.files[k] = table[k]
           /\ p.len < k /\ k <= length =>
                p.files[k] = [filename |-> NoName, mtime |-> At(table, length).mtime]

\* Before the loop nothing has been dealt with.
LEMMA DeletingInit ==
  ASSUME NEW table \in FileArray, NEW length \in Nat, NEW name
  PROVE  Deleting(table, length, name, 0, [files |-> table, len |-> length], 0)
<1> DEFINE C == Cleaned(table, length, name)
           p == [files |-> table, len |-> length]
<1>1. C \subseteq 1..length
  BY DEF Cleaned
<1>2. Before(C, 0 + 1) = 0
  BY <1>1, BeforeStep
<1>3. 0 \notin C
  BY <1>1
<1>4. p.files = table /\ p.len = length
  OBVIOUS
<1>5. \A o \in 1..length :
        IF o <= 0 THEN o \notin C => At(p.files, o - Before(C, o)) = At(table, o)
        ELSE At(p.files, o - 0) = At(table, o)
  BY <1>4
<1>6. \A k \in Slot : ~ (p.len < k /\ k <= length)
  BY <1>4, FileTableAssumption DEF Slot
<1> HIDE DEF p
<1> QED
  <2>1. 0 = 0 + Before(C, 0 + 1) /\ p.len = length - Before(C, 0 + 1)
    BY <1>2, <1>4
  <2> HIDE DEF C
  <2> QED
    BY <1>2, <1>3, <1>4, <1>5, <1>6, <2>1 DEF Deleting, C

\* An iteration that cleans deals with the entry that goes and the next one.
LEMMA DeletingClean ==
  ASSUME NEW table \in FileArray, NEW length \in Nat, NEW name,
         NEW i \in 0..(length - 1), NEW p, NEW q,
         Deleting(table, length, name, i, p, q),
         i + 1 <= p.len, At(p.files, i + 1).filename = name
  PROVE  \E q2 : Deleting(table, length, name, i + 1,
                          [files |-> Clean(p.files, p.len, i + 1),
                           len |-> p.len - 1], q2)
<1> DEFINE C == Cleaned(table, length, name)
           B(k) == Before(C, k)
           r == B(q + 1)
           new == Clean(p.files, p.len, i + 1)
           q2 == IF q + 1 = length THEN length ELSE q + 2
<1>1. C \subseteq 1..length
  BY DEF Cleaned
<1>2. /\ B(1) = 0
      /\ \A k \in Nat : B(k) \in Nat
      /\ \A k \in Nat : B(k + 1) = B(k) + (IF k \in C THEN 1 ELSE 0)
  BY <1>1, BeforeStep, Zenon
<1>3. \A a, b \in Nat : a <= b => B(a) <= B(b) /\ B(b) - B(a) <= b - a
  BY <1>1, BeforeSlope, Zenon
<1>4. \A k \in 1..length :
        k \in C <=> At(table, k).filename = name /\ (k = 1 \/ k - 1 \notin C)
  BY CleanedStep
<1>5. /\ q \in 0..length /\ p.len = length - r
      /\ q = length \/ q \notin C
      /\ q = i + r \/ (q = length /\ i >= p.len)
      /\ p.files \in FileArray
  BY DEF Deleting
<1>6. \A o \in 1..length :
        /\ o <= q /\ o \notin C => At(p.files, o - B(o)) = At(table, o)
        /\ o > q => At(p.files, o - r) = At(table, o)
  BY <1>5 DEF Deleting
<1>7. \A k \in Slot :
        /\ k > length => p.files[k] = table[k]
        /\ p.len < k /\ k <= length =>
             p.files[k] = [filename |-> NoName, mtime |-> At(table, length).mtime]
  BY DEF Deleting
<1> HIDE DEF C, B
<1>8. /\ r \in Nat /\ i \in Nat /\ q = i + r /\ q + 1 \in 1..length
      /\ p.len \in Nat /\ i + 1 \in 1..p.len
  BY <1>2, <1>5
<1>9. q + 1 \in C
  <2>1. At(p.files, (q + 1) - r) = At(table, q + 1)
    BY <1>6, <1>8
  <2>2. (q + 1) - r = i + 1 /\ (q + 1) - 1 = q
    BY <1>8
  <2>3. q + 1 = 1 \/ q \notin C
    BY <1>5, <1>8
  <2> QED
    BY <1>4, <1>8, <2>1, <2>2, <2>3
<1>10. B(q + 2) = r + 1
  <2>1. (q + 1) + 1 = q + 2 /\ q + 1 \in Nat
    BY <1>8
  <2> QED
    BY <1>2, <1>9, <2>1
<1>11. q + 2 <= length => q + 2 \notin C
  <2>1. (q + 2) - 1 = q + 1 /\ q + 2 # 1
    BY <1>8
  <2>2. q + 2 <= length => q + 2 \in 1..length
    BY <1>8
  <2> QED
    BY <1>4, <1>9, <2>1, <2>2
<1>12. q2 \in 0..length /\ B(q2 + 1) = r + 1 /\ (q2 = length \/ q2 \notin C)
  <2>1. CASE q + 1 = length
    <3>1. q2 + 1 = q + 2 /\ q2 = length
      BY <1>8, <2>1
    <3> QED
      BY <1>8, <1>10, <3>1
  <2>2. CASE q + 1 # length
    <3>1. q2 = q + 2 /\ q + 2 \in 0..length /\ q + 2 \notin C /\ q + 2 \in Nat
      BY <1>8, <1>11, <2>2
    <3>2. B((q + 2) + 1) = B(q + 2)
      BY <1>2, <1>10, <3>1
    <3> QED
      BY <1>10, <3>1, <3>2
  <2> QED
    BY <2>1, <2>2
<1>13. new \in FileArray
  BY <1>5, <1>8, CleanIsTable
<1>14. \A k \in Nat \ {0} :
         At(new, k) =
           IF k = p.len
           THEN [filename |-> NoName, mtime |-> At(p.files, k).mtime]
           ELSE IF k \in (i + 1)..(p.len - 1) THEN At(p.files, k + 1)
           ELSE At(p.files, k)
  BY <1>5, <1>8, AtClean
<1> HIDE DEF r, new
<1>15. ASSUME NEW o \in 1..length, o <= q2, o \notin C
       PROVE  At(new, o - B(o)) = At(table, o)
  <2>1. CASE o <= q
    <3>1. /\ B(o) \in Nat /\ B(o) <= o - 1
          /\ B(o + 1) = B(o) /\ B(q + 1) - B(o + 1) <= (q + 1) - (o + 1)
      <4>1. o \in Nat /\ 1 <= o /\ o + 1 \in Nat /\ q + 1 \in Nat /\ o + 1 <= q + 1
        BY <1>8, <2>1
      <4>2. B(o + 1) = B(o) + (IF o \in C THEN 1 ELSE 0)
        BY <1>2, <4>1
      <4>3. B(o) - B(1) <= o - 1
        BY <1>3, <4>1
      <4>4. B(q + 1) - B(o + 1) <= (q + 1) - (o + 1)
        BY <1>3, <4>1
      <4>5. B(o) \in Nat
        BY <1>2, <4>1
      <4> QED
        BY <1>2, <1>15, <4>2, <4>3, <4>4, <4>5
    <3>2. o - B(o) \in Nat \ {0} /\ o - B(o) < i + 1
      BY <1>8, <3>1 DEF r
    <3>3. At(new, o - B(o)) = At(p.files, o - B(o))
      BY <1>8, <1>14, <3>2
    <3> QED
      BY <1>6, <1>15, <2>1, <3>3
  <2>2. CASE o > q
    <3>1. o = q + 2 /\ q + 2 <= length
      BY <1>8, <1>9, <1>15, <2>2
    <3>2. o - B(o) = i + 1 /\ o - r = (i + 1) + 1 /\ i + 1 \in (i + 1)..(p.len - 1)
      BY <1>5, <1>8, <1>10, <3>1
    <3>3. At(new, i + 1) = At(p.files, (i + 1) + 1)
      BY <1>8, <1>14, <3>2
    <3> QED
      BY <1>6, <2>2, <3>2, <3>3
  <2> QED
    BY <1>8, <2>1, <2>2
<1>16. ASSUME NEW o \in 1..length, o > q2
       PROVE  At(new, o - (r + 1)) = At(table, o)
  <2>1. /\ o - (r + 1) \in (i + 1)..(p.len - 1) /\ o - (r + 1) \in Nat \ {0}
        /\ (o - (r + 1)) + 1 = o - r /\ o > q /\ o - (r + 1) # p.len
    BY <1>5, <1>8, <1>16
  <2>2. At(new, o - (r + 1)) = At(p.files, o - r)
    BY <1>14, <2>1
  <2> QED
    BY <1>6, <2>1, <2>2
<1>17. ASSUME NEW k \in Slot
       PROVE  /\ k > length => new[k] = table[k]
              /\ p.len - 1 < k /\ k <= length =>
                   new[k] = [filename |-> NoName,
                             mtime |-> At(table, length).mtime]
  <2>1. k \in Nat \ {0} /\ At(new, k) = new[k] /\ At(p.files, k) = p.files[k]
    BY FileTableAssumption DEF Slot, At
  <2>2. CASE k > p.len
    <3>1. new[k] = p.files[k]
      BY <1>8, <1>14, <2>1, <2>2
    <3> QED
      BY <1>7, <2>2, <3>1
  <2>3. CASE k = p.len
    <3>1. At(p.files, k) = At(table, length)
      <4>1. length \in 1..length /\ length > q /\ length - r = k
        BY <1>5, <1>8, <2>3
      <4> QED
        BY <1>6, <4>1
    <3>2. new[k] = [filename |-> NoName, mtime |-> At(table, length).mtime]
      BY <1>14, <2>1, <2>3, <3>1
    <3>3. k <= length
      BY <1>5, <1>8, <2>3
    <3> QED
      BY <2>1, <3>2, <3>3
  <2>4. CASE k < p.len
    BY <1>5, <1>8, <2>1, <2>4
  <2> QED
    BY <1>8, <2>1, <2>2, <2>3, <2>4
<1>18. Deleting(table, length, name, i + 1,
                [files |-> new, len |-> p.len - 1], q2)
  <2>1. q2 = (i + 1) + (r + 1) \/ (q2 = length /\ i + 1 >= p.len - 1)
    BY <1>5, <1>8
  <2>2. p.len - 1 = length - (r + 1)
    BY <1>5, <1>8
  <2>3. Before(C, q2 + 1) = r + 1
    BY <1>12 DEF B
  <2>4. [files |-> new, len |-> p.len - 1].files = new
        /\ [files |-> new, len |-> p.len - 1].len = p.len - 1
    OBVIOUS
  <2>5. \A o \in 1..length :
           IF o <= q2
           THEN o \notin C => At(new, o - Before(C, o)) = At(table, o)
           ELSE At(new, o - (r + 1)) = At(table, o)
    BY <1>12, <1>15, <1>16 DEF B
  <2> HIDE DEF q2
  <2> QED
    BY <1>12, <1>13, <1>17, <2>1, <2>2, <2>3, <2>4, <2>5 DEF Deleting, C
<1> QED
  BY <1>18 DEF new

\* An iteration that cleans nothing deals with one entry that stays.
LEMMA DeletingKeep ==
  ASSUME NEW table \in FileArray, NEW length \in Nat, NEW name,
         NEW i \in 0..(length - 1), NEW p, NEW q,
         Deleting(table, length, name, i, p, q),
         ~ (i + 1 <= p.len /\ At(p.files, i + 1).filename = name)
  PROVE  \E q2 : Deleting(table, length, name, i + 1, p, q2)
<1> DEFINE C == Cleaned(table, length, name)
           B(k) == Before(C, k)
           r == B(q + 1)
<1>1. C \subseteq 1..length
  BY DEF Cleaned
<1>2. \A k \in Nat : /\ B(k) \in Nat
                     /\ B(k + 1) = B(k) + (IF k \in C THEN 1 ELSE 0)
  BY <1>1, BeforeStep, Zenon
<1>3. \A k \in 1..length : k \in C => At(table, k).filename = name
  BY CleanedStep
<1>4. /\ q \in 0..length /\ p.len = length - r
      /\ q = length \/ q \notin C
      /\ q = i + r \/ (q = length /\ i >= p.len)
      /\ p.files \in FileArray
  BY DEF Deleting
<1>5. \A o \in 1..length :
        /\ o <= q /\ o \notin C => At(p.files, o - B(o)) = At(table, o)
        /\ o > q => At(p.files, o - r) = At(table, o)
  BY <1>4 DEF Deleting
<1>6. \A k \in Slot :
        /\ k > length => p.files[k] = table[k]
        /\ p.len < k /\ k <= length =>
             p.files[k] = [filename |-> NoName, mtime |-> At(table, length).mtime]
  BY DEF Deleting
<1>7. r \in Nat /\ i \in Nat /\ q \in Nat
  <2> HIDE DEF B
  <2> QED
    BY <1>2, <1>4
<1>8. CASE i + 1 > p.len
  <2>1. q = length /\ i + 1 >= p.len
    <3> HIDE DEF r
    <3> QED
      BY <1>4, <1>7, <1>8
  <2>2. Deleting(table, length, name, i + 1, p, q)
    BY <2>1 DEF Deleting
  <2> QED
    BY <2>2
<1>9. CASE i + 1 <= p.len
  <2>0. At(p.files, i + 1).filename # name
    BY <1>9
  <2> HIDE DEF C, B
  <2>1. q = i + r /\ q + 1 \in 1..length /\ (q + 1) - r = i + 1
    <3> HIDE DEF r
    <3> QED
      BY <1>4, <1>7, <1>9
  <2>2. q + 1 \notin C
    <3>1. At(p.files, i + 1) = At(table, q + 1)
      <4>1. q + 1 > q
        BY <1>7
      <4>2. At(p.files, (q + 1) - r) = At(table, q + 1)
        BY <1>5, <2>1, <4>1
      <4> QED
        BY <2>1, <4>2
    <3> QED
      BY <1>3, <2>0, <2>1, <3>1
  <2>3. B((q + 1) + 1) = r
    BY <1>2, <1>7, <2>2
  <2> HIDE DEF r
  <2>4. \A o \in 1..length :
          IF o <= q + 1
          THEN o \notin C => At(p.files, o - B(o)) = At(table, o)
          ELSE At(p.files, o - r) = At(table, o)
    <3> TAKE o \in 1..length
    <3>1. CASE o <= q
      BY <1>5, <1>7, <3>1
    <3>2. CASE o = q + 1
      <4>1. B(o) = r
        BY <3>2 DEF r
      <4>2. o > q
        BY <1>7, <3>2
      <4> QED
        BY <1>5, <3>2, <4>1, <4>2
    <3>3. CASE o > q + 1
      BY <1>5, <1>7, <3>3
    <3> QED
      BY <1>7, <3>1, <3>2, <3>3
  <2>5. /\ q + 1 \in 0..length /\ q + 1 = (i + 1) + r /\ p.len = length - r
    BY <1>4, <1>7, <2>1
  <2>6. Deleting(table, length, name, i + 1, p, q + 1)
    BY <1>4, <1>6, <2>2, <2>3, <2>4, <2>5 DEF Deleting, C, B
  <2> QED
    BY <2>6
<1> QED
  <2>1. p.len \in Int
    <3> HIDE DEF r
    <3> QED
      BY <1>4, <1>7
  <2> QED
    BY <1>7, <1>8, <1>9, <2>1

\* Both together are the body of the loop.
LEMMA DeletingStep ==
  ASSUME NEW table \in FileArray, NEW length \in Nat, NEW name,
         NEW i \in 0..(length - 1), NEW p, NEW q,
         Deleting(table, length, name, i, p, q)
  PROVE  \E q2 : Deleting(table, length, name, i + 1,
           IF i + 1 <= p.len /\ At(p.files, i + 1).filename = name
           THEN [files |-> cleanFileInArray(p.files, p.len, i + 1),
                 len |-> p.len - 1]
           ELSE p, q2)
<1>1. CASE i + 1 <= p.len /\ At(p.files, i + 1).filename = name
  <2> DEFINE r == Before(Cleaned(table, length, name), q + 1)
  <2>1. p.files \in FileArray /\ q \in 0..length /\ p.len = length - r
    BY DEF Deleting
  <2>2. r \in Nat
    <3>1. Cleaned(table, length, name) \subseteq 1..length
      BY DEF Cleaned
    <3>2. q + 1 \in Nat
      BY <2>1
    <3> QED
      BY <3>1, <3>2, BeforeStep, Zenon
  <2>3. p.len \in Nat /\ i + 1 \in 1..p.len
    <3> HIDE DEF r
    <3> QED
      BY <1>1, <2>1, <2>2
  <2>4. cleanFileInArray(p.files, p.len, i + 1) = Clean(p.files, p.len, i + 1)
    BY <2>1, <2>3, CleanLoopIsClean
  <2> QED
    BY <1>1, <2>4, DeletingClean
<1>2. CASE ~ (i + 1 <= p.len /\ At(p.files, i + 1).filename = name)
  BY <1>2, DeletingKeep
<1> QED
  BY <1>1, <1>2

\* At the end p is what CleanName describes.
LEMMA DeletingEnd ==
  ASSUME NEW table \in FileArray, NEW length \in Nat, NEW name, NEW p, NEW q,
         Deleting(table, length, name, length, p, q)
  PROVE  /\ p.files = CleanName(table, length, name).files
         /\ p.len = CleanName(table, length, name).len
<1> DEFINE C == Cleaned(table, length, name)
           B(k) == Before(C, k)
           left == length - Cardinality(C)
           Origin(k) == CHOOSE o \in (1..length) \ C : k = o - B(o)
           Entry(k) ==
             IF k > length THEN table[k]
             ELSE IF k <= left THEN At(table, Origin(k))
             ELSE [filename |-> NoName, mtime |-> At(table, length).mtime]
<1>1. C \subseteq 1..length
  BY DEF Cleaned
<1>2. /\ \A k \in Nat : B(k) \in Nat
      /\ B(length + 1) = Cardinality(C)
  BY <1>1, BeforeStep, Zenon
<1>3. Cardinality(C) \in 0..length
  BY CleanedBound
<1>4. /\ q \in 0..length /\ p.len = length - B(q + 1)
      /\ q = length + B(q + 1) \/ q = length
      /\ p.files \in FileArray
  BY DEF Deleting
<1>5. q = length /\ p.len = left
  <2>1. B(q + 1) \in Nat
    BY <1>2, <1>4
  <2>2. q = length
    <3> HIDE DEF B
    <3> QED
      BY <1>4, <2>1
  <2> QED
    BY <1>2, <1>4, <2>2
<1>6. \A o \in (1..length) \ C : At(p.files, o - B(o)) = At(table, o)
  BY <1>5 DEF Deleting
<1>7. \A k \in Slot :
        /\ k > length => p.files[k] = table[k]
        /\ left < k /\ k <= length =>
             p.files[k] = [filename |-> NoName, mtime |-> At(table, length).mtime]
  BY <1>5 DEF Deleting
<1>8. ASSUME NEW k \in Slot PROVE p.files[k] = Entry(k)
  <2>1. k \in Nat \ {0} /\ At(p.files, k) = p.files[k]
    BY FileTableAssumption DEF Slot, At
  <2>2. CASE k > length
    BY <1>7, <2>2
  <2>3. CASE k <= length /\ k > left
    <3>1. left \in Int
      <4> HIDE DEF C
      <4> QED
        BY <1>3
    <3> HIDE DEF left, Origin
    <3>2. ~ (k > length) /\ ~ (k <= left)
      BY <2>1, <2>3, <3>1
    <3>3. p.files[k] = [filename |-> NoName, mtime |-> At(table, length).mtime]
      BY <1>7, <2>1, <2>3, <3>1
    <3> QED
      BY <3>2, <3>3, Zenon
  <2>4. CASE k <= length /\ k <= left
    <3>1. \E o \in (1..length) \ C : k = o - B(o)
      <4>1. k \in 1..left
        <5> HIDE DEF C
        <5> QED
          BY <1>3, <2>1, <2>4
      <4> QED
        BY <1>1, <4>1, OriginExists
    <3>2. Origin(k) \in (1..length) \ C /\ k = Origin(k) - B(Origin(k))
      BY <3>1, Zenon
    <3>3. At(p.files, k) = At(table, Origin(k))
      <4> HIDE DEF Origin, B, C
      <4> QED
        BY <1>6, <3>2
    <3>4. Entry(k) = At(table, Origin(k))
      <4> HIDE DEF Origin
      <4> QED
        BY <2>1, <2>4
    <3> QED
      BY <2>1, <3>3, <3>4, Zenon
  <2> QED
    <3>1. left \in Int
      <4> HIDE DEF C
      <4> QED
        BY <1>3
    <3> HIDE DEF left, Entry
    <3> QED
      BY <2>1, <2>2, <2>3, <2>4, <3>1
<1>9. CleanName(table, length, name) =
        [files |-> [k \in Slot |-> Entry(k)], len |-> left]
  BY Zenon DEF CleanName, Before
<1>10. p.files = [k \in Slot |-> Entry(k)]
  <2> HIDE DEF Entry
  <2> QED
    BY <1>4, <1>8 DEF FileArray
<1> HIDE DEF Entry, left
<1> QED
  BY <1>5, <1>9, <1>10

\* The loop as it is written yields what CleanName describes.
LEMMA CleanLoopIsCleanName ==
  ASSUME files \in FileArray, len \in Nat, NEW name
  PROVE  CleanLoop(name) = CleanName(files, len, name)
<1> DEFINE D == 0..len
           start == [files |-> files, len |-> len]
           Body(p, i) == IF i <= p.len /\ At(p.files, i).filename = name
                         THEN [files |-> cleanFileInArray(p.files, p.len, i),
                               len |-> p.len - 1]
                         ELSE p
           after == CHOOSE f : f =
             [i \in D |-> IF i = 0 THEN start ELSE Body(f[i - 1], i)]
           Obeys(f, m) ==
             f = [i \in 0..m |-> IF i = 0 THEN start ELSE Body(f[i - 1], i)]
<1>1. CleanLoop(name) = after[len]
  BY Zenon DEF CleanLoop
<1> DEFINE Holds(i, p) == /\ p = [files |-> p.files, len |-> p.len]
                          /\ \E q : Deleting(files, len, name, i, p, q)
<1>2. Holds(0, start)
  <2>1. start = [files |-> start.files, len |-> start.len]
    OBVIOUS
  <2> QED
    BY <2>1, DeletingInit
<1>3. ASSUME NEW i \in 0..(len - 1), NEW p, Holds(i, p)
      PROVE  Holds(i + 1, Body(p, i + 1))
  <2>1. PICK q : Deleting(files, len, name, i, p, q)
    BY <1>3
  <2>2. \E q2 : Deleting(files, len, name, i + 1, Body(p, i + 1), q2)
    BY <2>1, DeletingStep
  <2>3. Body(p, i + 1) =
          [files |-> Body(p, i + 1).files, len |-> Body(p, i + 1).len]
    BY <1>3
  <2> HIDE DEF Body
  <2> QED
    BY <2>2, <2>3
<1> HIDE DEF Body, start, Holds
<1>4. \E f : Obeys(f, len)
  <2> DEFINE S == {m \in Nat : \E f : Obeys(f, m)}
  <2>1. 0 \in S
    <3> DEFINE f == [i \in 0..0 |-> start]
    <3>1. \A i \in 0..0 : f[i] = IF i = 0 THEN start ELSE Body(f[i - 1], i)
      OBVIOUS
    <3>2. f = [i \in 0..0 |-> IF i = 0 THEN start ELSE Body(f[i - 1], i)]
      BY <3>1
    <3> QED
      BY <3>2
  <2>2. ASSUME NEW m \in 0..len, m < len, m \in S PROVE m + 1 \in S
    <3>1. PICK f : Obeys(f, m)
      BY <2>2
    <3> DEFINE g == [i \in 0..(m + 1) |->
                       IF i = m + 1 THEN Body(f[m], m + 1) ELSE f[i]]
    <3>2. ASSUME NEW i \in 0..(m + 1)
          PROVE  (IF i = m + 1 THEN Body(f[m], m + 1) ELSE f[i]) =
                   IF i = 0 THEN start ELSE Body(g[i - 1], i)
      <4>1. CASE i = m + 1
        <5>1. i # 0 /\ i - 1 = m /\ m \in 0..(m + 1) /\ m # m + 1
          BY <4>1
        <5>2. g[m] = f[m]
          BY <5>1
        <5> HIDE DEF g
        <5> QED
          BY <4>1, <5>1, <5>2
      <4>2. CASE i = 0
        <5>1. i # m + 1 /\ i \in 0..m
          BY <4>2
        <5>2. f[i] = start
          BY <3>1, <4>2, <5>1
        <5> QED
          BY <4>2, <5>1, <5>2
      <4>3. CASE i # m + 1 /\ i # 0
        <5>1. i \in 0..m /\ i - 1 \in 0..(m + 1) /\ i - 1 # m + 1
          BY <4>3
        <5>2. f[i] = Body(f[i - 1], i)
          BY <3>1, <4>3, <5>1
        <5>3. g[i - 1] = f[i - 1]
          BY <5>1
        <5> HIDE DEF g
        <5> QED
          BY <4>3, <5>2, <5>3
      <4> QED
        BY <4>1, <4>2, <4>3
    <3>3. Obeys(g, m + 1)
      BY <3>2
    <3>4. m + 1 \in Nat
      OBVIOUS
    <3> HIDE DEF g, Obeys
    <3> QED
      BY <3>3, <3>4
  <2>3. 0..len \subseteq S
    <3> HIDE DEF S
    <3> QED
      BY <2>1, <2>2, Counting
  <2>4. len \in S
    <3> HIDE DEF S
    <3> QED
      BY <2>3
  <2> QED
    BY <2>4
<1>5. after = [i \in D |-> IF i = 0 THEN start ELSE Body(after[i - 1], i)]
  BY <1>4, Zenon
<1> HIDE DEF after
<1> DEFINE S == {i \in Nat : Holds(i, after[i])}
<1>6. 0 \in S
  BY <1>2, <1>5
<1>7. ASSUME NEW i \in 0..len, i < len, i \in S PROVE i + 1 \in S
  <2>1. i \in 0..(len - 1) /\ i + 1 \in D /\ i + 1 # 0 /\ (i + 1) - 1 = i
        /\ i + 1 \in Nat
    BY <1>7
  <2>2. after[i + 1] = Body(after[i], i + 1)
    BY <1>5, <2>1
  <2>3. Holds(i + 1, Body(after[i], i + 1))
    BY <1>3, <1>7, <2>1
  <2> QED
    BY <2>1, <2>2, <2>3
<1>8. Holds(len, after[len])
  <2>1. 0..len \subseteq S
    <3> HIDE DEF S
    <3> QED
      BY <1>6, <1>7, Counting
  <2>2. len \in S
    <3> HIDE DEF S
    <3> QED
      BY <2>1
  <2> QED
    BY <2>2
<1>9. PICK q : Deleting(files, len, name, len, after[len], q)
  BY <1>8 DEF Holds
<1>10. /\ after[len].files = CleanName(files, len, name).files
       /\ after[len].len = CleanName(files, len, name).len
  BY <1>9, DeletingEnd
<1>11. after[len] = [files |-> after[len].files, len |-> after[len].len]
  BY <1>8 DEF Holds
<1>12. CleanName(files, len, name) =
         [files |-> CleanName(files, len, name).files,
          len |-> CleanName(files, len, name).len]
  BY DEF CleanName
<1> QED
  BY <1>1, <1>10, <1>11, <1>12, Zenon

\* The deletion loop and its shifts agree with CleanName and Clean.
LEMMA CleaningAgreesWhenTyped ==
  ASSUME files \in FileArray, len \in Nat
  PROVE  CleaningAgrees
<1>1. \A i \in 1..len : Clean(files, len, i) = cleanFileInArray(files, len, i)
  BY CleanLoopIsClean
<1>2. \A name \in FileName : CleanName(files, len, name) = CleanLoop(name)
  BY CleanLoopIsCleanName
<1> QED
  BY <1>1, <1>2 DEF CleaningAgrees

-----------------------------------------------------------------------------
(* Along every behaviour. *)

(***************************************************************************)
(* The inductive invariant: the array holds entries whose names are of     *)
(* regular files, and fileLength is not negative.                          *)
(***************************************************************************)
Typed ==
  /\ files \in FileArray
  /\ Plain(files)
  /\ len \in Nat
  /\ disk \in Folders

\* It holds of the cleared array and is kept by all that the server does.
LEMMA AlwaysTyped == Spec => []Typed
<1>1. Init => Typed
  BY EmptyIsTable DEF Init, Typed, Plain, clear_files, EmptySlot
<1>2. ASSUME Typed, [Next]_vars PROVE Typed'
  <2>1. files \in FileArray /\ Plain(files) /\ len \in Nat /\ disk \in Folders
    BY <1>2 DEF Typed
  <2>2. \A i : At(files, i).filename \in FileName \cup {NoName}
    BY <2>1 DEF Plain, At, EmptySlot
  <2>3. CASE Enter
    <3>1. PICK name \in FileName, i \in Slot, t \in 1..MaxMTime :
            files' = Record(files, i, name, t)
      BY <2>3 DEF Enter
    <3>2. files' \in FileArray
      BY <2>1, <3>1, LoopsAssumption, RecordIsTable DEF EntryName
    <3>3. Plain(files')
      BY <2>1, <3>1 DEF Plain, Record, FileArray
    <3> QED
      BY <2>1, <2>3, <3>2, <3>3 DEF Enter, Typed, Plain
  <2>4. CASE Count
    BY <2>1, <2>4 DEF Count, Typed, Plain
  <2>5. CASE Forget
    <3>1. PICK i \in 1..len : files' = Clean(files, len, i)
      BY <2>5 DEF Forget
    <3>2. files' \in FileArray
      BY <2>1, <3>1, CleanIsTable
    <3>3. Plain(files')
      BY <2>1, <2>2, <3>1 DEF Plain, Clean
    <3>4. len' \in Nat /\ disk' = disk
      BY <2>1, <2>5, <3>1 DEF Forget
    <3> QED
      BY <2>1, <3>2, <3>3, <3>4 DEF Typed, Plain
  <2>6. CASE Remove
    <3>1. PICK name \in FileName : /\ files' = CleanName(files, len, name).files
                                   /\ len' = CleanName(files, len, name).len
      BY <2>6 DEF Remove
    <3>2. files' \in FileArray /\ len' \in Nat
      BY <2>1, <3>1, CleanNameIsTable
    <3>3. Plain(files')
      <4>1. \A i \in Slot :
              \/ files'[i] = files[i]
              \/ \E k : files'[i] = At(files, k)
              \/ files'[i] = [filename |-> NoName, mtime |-> At(files, len).mtime]
        BY <3>1, Zenon DEF CleanName
      <4>2. ASSUME NEW i \in Slot
            PROVE  files'[i].filename \in FileName \cup {NoName}
        <5>1. CASE files'[i] = files[i]
          BY <2>1, <5>1 DEF Plain
        <5>2. CASE \E k : files'[i] = At(files, k)
          BY <2>2, <5>2
        <5>3. CASE files'[i] =
                     [filename |-> NoName, mtime |-> At(files, len).mtime]
          BY <5>3
        <5> QED
          BY <4>1, <5>1, <5>2, <5>3
      <4> QED
        BY <4>2 DEF Plain
    <3> QED
      BY <2>1, <2>6, <3>2, <3>3 DEF Remove, Typed, Plain
  <2>7. CASE Refreshed
    <3>1. files' = RefreshTimes /\ len' = len /\ disk' = disk
      BY <2>7 DEF Refreshed
    <3>2. ASSUME NEW i \in Slot
          PROVE  /\ files'[i] \in FileInfo
                 /\ files'[i].filename = files[i].filename
      <4> DEFINE name == files[i].filename
      <4>1. files[i] \in FileInfo /\ name \in FileName \cup {NoName}
        BY <2>1 DEF FileArray, Plain
      <4>2. CASE files'[i] = files[i]
        BY <4>1, <4>2
      <4>3. CASE /\ name # NoName /\ Exists(disk, name)
                 /\ files'[i] = [files[i] EXCEPT !.mtime = MTime(disk, name, 0)]
        <5>1. name \in FileName /\ disk[name] # Absent
          BY <4>1, <4>3 DEF Exists
        <5>2. disk[name].mtime \in Nat
          BY <2>1, <5>1, LoopsAssumption DEF Folders
        <5>3. MTime(disk, name, 0) = disk[name].mtime
          BY <5>1, FileTableAssumption DEF MTime
        <5> QED
          BY <4>1, <4>3, <5>2, <5>3 DEF FileInfo
      <4>4. i \in 1..i
        BY FileTableAssumption DEF Slot
      <4> QED
        BY <3>1, <4>2, <4>3, <4>4 DEF RefreshTimes
    <3>3. files' \in FileArray
      BY <3>1, <3>2 DEF RefreshTimes, FileArray
    <3> QED
      BY <2>1, <3>1, <3>2, <3>3 DEF Typed, Plain
  <2>8. CASE ChangeFolder
    BY <2>1, <2>8 DEF ChangeFolder, Typed, Plain
  <2>9. CASE UNCHANGED vars
    BY <2>1, <2>9 DEF vars, Typed, Plain
  <2> QED
    BY <1>2, <2>3, <2>4, <2>5, <2>6, <2>7, <2>8, <2>9 DEF Next
<1> QED
  BY <1>1, <1>2, PTL DEF Spec

(***************************************************************************)
(* check_file, the loop of send_new_file and the search for a vanished     *)
(* file find what CheckFile, Listed and FirstMissing say, in every array   *)
(* the server can build and for a fileLength on either side of its size.   *)
(***************************************************************************)
THEOREM SearchesAreRight == Spec => []SearchesAgree
<1>1. Typed => SearchesAgree
  BY SearchesAgreeWhenTyped DEF Typed
<1> QED
  BY <1>1, AlwaysTyped, PTL

(***************************************************************************)
(* cleanFileInArray and the deletion loop of process_client_request leave  *)
(* the arrays that Clean and CleanName describe: the models that use these *)
(* two lose nothing of what the loops do, skipped duplicates and stale     *)
(* mtimes included.                                                        *)
(***************************************************************************)
THEOREM CleaningIsRight == Spec => []CleaningAgrees
<1>1. Typed => CleaningAgrees
  BY CleaningAgreesWhenTyped DEF Typed
<1> QED
  BY <1>1, AlwaysTyped, PTL

(***************************************************************************)
(* refresh_file_times leaves the array that RefreshTimes describes, for    *)
(* every folder.                                                           *)
(***************************************************************************)
THEOREM RefreshIsRight == Spec => []RefreshAgrees
<1>1. Typed => RefreshAgrees
  BY RefreshAgreesWhenTyped DEF Typed
<1> QED
  BY <1>1, AlwaysTyped, PTL
=============================================================================
