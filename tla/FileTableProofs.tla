--------------------------- MODULE FileTableProofs ---------------------------
(***************************************************************************)
(* What the operations on a file_info array preserve: they yield arrays of *)
(* the same shape, and cleaning never drives fileLength below zero.        *)
(***************************************************************************)
EXTENDS FileTable, FiniteSetTheorems, TLAPS

\* An empty array, and one whose entry was blanked, is an array.
LEMMA EmptyIsTable == clear_files \in FileArray
  BY DEF clear_files, FileArray, FileInfo, EmptySlot

\* Reading any index of an array, its end included, yields an entry.
LEMMA AtIsEntry ==
  ASSUME NEW files \in FileArray, NEW i
  PROVE  At(files, i) \in FileInfo
  BY DEF At, FileArray, FileInfo, EmptySlot

\* check_file followed by an assignment to the entry yields an array.
LEMMA RecordIsTable ==
  ASSUME NEW files \in FileArray, NEW i \in Slot, NEW name \in EntryName,
         NEW mtime \in Nat
  PROVE  Record(files, i, name, mtime) \in FileArray
  BY DEF Record, FileArray, FileInfo

\* cleanFileInArray yields an array.
LEMMA CleanIsTable ==
  ASSUME NEW files \in FileArray, NEW len \in Nat, NEW index
  PROVE  Clean(files, len, index) \in FileArray
<1>1. CASE index \notin 1..len
  BY <1>1 DEF Clean
<1>2. CASE index \in 1..len
  <2>1. \A i \in Slot :
          /\ files[i] \in FileInfo
          /\ At(files, i + 1) \in FileInfo
          /\ [filename |-> NoName, mtime |-> files[i].mtime] \in FileInfo
    BY AtIsEntry DEF FileArray, FileInfo
  <2> QED
    BY <1>2, <2>1 DEF Clean, FileArray
<1> QED
  BY <1>1, <1>2

\* The entries that the deletion loop cleans are among the first fileLength.
LEMMA CleanedBound ==
  ASSUME NEW files, NEW len \in Nat, NEW name
  PROVE  Cardinality(Cleaned(files, len, name)) \in 0..len
<1>1. IsFiniteSet(1..len) /\ Cardinality(1..len) = len
  BY FS_Interval
<1>2. Cleaned(files, len, name) \subseteq 1..len
  BY DEF Cleaned
<1>3. /\ IsFiniteSet(Cleaned(files, len, name))
      /\ Cardinality(Cleaned(files, len, name)) <= len
  BY <1>1, <1>2, FS_Subset
<1> QED
  BY <1>3, FS_CardinalityType

\* The deletion loop yields an array, and a fileLength that is no larger.
LEMMA CleanNameIsTable ==
  ASSUME NEW files \in FileArray, NEW len \in Nat, NEW name
  PROVE  /\ CleanName(files, len, name).files \in FileArray
         /\ CleanName(files, len, name).len \in 0..len
<1> DEFINE cleaned == Cleaned(files, len, name)
           left == len - Cardinality(cleaned)
           Origin(i) == CHOOSE k \in (1..len) \ cleaned :
                          i = k - Cardinality({j \in cleaned : j < k})
           Entry(i) == IF i > len THEN files[i]
                       ELSE IF i <= left THEN At(files, Origin(i))
                       ELSE [filename |-> NoName, mtime |-> At(files, len).mtime]
<1>1. left \in 0..len
  BY CleanedBound
<1>2. \A i \in Slot : Entry(i) \in FileInfo
  <2> TAKE i \in Slot
  <2>1. files[i] \in FileInfo
    BY DEF FileArray
  <2>2. At(files, Origin(i)) \in FileInfo
    BY AtIsEntry
  <2>3. [filename |-> NoName, mtime |-> At(files, len).mtime] \in FileInfo
    <3>1. At(files, len) \in FileInfo
      BY AtIsEntry
    <3> QED
      BY <3>1 DEF FileInfo
  <2> QED
    BY <2>1, <2>2, <2>3
<1>3. CleanName(files, len, name) =
        [files |-> [i \in Slot |-> Entry(i)], len |-> left]
  BY DEF CleanName
<1> QED
  <2> HIDE DEF Entry, left
  <2> QED
    BY <1>1, <1>2, <1>3 DEF FileArray

\* One step of refresh_file_times yields an array.
LEMMA RefreshIsTable ==
  ASSUME NEW files \in FileArray, NEW i \in Slot, NEW disk,
         NEW dirTime \in Nat,
         files[i].filename # NoName, Exists(disk, files[i].filename),
         \A name \in FileName : disk[name] # Absent => disk[name].mtime \in Nat
  PROVE  RefreshEntry(files, i, disk, dirTime) \in FileArray
<1> DEFINE time == MTime(disk, files[i].filename, dirTime)
<1>1. files[i] \in FileInfo
  BY DEF FileArray
<1>2. time \in Nat
  BY <1>1 DEF MTime, Exists, EntryName, FileInfo
<1> HIDE DEF time
<1>3. [files EXCEPT ![i].mtime = time] \in FileArray
  BY <1>1, <1>2 DEF FileArray, FileInfo
<1> QED
  BY <1>3 DEF RefreshEntry, time
=============================================================================
