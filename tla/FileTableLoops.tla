---------------------------- MODULE FileTableLoops ---------------------------
(***************************************************************************)
(* The loops over the file_info array as the code runs them, one iteration *)
(* at a time, against the closed forms of FileTable.  One client's array   *)
(* goes through everything the server does to it, in any order, with any   *)
(* folder, so it takes every shape it can have: with duplicates of a name, *)
(* with holes, with stale mtimes in blank entries, and with a fileLength   *)
(* that is not the number of entries.                                      *)
(***************************************************************************)
EXTENDS FileTable

CONSTANTS
  MaxMTime,   \* bound: mtimes of files
  MaxLength   \* bound: fileLength

ASSUME LoopsAssumption == MaxMTime \in Nat /\ MaxLength \in Nat

VARIABLES
  files,   \* client_info.files
  len,     \* client_info.fileLength
  disk     \* the folder: each name Absent or [mtime]

vars == <<files, len, disk>>

Folders == [FileName -> [mtime : 1..MaxMTime] \cup {Absent}]

-----------------------------------------------------------------------------
(* The loops.  A loop that searches yields an index, 0 for none.           *)

check_file(name) ==
  LET from[i \in 1..(MaxFiles + 1)] ==
        IF i > MaxFiles THEN 0
        ELSE IF files[i].filename = name THEN i
        ELSE IF files[i].filename = NoName THEN i
        ELSE from[i + 1]
  IN  from[1]

\* Mutant: an empty entry does not end the search.
FoundAnywhere(name) == \E j \in Slot : files[j].filename = name

\* send_new_file: is the name in the array?
Found(name) ==
  LET from[j \in 1..(MaxFiles + 1)] ==
        IF j > MaxFiles THEN FALSE
        ELSE IF files[j].filename = NoName THEN FALSE
        ELSE IF files[j].filename = name THEN TRUE
        ELSE from[j + 1]
  IN  from[1]

\* process_client_request: the first file that is gone from the folder.
Vanished ==
  LET from[i \in 1..(len + 1)] ==
        IF i > len THEN 0
        ELSE IF ~ Exists(disk, At(files, i).filename) THEN i
        ELSE from[i + 1]
  IN  from[1]

\* The shift and the blanking in cleanFileInArray.
cleanFileInArray(table, length, index) ==
  LET shifted[i \in (index - 1)..length] ==
        IF i = index - 1 THEN table
        ELSE IF i >= length \/ i \notin Slot THEN shifted[i - 1]
        ELSE [shifted[i - 1] EXCEPT ![i] = At(shifted[i - 1], i + 1)]
  IN  IF index \notin 1..length THEN table
      ELSE [i \in Slot |->
              IF i = length
              THEN [shifted[length][i] EXCEPT !.filename = NoName]
              ELSE shifted[length][i]]

\* Mutant: the entry that moves into a cleaned slot is looked at as well.
CleanLoopAll(name) ==
  LET after[i \in 0..len] ==
        IF i = 0 THEN [files |-> files, len |-> len]
        ELSE LET p == after[i - 1]
                 k == len - i + 1
             IN  IF At(p.files, k).filename = name
                 THEN [files |-> cleanFileInArray(p.files, p.len, k),
                       len |-> p.len - 1]
                 ELSE p
  IN  after[len]

\* process_client_request: the loop after a file was removed.
CleanLoop(name) ==
  LET after[i \in 0..len] ==
        IF i = 0 THEN [files |-> files, len |-> len]
        ELSE LET p == after[i - 1]
             IN  IF i <= p.len /\ At(p.files, i).filename = name
                 THEN [files |-> cleanFileInArray(p.files, p.len, i),
                       len |-> p.len - 1]
                 ELSE p
  IN  after[len]

\* Mutant: an empty entry does not end the loop.
refresh_all_times ==
  [j \in Slot |->
     LET name == files[j].filename
     IN  IF /\ name # NoName /\ Exists(disk, name)
            /\ files[j].mtime < disk[name].mtime
         THEN [files[j] EXCEPT !.mtime = disk[name].mtime] ELSE files[j]]

refresh_file_times ==
  LET after[j \in 0..MaxFiles] ==
        IF j = 0 THEN [files |-> files, stopped |-> FALSE]
        ELSE LET p == after[j - 1]
                 name == p.files[j].filename
             IN  IF p.stopped \/ name = NoName
                 THEN [p EXCEPT !.stopped = TRUE]
                 ELSE IF Exists(disk, name)
                 THEN [p EXCEPT !.files = RefreshEntry(p.files, j, disk, 0)]
                 ELSE p
  IN  after[MaxFiles].files

\* What the refresh amounts to when the folder does not change meanwhile: up to
\* the first empty entry, the time of every file that is newer in the folder.
RefreshTimes ==
  [i \in Slot |->
     LET name == files[i].filename
     IN  IF /\ \A j \in 1..i : files[j].filename # NoName
            /\ Exists(disk, name)
            /\ files[i].mtime < MTime(disk, name, 0)
         THEN [files[i] EXCEPT !.mtime = MTime(disk, name, 0)]
         ELSE files[i]]

-----------------------------------------------------------------------------
Init == files = clear_files /\ len = 0 /\ disk \in Folders

\* A sync packet: check_file, and the entry takes over an mtime.
Enter ==
  /\ \E name \in FileName, i \in Slot, t \in 1..MaxMTime :
       CheckFile(files, name, i) /\ files' = Record(files, i, name, t)
  /\ UNCHANGED <<len, disk>>

\* The end of an upload, of a file that may be in the array already.
Count == len < MaxLength /\ len' = len + 1 /\ UNCHANGED <<files, disk>>

Forget ==
  /\ \E i \in 1..len : /\ FirstMissing(files, len, disk, i)
                       /\ files' = Clean(files, len, i)
  /\ len' = len - 1
  /\ UNCHANGED disk

Remove ==
  /\ \E name \in FileName :
       LET clean == CleanName(files, len, name)
       IN  files' = clean.files /\ len' = clean.len
  /\ UNCHANGED disk

Refreshed ==
  /\ files' = RefreshTimes
  /\ UNCHANGED <<len, disk>>

ChangeFolder == disk' \in Folders /\ UNCHANGED <<files, len>>

Next == Enter \/ Count \/ Forget \/ Remove \/ Refreshed \/ ChangeFolder

Spec == Init /\ [][Next]_vars

-----------------------------------------------------------------------------
(***************************************************************************)
(* The searches find what FileTable says: check_file the only slot that    *)
(* CheckFile admits, the loop of send_new_file and the one that looks for  *)
(* vanished files the same names and positions.                            *)
(***************************************************************************)
SearchesAgree ==
  /\ \A name \in FileName :
       LET i == check_file(name)
       IN  /\ {j \in Slot : CheckFile(files, name, j)} = {i} \ {0}
           /\ TableFull(files, name) = (i = 0)
           /\ Listed(files, name) = Found(name)
  /\ {i \in 1..len : FirstMissing(files, len, disk, i)} = {Vanished} \ {0}
  /\ NoneMissing(files, len, disk) = (Vanished = 0)

(***************************************************************************)
(* The deletion loop and its shifts leave the array that CleanName         *)
(* describes, including which duplicates it skips and the mtimes that stay *)
(* behind in blank entries; so does cleanFileInArray for every index.      *)
(***************************************************************************)
CleaningAgrees ==
  /\ \A i \in 1..len : Clean(files, len, i) = cleanFileInArray(files, len, i)
  /\ \A name \in FileName : CleanName(files, len, name) = CleanLoop(name)

(***************************************************************************)
(* refresh_file_times stops at the first empty entry and otherwise takes   *)
(* over newer times only, as RefreshTimes does.                            *)
(***************************************************************************)
RefreshAgrees == RefreshTimes = refresh_file_times
=============================================================================
