------------------------------ MODULE FileTable ------------------------------
(***************************************************************************)
(* The file_info array the server keeps for each client slot, and the      *)
(* operations on it: clear_files and check_file (helpers/filedata.c),      *)
(* cleanFileInArray, and the loops of dbserver.c that walk the array.      *)
(*                                                                         *)
(* The array has no length field of its own.  Its readers take an entry    *)
(* with an empty filename for the end of the array, while                  *)
(* process_client_request and cleanFileInArray trust the separate counter  *)
(* client_info.fileLength; the operators below keep that split.            *)
(*                                                                         *)
(* Array indices are 1..MaxFiles here and 0..MAXFILES-1 in the code.  The  *)
(* size field is left out: it always changes together with mtime and is    *)
(* only used to count the bytes of a transfer.                             *)
(***************************************************************************)
EXTENDS Integers, FiniteSets

CONSTANTS
  FileName,   \* names of regular files
  DirName,    \* names that are directories in every folder ("." and "..")
  NoName,     \* the empty string
  Absent,     \* a name that does not exist in a folder
  MaxFiles    \* MAXFILES

EntryName == FileName \cup DirName

ASSUME FileTableAssumption ==
  /\ MaxFiles \in Nat \ {0}
  /\ FileName \cap DirName = {}
  /\ NoName \notin EntryName

Slot == 1..MaxFiles
FileInfo == [filename : EntryName \cup {NoName}, mtime : Nat]
FileArray == [Slot -> FileInfo]

EmptySlot == [filename |-> NoName, mtime |-> 0]

clear_files == [i \in Slot |-> EmptySlot]

(***************************************************************************)
(* files[i] for an index that may lie beyond the array.  fileLength is not *)
(* bounded by MAXFILES, so the code may read there; the bytes that follow  *)
(* the array are the fields state, fileLength, ... of the same client_info,*)
(* and state = SYNC = 0 reads as an empty filename.                        *)
(***************************************************************************)
At(files, i) == IF i \in Slot THEN files[i] ELSE EmptySlot

(***************************************************************************)
(* A folder maps each regular file name to Absent or to a file with an     *)
(* mtime.  Directories always exist, and so does the folder itself, which  *)
(* is what the empty name resolves to.  Modification times of directories  *)
(* are not tracked: dirTime stands for whatever stat returns for them.     *)
(***************************************************************************)
Exists(folder, name) == name \in FileName => folder[name] # Absent

MTime(folder, name, dirTime) ==
  IF name \in DirName THEN dirTime ELSE folder[name].mtime

-----------------------------------------------------------------------------
(***************************************************************************)
(* check_file: the first slot that holds the name or is empty.  An empty   *)
(* slot receives the name only, so it keeps the mtime of whatever it held  *)
(* before.  There is no such slot when the array is full.                  *)
(***************************************************************************)
Stops(files, name, i) == files[i].filename \in {name, NoName}

CheckFile(files, name, i) ==
  /\ Stops(files, name, i)
  /\ \A j \in 1..(i-1) : ~ Stops(files, name, j)

TableFull(files, name) == \A i \in Slot : ~ Stops(files, name, i)

Record(files, i, name, mtime) ==
  [files EXCEPT ![i] = [filename |-> name, mtime |-> mtime]]

(***************************************************************************)
(* The search loop of send_new_file: the client is taken to have the name  *)
(* when it occurs before the first empty slot.                             *)
(***************************************************************************)
Listed(files, name) ==
  \E i \in Slot : /\ files[i].filename = name
                  /\ \A j \in 1..(i-1) : files[j].filename # NoName

(***************************************************************************)
(* The loop of process_client_request that looks for a file of this client *)
(* which is gone from the server's folder: it visits the first fileLength  *)
(* entries and stops at the first one whose file cannot be found.          *)
(***************************************************************************)
Missing(files, disk, i) == ~ Exists(disk, At(files, i).filename)

FirstMissing(files, len, disk, i) ==
  /\ i \in 1..len
  /\ Missing(files, disk, i)
  /\ \A j \in 1..(i-1) : ~ Missing(files, disk, j)

NoneMissing(files, len, disk) ==
  \A i \in 1..len : ~ Missing(files, disk, i)

-----------------------------------------------------------------------------
(***************************************************************************)
(* cleanFileInArray: shift the entries between index and fileLength down   *)
(* by one and blank the NAME of the last one; the caller's fileLength then *)
(* drops by one.  Entries beyond fileLength do not move.                   *)
(***************************************************************************)
Clean(files, len, index) ==
  IF index \notin 1..len
  THEN files
  ELSE [i \in Slot |->
          IF i = len THEN [filename |-> NoName, mtime |-> files[i].mtime]
          ELSE IF i \in index..(len-1) THEN At(files, i+1)
          ELSE files[i]]

(***************************************************************************)
(* The deletion loop of process_client_request: for i = 0, 1, ... below    *)
(* the shrinking fileLength, clean the entries with this name.  The entry  *)
(* that moves into a cleaned slot is not looked at again, so of a run of   *)
(* adjacent entries with the name every second one stays.  The loop itself *)
(* is in FileTableLoops.                                                   *)
(***************************************************************************)
Cleaned(files, len, name) ==
  {k \in 1..len :
     \E start \in 1..k :
        /\ \A j \in start..k : At(files, j).filename = name
        /\ start = 1 \/ At(files, start - 1).filename # name
        /\ (k - start) % 2 = 0}

\* Mutant: entries with the name are cleaned up to the end of the array, and
\* fileLength drops for each of them.
CleanNameToEnd(files, len, name) ==
  LET found == {k \in Slot : files[k].filename = name}
  IN  [files |-> [i \in Slot |->
                    IF i \in found THEN [files[i] EXCEPT !.filename = NoName]
                    ELSE files[i]],
       len |-> len - Cardinality(found)]

CleanName(files, len, name) ==
  LET cleaned == Cleaned(files, len, name)
      left == len - Cardinality(cleaned)
      \* where the entry comes from that ends up in slot i
      Origin(i) == CHOOSE k \in (1..len) \ cleaned :
                     i = k - Cardinality({j \in cleaned : j < k})
  IN  [files |-> [i \in Slot |->
                    IF i > len THEN files[i]
                    ELSE IF i <= left THEN At(files, Origin(i))
                    ELSE [filename |-> NoName, mtime |-> At(files, len).mtime]],
       len |-> left]

(***************************************************************************)
(* refresh_file_times, one entry: the modification time of its file, when  *)
(* that is newer.                                                          *)
(***************************************************************************)
RefreshEntry(files, i, disk, dirTime) ==
  LET time == MTime(disk, files[i].filename, dirTime)
  IN  IF files[i].mtime < time THEN [files EXCEPT ![i].mtime = time] ELSE files
=============================================================================
