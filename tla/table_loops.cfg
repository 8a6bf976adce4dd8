\* Two names, an array of four entries and a fileLength of up to five.
SPECIFICATION Spec
CONSTANTS
  FileName = {f, g}
  DirName = {}
  NoName = NoName
  Absent = Absent
  MaxFiles = 4
  MaxMTime = 2
  MaxLength = 5
INVARIANTS SearchesAgree CleaningAgrees RefreshAgrees
