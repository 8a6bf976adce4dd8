\* One user, one file, crashes and restarts of both sides; writes may have equal
\* mtimes.
SPECIFICATION Spec
CONSTANTS
  FileName = {f}
  DirName = {dot}
  NoName = NoName
  Absent = Absent
  MaxFiles = 1
  Client = {c1}
  DirOf <- OneDirectory
  NoClient = NoClient
  MaxClients = 2
  MaxTime = 3
  MaxOps = 4
  Env = {"write", "collide", "clientCrash", "serverCrash", "reboot"}
  c1 = c1
  c2 = c2
  c3 = c3
  d1 = d1
PROPERTIES OwnFilesUntouched
\* Servers and clients may exit, and the environment has finitely many events.
CHECK_DEADLOCK FALSE
