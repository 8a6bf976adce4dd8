--------------------------------- MODULE Sync --------------------------------
(***************************************************************************)
(* dbserver and its clients together, with what happens around them: users *)
(* and the server's operator edit and delete files, processes crash, the   *)
(* clock advances.  Env selects which of these events a run may contain:   *)
(*   "write"     a user writes a file                                      *)
(*   "delete"    a user deletes a file                                     *)
(*   "collide"   two writes may get the same mtime                         *)
(*   "backdate"  a write may carry an mtime of the past (cp -p, unzip)     *)
(*   "adminWrite", "adminDelete"   the same in server_files/               *)
(*   "clientCrash", "serverCrash"  a process dies at any point             *)
(*   "reboot"    a server that is down is started again                    *)
(***************************************************************************)
EXTENDS SyncServer, SyncClient

EnvKind == {"write", "delete", "collide", "backdate", "adminWrite",
            "adminDelete", "clientCrash", "serverCrash", "reboot"}

ASSUME EnvAssumption == Env \subseteq EnvKind

Init ==
  /\ now = 1
  /\ ops = 0
  /\ deleted = {}
  /\ serverUp = TRUE
  /\ disk = [name \in FileName |-> Absent]
  /\ SlotsInit
  /\ toServer = [c \in Client |-> <<>>]
  /\ toClient = [c \in Client |-> <<>>]
  /\ ClientInit
  /\ local = [c \in Client |-> [name \in FileName |-> Absent]]

-----------------------------------------------------------------------------
(* Connecting. *)

\* A client is started; the server takes its login message.
Login(c) ==
  /\ ServerLogin(c)
  /\ ClientStart(c)
  /\ UNCHANGED <<envVars, wireVars>>

\* The server exits on the login message of one client too many.
LoginFails(c) ==
  /\ pc[c] = "off"
  /\ LoginRefused(c)
  /\ UNCHANGED <<envVars, clientVars, local>>

Boot ==
  /\ "reboot" \in Env
  /\ ServerBoots
  /\ UNCHANGED <<envVars, clientVars, local>>

-----------------------------------------------------------------------------
(* The environment. *)

Event(kind) ==
  /\ kind \in Env
  /\ ops < MaxOps
  /\ ops' = ops + 1
  /\ UNCHANGED now

Tick ==
  /\ now < MaxTime
  /\ now' = now + 1
  /\ UNCHANGED <<ops, deleted, serverUp, disk, slotVars, wireVars, clientVars,
                 local>>

\* The mtimes a new version of a file may get.
NewTime(name) ==
  {t \in 1..now :
     /\ "backdate" \in Env \/ t = now
     /\ "collide" \in Env
        \/ \A folder \in {disk} \cup {local[c] : c \in Client} :
              folder[name] # Absent => folder[name].mtime # t}

NewFile(name, author, t) ==
  [mtime |-> t, data |-> [of |-> name, by |-> author, id |-> ops + 1]]

\* A user saves a file; the editor replaces the old version by the new one.
UserWrite(c, name) ==
  /\ Event("write")
  /\ \E t \in NewTime(name) :
       local' = [local EXCEPT ![c][name] = NewFile(name, c, t)]
  /\ cur' = [cur EXCEPT ![c] = Unlink(@, name)]
  /\ UNCHANGED <<deleted, serverUp, disk, slotVars, wireVars, pc, known, todo,
                 count>>

UserDelete(c, name) ==
  /\ Event("delete")
  /\ Exists(local[c], name)
  /\ local' = [local EXCEPT ![c][name] = Absent]
  /\ cur' = [cur EXCEPT ![c] = Unlink(@, name)]
  /\ deleted' = deleted \cup {name}
  /\ UNCHANGED <<serverUp, disk, slotVars, wireVars, pc, known, todo, count>>

AdminWrite(name) ==
  /\ Event("adminWrite")
  /\ \E t \in NewTime(name) :
       disk' = [disk EXCEPT ![name] = NewFile(name, NoClient, t)]
  /\ upload' = [c \in Client |-> Unlink(upload[c], name)]
  /\ UNCHANGED <<deleted, serverUp, slots, phase, refresh, sharing, files,
                 fileLength, wireVars, clientVars, local>>

AdminDelete(name) ==
  /\ Event("adminDelete")
  /\ Exists(disk, name)
  /\ disk' = [disk EXCEPT ![name] = Absent]
  /\ upload' = [c \in Client |-> Unlink(upload[c], name)]
  /\ deleted' = deleted \cup {name}
  /\ UNCHANGED <<serverUp, slots, phase, refresh, sharing, files, fileLength,
                 wireVars, clientVars, local>>

\* A file is removed between the readdir and the stat of a request, which find
\* nothing out of order before and make the process exit after.
AdminDeleteFailsStat(c, name) ==
  /\ Event("adminDelete")
  /\ Exists(disk, name)
  /\ Stats(c, name)
  /\ disk' = [disk EXCEPT ![name] = Absent]
  /\ deleted' = deleted \cup {name}
  /\ ServerDies
  /\ UNCHANGED <<clientVars, local>>

\* What the client had not yet handed to the kernel of a body is never sent.
ClientCrash(c) ==
  /\ Event("clientCrash")
  /\ pc[c] # "off"
  /\ Exit(c)
  /\ \E channel \in {toServer[c], Trim(toServer[c])} :
       toServer' = [toServer EXCEPT ![c] = channel]
  /\ UNCHANGED <<deleted, serverUp, disk, slotVars, local>>

ServerCrash ==
  /\ Event("serverCrash")
  /\ serverUp
  /\ ServerDies
  /\ UNCHANGED <<deleted, disk, clientVars, local>>

-----------------------------------------------------------------------------
ServerNext(c) == ServerStep(c) /\ UNCHANGED <<envVars, clientVars, local>>

ClientNext(c) ==
  ClientStep(c) /\ UNCHANGED <<envVars, serverUp, disk, slotVars>>

EnvNext ==
  \/ Tick
  \/ \E c \in Client, name \in FileName : UserWrite(c, name)
  \/ \E c \in Client, name \in FileName : UserDelete(c, name)
  \/ \E name \in FileName : AdminWrite(name)
  \/ \E name \in FileName : AdminDelete(name)
  \/ \E c \in Client, name \in FileName : AdminDeleteFailsStat(c, name)
  \/ \E c \in Client : ClientCrash(c)
  \/ ServerCrash

Next ==
  \/ \E c \in Client : Login(c)
  \/ \E c \in Client : LoginFails(c)
  \/ Boot
  \/ \E c \in Client : ServerNext(c)
  \/ \E c \in Client : ClientNext(c)
  \/ EnvNext

Spec == Init /\ [][Next]_vars
=============================================================================
