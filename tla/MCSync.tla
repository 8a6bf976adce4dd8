------------------------------- MODULE MCSync --------------------------------
(***************************************************************************)
(* Sync with up to three clients, which all synchronize the directory d1.  *)
(***************************************************************************)
EXTENDS SyncProps

CONSTANTS c1, c2, c3, d1

OneDirectory == [c \in Client |-> d1]
=============================================================================
