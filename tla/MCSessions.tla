------------------------------ MODULE MCSessions ------------------------------
(***************************************************************************)
(* Two users, one of whom makes two connections: the first one may upload  *)
(* a file, the second one only logs in.                                    *)
(***************************************************************************)
EXTENDS Sessions, TLC

CONSTANTS k1, k2, k3, ann, bob

MCConn == {k1, k2, k3}
MCUser == {ann, bob}
MCOwner == (k1 :> ann) @@ (k2 :> bob) @@ (k3 :> ann)
MCMaxPackets == (k1 :> 3) @@ (k2 :> 2) @@ (k3 :> 1)
=============================================================================
