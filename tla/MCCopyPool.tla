------------------------------ MODULE MCCopyPool -----------------------------
(* A folder with a FIFO and a file, and a folder in it with two files. *)
EXTENDS CopyPool, TLC

CONSTANTS f1, f2, f3, p1, top, sub, c1, c2

MCRegular == {f1, f2, f3}
MCFifo == {p1}
MCDir == {top, sub}
MCParent == (f1 :> top) @@ (p1 :> top) @@ (sub :> top) @@ (f2 :> sub) @@ (f3 :> sub)
MCConsumer == {c1, c2}
=============================================================================
