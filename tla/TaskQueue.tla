------------------------------- MODULE TaskQueue ------------------------------
(***************************************************************************)
(* What taskQueue of hw5.c promises to the threads around it: a first in,  *)
(* first out queue that never holds more than Bound tasks.  Every task is  *)
(* put into it at most once, is taken out of it at most once, and nothing  *)
(* is put into it any more when it has been closed.                        *)
(***************************************************************************)
EXTENDS Integers, Sequences

CONSTANTS
  Item,   \* what tasks are about
  Bound   \* the most that wait at a time

VARIABLES
  waiting,  \* the queue
  taken,    \* what has been taken
  closed    \* no more will come

queueVars == <<waiting, taken, closed>>

Init ==
  /\ waiting = <<>>
  /\ taken = {}
  /\ closed = FALSE

Put(item) ==
  /\ ~ closed
  /\ Len(waiting) < Bound
  /\ item \notin taken
  /\ \A i \in 1..Len(waiting) : waiting[i] # item
  /\ waiting' = Append(waiting, item)
  /\ UNCHANGED <<taken, closed>>

Take ==
  /\ waiting # <<>>
  /\ waiting' = Tail(waiting)
  /\ taken' = taken \cup {Head(waiting)}
  /\ UNCHANGED closed

Close ==
  /\ closed' = TRUE
  /\ UNCHANGED <<waiting, taken>>

Next == (\E item \in Item : Put(item)) \/ Take \/ Close

Spec == Init /\ [][Next]_queueVars
=============================================================================
