--------------------------------- MODULE Labels ---------------------------------
(***************************************************************************)
(* What labels promise: a label names the statement that follows it, and   *)
(* one at the end of the text names the end.  Statements are numbered from *)
(* 0; a label that is written again keeps its first meaning.               *)
(***************************************************************************)
EXTENDS Integers

CONSTANT LabelName

VARIABLES
  count,     \* how many statements there were
  waiting,   \* the labels whose statement has not come yet
  target,    \* the statement that a label names
  complete   \* the end of the text was reached

vars == <<count, waiting, target, complete>>

Init == count = 0 /\ waiting = {} /\ target = << >> /\ complete = FALSE

Bind(labels) ==
  target' = [n \in DOMAIN target \cup labels |->
               IF n \in DOMAIN target THEN target[n] ELSE count]

\* A label on a line of its own.
Label(n) ==
  /\ ~complete
  /\ waiting' = waiting \cup {n}
  /\ UNCHANGED <<count, target, complete>>

\* A statement, with the labels on its line.
Statement(own) ==
  /\ ~complete
  /\ Bind(waiting \cup own)
  /\ count' = count + 1
  /\ waiting' = {}
  /\ UNCHANGED complete

End ==
  /\ ~complete
  /\ Bind(waiting)
  /\ waiting' = {}
  /\ complete' = TRUE
  /\ UNCHANGED count

Next ==
  \/ \E n \in LabelName : Label(n)
  \/ \E own \in {{}} \cup {{n} : n \in LabelName} : Statement(own)
  \/ End

Spec == Init /\ [][Next]_vars
===============================================================================
