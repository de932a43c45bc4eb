---------------------------- MODULE DeliveryCourse ----------------------------
(***************************************************************************)
(* Delivery as the course of its commands: whatever is re-sent, lost,      *)
(* repeated or interrupted on the way, each save of the cursor, start and  *)
(* result is one step of the abstract course.                              *)
(***************************************************************************)
EXTENDS Delivery

course ==
  [c \in Cmd |-> IF c \in killed THEN "died"
                 ELSE IF c \in answered THEN "answered"
                 ELSE IF starts[c] > 0 THEN "started"
                 ELSE IF c \in taken THEN "taken"
                 ELSE "waiting"]

Course == INSTANCE CommandCourse

\* Every command runs its course once, over reconnects, re-sends on both
\* transports, worker deaths and control changes: it is taken when nothing else
\* is under way and no later command of its device was, begins at most once,
\* and a result is sent of it at most once and by every path but a death of the
\* worker (worker.js:30-33, background.js:1837-1870).
RunsItsCourse == Course!Spec
=============================================================================
