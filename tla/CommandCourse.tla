----------------------------- MODULE CommandCourse -----------------------------
(***************************************************************************)
(* What relay and extension together promise about a command, without      *)
(* queues, sockets, polls, cursors, acknowledgements and deaths of the     *)
(* worker: commands are taken one at a time and in the order of their      *)
(* device, begin at most once, and end in a result unless the worker dies. *)
(* A command may wait forever.  DeliveryCourse shows that Delivery         *)
(* implements it.                                                          *)
(***************************************************************************)
EXTENDS Naturals, Sequences

CONSTANTS Cmd, Device

VARIABLES
  issuedTo,  \* the device of each command so far, in order
  course     \* how far each command has come

vars == <<issuedTo, course>>

Init == issuedTo = <<>> /\ course = [c \in Cmd |-> "waiting"]

Issue(d) ==
  /\ Len(issuedTo) + 1 \in Cmd
  /\ issuedTo' = Append(issuedTo, d)
  /\ UNCHANGED course

UnderWay(c) == course[c] \in {"taken", "started"}

\* Nothing is under way, and no later command of its device was ever taken.
Take(c) ==
  /\ c \in DOMAIN issuedTo
  /\ \A j \in Cmd : ~UnderWay(j)
  /\ \A j \in DOMAIN issuedTo : j >= c /\ issuedTo[j] = issuedTo[c] => course[j] = "waiting"
  /\ course' = [course EXCEPT ![c] = "taken"]
  /\ UNCHANGED issuedTo

Start(c) ==
  /\ course[c] = "taken"
  /\ course' = [course EXCEPT ![c] = "started"]
  /\ UNCHANGED issuedTo

\* A result is sent, also for what never began, or the worker dies with it.
End(c) ==
  /\ UnderWay(c)
  /\ \E how \in {"answered", "died"} : course' = [course EXCEPT ![c] = how]
  /\ UNCHANGED issuedTo

Next == (\E d \in Device : Issue(d)) \/ \E c \in Cmd : Take(c) \/ Start(c) \/ End(c)

Spec == Init /\ [][Next]_vars
=============================================================================
