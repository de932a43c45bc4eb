------------------------------ MODULE ResultLedger ------------------------------
(***************************************************************************)
(* What the relay promises about the answers to commands, without queues,  *)
(* rows, commits, crashes and purges: a ledger with one line for each      *)
(* command.  A line is written at most once, read by its primary reader at *)
(* most once, and may be forgotten, in parts, but never comes back.        *)
(* RelayHubLedger shows that the relay's rows implement it.                *)
(***************************************************************************)
CONSTANTS Cmd, Content, None   \* None is no answer

VARIABLES
  known,    \* the commands ever enqueued
  owed,     \* those that can still be answered
  answer,   \* what readers are given, or None
  unread,   \* answered, and the primary reader has not taken the answer
  reading,  \* the answer being handed to its primary reader, or None
  read      \* the answers that were

vars == <<known, owed, answer, unread, reading, read>>

Init ==
  /\ known = {} /\ owed = {} /\ unread = {} /\ read = {}
  /\ answer = [c \in Cmd |-> None] /\ reading = None

Offer(c) ==
  /\ c \notin known
  /\ known' = known \cup {c} /\ owed' = owed \cup {c}
  /\ UNCHANGED <<answer, unread, reading, read>>

Answer(c, a) ==
  /\ c \in owed /\ c \notin read /\ answer[c] = None
  /\ owed' = owed \ {c}
  /\ answer' = [answer EXCEPT ![c] = a]
  /\ unread' = unread \cup {c}
  /\ UNCHANGED <<known, reading, read>>

Read(c) ==
  /\ c \in unread /\ c \notin read /\ answer[c] # None /\ reading = None
  /\ reading' = c
  /\ unread' = unread \ {c} /\ read' = read \cup {c}
  /\ UNCHANGED <<known, owed, answer>>

\* The reader has its bytes, or the crash that ended its request.
Handed ==
  /\ reading # None /\ reading' = None
  /\ UNCHANGED <<known, owed, answer, unread, read>>

\* Lifetimes end and devices are revoked; an answer still to be read keeps its text.
Forget ==
  /\ owed' \subseteq owed /\ unread' \subseteq unread
  /\ \A c \in Cmd : answer'[c] # answer[c] => answer'[c] = None /\ c \notin unread'
  /\ DOMAIN answer' = Cmd
  /\ reading' \in {reading, None}
  /\ UNCHANGED <<known, read>>

Next ==
  \/ \E c \in Cmd : Offer(c) \/ Read(c) \/ \E a \in Content : Answer(c, a)
  \/ Handed \/ Forget

Spec == Init /\ [][Next]_vars
=============================================================================
