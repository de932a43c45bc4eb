----------------------------- MODULE RelayHubLedger -----------------------------
(***************************************************************************)
(* The relay's rows (RelayHub) as a ledger of answers: what storage holds  *)
(* is what the ledger says, at every step between a commit and the change  *)
(* of memory, over purges, crashes and clock changes.                      *)
(***************************************************************************)
EXTENDS RelayHub

\* A command is owed an answer while its ownership is there and not done.
owed == {id \in DOMAIN disk.own : ~disk.own[id].done}

answer == [id \in Cmd |-> IF id \in DOMAIN disk.payload THEN disk.payload[id].body ELSE None]

\* What a load cut short left of an answer is nothing to be read: the next load
\* that completes takes its receipt too.
unread == {id \in DOMAIN disk.res : stage = "down" => id \in DOMAIN disk.payload}

Ledger == INSTANCE ResultLedger WITH
  known <- DOMAIN issued, owed <- owed, answer <- answer, unread <- unread,
  reading <- opening, read <- taken

\* Every answer is written once and read once: what a commit of an enqueue, a
\* result, a consumption, a purge or a revocation makes of the rows is one step
\* of the ledger, and a crash between commit and memory repeats none
\* (worker.js:361-460, :611-639, :684-690).
WriteOnceReadOnce == Ledger!Spec
=============================================================================
