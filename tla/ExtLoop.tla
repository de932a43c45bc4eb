-------------------------------- MODULE ExtLoop --------------------------------
(***************************************************************************)
(* The main loop of the service worker and what wakes, ends and restarts   *)
(* it: changes of storage, the watchdog alarm and the boot of the worker   *)
(* (src/extension/background.js).  What the loop carries is Delivery.      *)
(***************************************************************************)
EXTENDS ExtStorage

VARIABLE worker

(***************************************************************************)
(* controlEpoch and loopEpoch are only compared: moved tells that they     *)
(* differ.  http stands for pollUntil, on and token for the state the loop *)
(* read, closing for a socket that was told to close.  The worker is       *)
(* "dead", its loop not running is "off".                                  *)
(***************************************************************************)
Dead == [pc |-> "dead", moved |-> FALSE, accepting |-> TRUE, restart |-> FALSE,
         http |-> FALSE, on |-> FALSE, token |-> None, closing |-> FALSE]

LoopTypeOK ==
  worker \in [pc : {"dead", "off", "reading", "read", "connecting", "ticket", "socket", "poll", "rejected", "sleep"},
              moved : BOOLEAN, accepting : BOOLEAN, restart : BOOLEAN, http : BOOLEAN,
              on : BOOLEAN, token : Device \cup {None}, closing : BOOLEAN]

LoopInit == worker = Dead

-----------------------------------------------------------------------------
(* The loop as a function of the worker *)

\* The head of the while: a new epoch starts afresh, and the state is asked for.
top(w) == [w EXCEPT !.pc = "reading", !.moved = FALSE, !.http = @ /\ ~w.moved,
                    !.on = FALSE, !.token = None, !.closing = FALSE]

\* loop() when none is running.
start(w) == [top(w) EXCEPT !.http = FALSE]

\* The finally of loop().
ends(w) == IF w.restart THEN start([w EXCEPT !.restart = FALSE]) ELSE [start(w) EXCEPT !.pc = "off"]

\* Slip: the wait starts although the epoch moved while nothing was waiting.
Slip_retryAfter_blind(w) == [w EXCEPT !.pc = "sleep", !.on = FALSE, !.token = None, !.closing = FALSE]

retryAfter(w) ==
  IF w.moved THEN top(w) ELSE [w EXCEPT !.pc = "sleep", !.on = FALSE, !.token = None, !.closing = FALSE]

\* A woken wait goes on after the handler that wakes it.
kick(w) ==
  IF w.pc = "off" THEN start(w)
  ELSE [w EXCEPT !.restart = TRUE, !.pc = IF @ = "sleep" THEN "woken" ELSE @]

settle(w) == IF w.pc = "woken" THEN top(w) ELSE w

\* Slip: the open socket is left alone.
Slip_changed_keepsSocket(w) == kick([w EXCEPT !.moved = TRUE])

\* controlEpoch++, closeSocket, kick.
changed(w) == kick([w EXCEPT !.moved = TRUE, !.closing = w.pc = "socket"])

\* pollOnce asks for the state anew.
polls(w) == IF enabled /\ token # None THEN [w EXCEPT !.pc = "poll", !.http = TRUE, !.token = token]
            ELSE retryAfter([w EXCEPT !.http = TRUE])

\* deliveryCurrent.
current == ~worker.moved /\ worker.accepting /\ enabled /\ token = worker.token

-----------------------------------------------------------------------------
(* Steps of the loop *)

goes(w) == worker' = w /\ UNCHANGED <<storage, mishaps>>

\* getState takes its snapshot, or rejects: the loop ends.
Read ==
  /\ worker.pc = "reading"
  /\ \/ goes([worker EXCEPT !.pc = "read", !.on = enabled, !.token = token])
     \/ Mishap /\ worker' = ends(worker) /\ UNCHANGED storage

\* Slip: the snapshot is used although a change was heard since.
Slip_Decide_stale ==
  /\ worker.pc = "read"
  /\ LET serves == worker.on /\ worker.token # None
         w      == [worker EXCEPT !.accepting = serves]
     IN  IF ~serves THEN goes(ends(w))
         ELSE goes([w EXCEPT !.pc = "connecting"]) \/ (w.http /\ goes(polls(w)))

\* The snapshot counts only if no change was heard since it was asked for.
Decide ==
  /\ worker.pc = "read"
  /\ LET serves == worker.on /\ worker.token # None
         w      == [worker EXCEPT !.accepting = serves]
     IN  CASE worker.moved -> goes(top(worker))
           [] ~worker.moved /\ ~serves -> goes(ends(w))
           [] OTHER -> goes([w EXCEPT !.pc = "connecting"]) \/ (w.http /\ goes(polls(w)))

Connect ==
  /\ worker.pc = "connecting"
  /\ goes(IF worker.moved THEN top(worker) ELSE [worker EXCEPT !.pc = "ticket"])

\* runSocket returns without a socket.
declined(w) == IF w.moved THEN top(w) ELSE polls(w)

TicketAnswer ==
  /\ worker.pc = "ticket"
  /\ \/ current /\ goes([worker EXCEPT !.pc = "socket"])
     \/ current /\ goes([worker EXCEPT !.pc = "rejected"])
     \/ goes(declined(worker))

\* The session is over: rejected, after a welcome, or without one.
outcomes(w) == CASE w.moved -> {top(w)}
             [] OTHER -> {[w EXCEPT !.pc = "rejected"], retryAfter(w), polls(w)}

SocketCloses == worker.pc = "socket" /\ worker.closing /\ \E w \in outcomes(worker) : goes(w)

SocketDrops == worker.pc = "socket" /\ ~worker.closing /\ \E w \in outcomes(worker) : goes(w)

\* pollOnce handled a command, or not, or threw.
PollAnswer ==
  /\ worker.pc = "poll"
  /\ goes(top(worker)) \/ goes(retryAfter(worker))

\* setRelayState("rejected") is awaited outside the try: it may end the loop.
ReportRejected ==
  /\ worker.pc = "rejected"
  /\ \/ goes(retryAfter(worker))
     \/ Mishap /\ worker' = ends(worker) /\ UNCHANGED storage

RetryTimer == worker.pc = "sleep" /\ goes(top(worker))

Loop ==
  \/ Read \/ Decide \/ Connect \/ TicketAnswer \/ SocketCloses
  \/ PollAnswer \/ ReportRejected \/ RetryTimer

-----------------------------------------------------------------------------
(* What wakes it *)

\* chrome.storage.onChanged: a pause or resume first, then a change of token or sites.
OnChanged ==
  /\ worker.pc # "dead" /\ changes # <<>>
  /\ LET e == Head(changes)
         w == IF e.enabled = "same" THEN worker
              ELSE changed([worker EXCEPT !.accepting = e.enabled = "on"])
     IN  worker' = settle(IF e.other THEN changed(w) ELSE w)
  /\ changes' = Tail(changes)
  /\ UNCHANGED <<enabled, token, mishaps>>

\* Slip: the alarm wakes a waiting loop and starts none.
Slip_Watchdog_wakesOnly ==
  /\ worker.pc # "dead"
  /\ goes(IF worker.pc = "sleep" THEN top(worker) ELSE worker)

Watchdog == worker.pc # "dead" /\ goes(settle(kick(worker)))

\* The browser stops the worker; events under way may go with it.
Kill ==
  /\ worker.pc # "dead" /\ Mishap
  /\ worker' = Dead
  /\ changes' \in {changes, <<>>}
  /\ UNCHANGED <<enabled, token>>

\* An event or the alarm starts it.
Boot == worker.pc = "dead" /\ goes(start(worker))

LoopStep == Loop \/ SocketDrops \/ OnChanged \/ Watchdog \/ Kill \/ Boot
=============================================================================
