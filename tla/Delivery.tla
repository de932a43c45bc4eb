------------------------------- MODULE Delivery -------------------------------
(***************************************************************************)
(* How a command travels from the relay's queue to one start in the        *)
(* browser: the socket session and the HTTP poll, the acknowledgement, the *)
(* work chain of the extension's service worker (src/extension/            *)
(* background.js: schedule, takeAndRun, runSocket, pollOnce, applyEnabled, *)
(* the storage listener) and the relay's side of it (src/relay/worker.js:  *)
(* push, hello, ack, poll).                                                *)
(*                                                                         *)
(* Commands are numbered in the order they are enqueued and the number is  *)
(* also the seq.  A command is stale once it is older than the extension   *)
(* will run; the relay may then drop it from its queue.  One extension is  *)
(* paired with one device at a time; pairing again gives a new device, and *)
(* the click then revokes the old one on the relay, with all its commands. *)
(* Pairing has the clicks in full; here none overlaps another.             *)
(* Every await of the worker is the border between two actions.            *)
(***************************************************************************)
EXTENDS Naturals, Sequences, FiniteSets, SequencesExt

CONSTANTS
  Device,        \* device tokens, in the order pairings hand them out
  None,
  MaxCmd,        \* bound on the commands enqueued
  MaxControl,    \* bound on pauses, resumes, policy changes, pairings and revocations by an operator
  MaxKills,      \* bound on the times the service worker dies
  MaxDrops,      \* bound on connections that break
  StorageFails   \* TRUE: chrome.storage may reject a read or a write

ASSUME DeliveryAssumption ==
  /\ None \notin Device
  /\ {MaxCmd, MaxControl, MaxKills, MaxDrops} \subseteq Nat
  /\ StorageFails \in BOOLEAN

Cmd == 1 .. MaxCmd

VARIABLES
  \* the relay
  queue,      \* Device -> commands not acknowledged and not expired
  issuedTo,   \* the device of each command enqueued so far, in order
  stale,      \* commands too old to run
  revoked,    \* devices removed from the relay
  server,     \* the relay's end of the socket
  \* the wires
  down,       \* messages to the extension on the current socket, in order
  acks,       \* acknowledgements under way to the relay
  \* chrome.storage
  enabled, token, cursor,
  changes,    \* onChanged events still to come: what each says has changed
  leaving,    \* the Unregister click is between its two storage calls
  \* the service worker's memory
  epoch,      \* controlEpoch
  accepting,  \* acceptingCommands
  link,       \* the loop's socket session or poll
  jobs,       \* the work chain: commands scheduled and not yet begun
  cur         \* the takeAndRun in progress

\* What has happened, and the bounds already used.
VARIABLES
  delivered,  \* commands received since the worker last heard of a change
  taken,      \* commands whose own number was saved as the cursor
  starts,     \* how often the browser action of each command was begun
  answered,   \* commands a result was sent for
  killed,     \* commands whose takeAndRun died with the worker
  passedOver, \* commands it gave up although the worker had heard of no change
  paired,     \* tokens the extension ever stored
  used        \* control changes, kills and drops so far

relay == <<queue, issuedTo, stale, revoked>>
storage == <<enabled, token, cursor, changes, leaving>>
worker == <<epoch, accepting, link, jobs, cur>>
history == <<delivered, taken, starts, answered, killed, passedOver, paired, used>>
vars == <<relay, server, down, acks, storage, worker, history>>

Welcome == 0     \* on the socket, beside command numbers

NoServer == [token |-> None, st |-> "closed"]
NoLink == [phase |-> "none", token |-> None, after |-> 0, epoch |-> 0, cmd |-> 0]
NoJob == [pc |-> "idle", id |-> 0, epoch |-> 0, origin |-> None, token |-> None, on |-> FALSE, cursor |-> 0]

Issued == 1 .. Len(issuedTo)
current(e) == accepting /\ e = epoch
pendingChange(what) == \E i \in DOMAIN changes : what \in changes[i]

TypeOK ==
  /\ queue \in [Device -> SUBSET Cmd]
  /\ issuedTo \in Seq(Device) /\ Len(issuedTo) <= MaxCmd
  /\ stale \subseteq Cmd /\ revoked \subseteq Device
  /\ server \in [token : Device \cup {None}, st : {"closed", "new", "hello", "ready"}]
  /\ down \in Seq(Cmd \cup {Welcome})
  /\ acks \subseteq [token : Device, seq : 0 .. MaxCmd]
  /\ enabled \in BOOLEAN /\ token \in Device \cup {None}
  /\ cursor \in [Device -> 0 .. MaxCmd]
  /\ changes \in Seq(SUBSET {"pause", "resume", "settings"}) /\ leaving \in BOOLEAN
  /\ epoch \in Nat /\ accepting \in BOOLEAN
  /\ link \in [phase : {"none", "ticket", "open", "live", "poll", "reply", "handling"},
               token : Device \cup {None}, after : 0 .. MaxCmd, epoch : Nat, cmd : 0 .. MaxCmd]
  /\ jobs \in Seq([id : Cmd, epoch : Nat, origin : Device])
  /\ cur \in [pc : {"idle", "reading", "read", "saving", "saved", "running"}, id : 0 .. MaxCmd, epoch : Nat,
              origin : Device \cup {None}, token : Device \cup {None}, on : BOOLEAN, cursor : 0 .. MaxCmd]
  /\ delivered \subseteq Cmd /\ taken \subseteq Cmd /\ starts \in [Cmd -> Nat]
  /\ {answered, killed, passedOver} \subseteq SUBSET Cmd /\ paired \subseteq Device
  /\ used \in [control : 0 .. MaxControl, kills : 0 .. MaxKills, drops : 0 .. MaxDrops]

Init ==
  /\ queue = [d \in Device |-> {}] /\ issuedTo = <<>> /\ stale = {} /\ revoked = {}
  /\ server = NoServer /\ down = <<>> /\ acks = {}
  /\ enabled = TRUE /\ token \in Device /\ cursor = [d \in Device |-> 0] /\ changes = <<>>
  /\ leaving = FALSE
  /\ epoch = 0 /\ accepting = TRUE
  /\ link = NoLink /\ jobs = <<>> /\ cur = NoJob
  /\ delivered = {} /\ taken = {} /\ starts = [c \in Cmd |-> 0] /\ answered = {} /\ killed = {} /\ passedOver = {} /\ paired = {token}
  /\ used = [control |-> 0, kills |-> 0, drops |-> 0]

-----------------------------------------------------------------------------
(* The relay *)

\* The members of S, smallest first.
inOrder(S) == [i \in 1 .. Cardinality(S) |-> CHOOSE c \in S : Cardinality({x \in S : x <= c}) = i]

\* ack() drops everything up to seq.
unacked(q, d, seq) == [q EXCEPT ![d] = {c \in @ : c > seq}]

\* enqueue: the command is durable before it is pushed, and is pushed to a
\* socket that said hello.
Enqueue(d) ==
  LET id == Len(issuedTo) + 1
  IN  /\ id <= MaxCmd /\ d \notin revoked
      /\ issuedTo' = Append(issuedTo, d)
      /\ queue' = [queue EXCEPT ![d] = @ \cup {id}]
      /\ down' = IF server.token = d /\ server.st \in {"hello", "ready"} THEN Append(down, id) ELSE down
      /\ UNCHANGED <<stale, revoked, server, acks, storage, worker, history>>

Age(id) ==
  /\ id \in Issued \ stale
  /\ stale' = stale \cup {id}
  /\ UNCHANGED <<queue, issuedTo, revoked, server, down, acks, storage, worker, history>>

\* QUEUE_KEEP_MS is longer than the age the extension accepts.
Expire(d) ==
  /\ queue[d] \cap stale # {}
  /\ \E c \in queue[d] \cap stale : queue' = [queue EXCEPT ![d] = @ \ {c}]
  /\ UNCHANGED <<issuedTo, stale, revoked, server, down, acks, storage, worker, history>>

ReceiveAck(a) ==
  /\ queue' = unacked(queue, a.token, a.seq)
  /\ acks' = acks \ {a}
  /\ UNCHANGED <<issuedTo, stale, revoked, server, down, storage, worker, history>>

\* hello: marked on the socket before the acknowledgement enters the chain ...
ServeHello ==
  /\ server.st = "new" /\ link.phase = "open"
  /\ server' = [server EXCEPT !.st = "hello"]
  /\ queue' = unacked(queue, server.token, link.after)
  /\ UNCHANGED <<issuedTo, stale, revoked, down, acks, storage, worker, history>>

\* removeDevice, asked for by the click that replaced the device or gave it up,
\* or by an operator at any time.  The click's call may fail: then it never
\* comes.  What was sent before the socket closed still arrives.
Revoke(d) ==
  /\ d \in paired \ revoked
  /\ revoked' = revoked \cup {d}
  /\ queue' = [queue EXCEPT ![d] = {}]
  /\ server' = IF server.token = d THEN NoServer ELSE server
  /\ IF d = token THEN used.control < MaxControl /\ used' = [used EXCEPT !.control = @ + 1] ELSE UNCHANGED used
  /\ UNCHANGED <<issuedTo, stale, down, acks, storage, worker,
                 delivered, taken, starts, answered, killed, passedOver, paired>>

\* Slip: what is pending is pushed newest first.
Slip_ServeWelcome_reversed ==
  /\ server.st = "hello"
  /\ server' = [server EXCEPT !.st = "ready"]
  /\ down' = down \o <<Welcome>> \o Reverse(inOrder(queue[server.token]))
  /\ UNCHANGED <<relay, acks, storage, worker, history>>

\* Slip: only new commands are pushed after a welcome.
Slip_ServeWelcome_noPending ==
  /\ server.st = "hello"
  /\ server' = [server EXCEPT !.st = "ready"]
  /\ down' = Append(down, Welcome)
  /\ UNCHANGED <<relay, acks, storage, worker, history>>

\* ... and the welcome and what is pending follow it.
ServeWelcome ==
  /\ server.st = "hello"
  /\ server' = [server EXCEPT !.st = "ready"]
  /\ down' = down \o <<Welcome>> \o inOrder(queue[server.token])
  /\ UNCHANGED <<relay, acks, storage, worker, history>>

\* /poll in cursor mode: acknowledge, then answer with the first pending command.
ServePoll ==
  /\ link.phase = "poll"
  /\ queue' = unacked(queue, link.token, link.after)
  /\ link' = [link EXCEPT !.phase = "reply",
                          !.cmd = IF queue'[link.token] = {} THEN 0 ELSE inOrder(queue'[link.token])[1]]
  /\ UNCHANGED <<issuedTo, stale, revoked, server, down, acks, storage, epoch, accepting, jobs, cur, history>>

-----------------------------------------------------------------------------
(* The extension's connection *)

disconnected == link' = NoLink /\ server' = NoServer /\ down' = <<>>

\* loop(): state is read, then a socket ticket is asked for.  What the loop
\* read decides acceptingCommands.
Connect ==
  /\ link.phase = "none"
  /\ accepting' = (enabled /\ token # None)
  /\ link' = IF accepting' THEN [NoLink EXCEPT !.phase = "ticket", !.token = token,
                                               !.after = cursor[token], !.epoch = epoch]
             ELSE NoLink
  /\ UNCHANGED <<relay, server, down, acks, storage, epoch, jobs, cur, history>>

\* The ticket arrives, or its refusal: no socket is opened for a session that is
\* no longer current (deliveryCurrent) or for a device the relay does not know.
OpenSocket ==
  /\ link.phase = "ticket"
  /\ IF current(link.epoch) /\ enabled /\ token = link.token /\ token \notin revoked
     THEN /\ link' = [link EXCEPT !.phase = "open"]
          /\ server' = [token |-> link.token, st |-> "new"]
          /\ down' = <<>>
     ELSE disconnected
  /\ UNCHANGED <<relay, acks, storage, epoch, accepting, jobs, cur, history>>

\* No ticket or no welcome: this round polls instead, with a state read anew.
StartPoll ==
  /\ link.phase = "ticket"
  /\ IF link.epoch = epoch /\ enabled /\ token # None
     THEN link' = [NoLink EXCEPT !.phase = "poll", !.token = token, !.after = cursor[token], !.epoch = epoch]
     ELSE link' = NoLink
  /\ UNCHANGED <<relay, server, down, acks, storage, epoch, accepting, jobs, cur, history>>

\* schedule
receive(id) ==
  /\ jobs' = Append(jobs, [id |-> id, epoch |-> link.epoch, origin |-> link.token])
  /\ delivered' = delivered \cup {id}

\* A message on the socket counts only in the epoch of its session, and a
\* command only after the welcome.
Hear ==
  /\ link.phase \in {"open", "live"} /\ down # <<>>
  /\ down' = Tail(down)
  /\ LET m == Head(down)
     IN  IF ~current(link.epoch) THEN UNCHANGED <<link, jobs, delivered>>
         ELSE IF m = Welcome THEN link' = [link EXCEPT !.phase = "live"] /\ UNCHANGED <<jobs, delivered>>
         ELSE IF link.phase = "live" THEN receive(m) /\ UNCHANGED link
         ELSE UNCHANGED <<link, jobs, delivered>>
  /\ UNCHANGED <<relay, server, acks, storage, epoch, accepting, cur,
                 taken, starts, answered, killed, passedOver, paired, used>>

\* The relay closed the socket, after what it had sent.
HearClose ==
  /\ link.phase \in {"open", "live"} /\ server.st = "closed" /\ down = <<>>
  /\ disconnected
  /\ UNCHANGED <<relay, acks, storage, epoch, accepting, jobs, cur, history>>

\* The poll's answer is scheduled only for the state it was asked for; the
\* settings may have changed even when their event has not come yet.
PollAnswer ==
  /\ link.phase = "reply"
  /\ \E same \in {TRUE, ~pendingChange("settings")} :
     IF link.cmd # 0 /\ current(link.epoch) /\ enabled /\ token = link.token /\ same
     THEN receive(link.cmd) /\ link' = [link EXCEPT !.phase = "handling"]
     ELSE UNCHANGED <<jobs, delivered>> /\ link' = NoLink
  /\ UNCHANGED <<relay, server, down, acks, storage, epoch, accepting, cur,
                 taken, starts, answered, killed, passedOver, paired, used>>

\* pollOnce waits for the command it scheduled.
PollHandled ==
  /\ link.phase = "handling"
  /\ jobs = <<>> /\ cur = NoJob
  /\ link' = NoLink
  /\ UNCHANGED <<relay, server, down, acks, storage, epoch, accepting, jobs, cur, history>>

\* The socket closes or the poll fails, with whatever was on its way.
Disconnect ==
  /\ link.phase \in {"open", "live", "poll", "reply"}
  /\ used.drops < MaxDrops
  /\ used' = [used EXCEPT !.drops = @ + 1]
  /\ disconnected
  /\ acks' \in SUBSET acks
  /\ UNCHANGED <<relay, storage, epoch, accepting, jobs, cur,
                 delivered, taken, starts, answered, killed, passedOver, paired>>

-----------------------------------------------------------------------------
(* takeAndRun *)

onlyCur == UNCHANGED <<relay, server, down, storage, epoch, accepting, link>>

Begin ==
  /\ cur = NoJob /\ jobs # <<>>
  /\ jobs' = Tail(jobs)
  /\ cur' = LET j == Head(jobs)
            IN  IF current(j.epoch)
                THEN [NoJob EXCEPT !.pc = "reading", !.id = j.id, !.epoch = j.epoch, !.origin = j.origin]
                ELSE NoJob
  /\ passedOver' = IF Head(jobs).epoch = epoch /\ ~accepting THEN passedOver \cup {Head(jobs).id} ELSE passedOver
  /\ onlyCur /\ UNCHANGED <<acks, delivered, taken, starts, answered, killed, paired, used>>

ReadState ==
  /\ cur.pc = "reading"
  /\ cur' = [cur EXCEPT !.pc = "read", !.token = token, !.on = enabled,
                        !.cursor = IF token = None THEN 0 ELSE cursor[token]]
  /\ onlyCur /\ UNCHANGED <<jobs, acks, history>>

\* Slip: the cursor is not compared.
Slip_mayTake_noCursor(c) == c.on /\ c.token = c.origin /\ current(c.epoch)

mayTake(c) ==
  /\ c.on /\ c.token = c.origin
  /\ current(c.epoch)
  /\ c.id > c.cursor

Decide ==
  /\ cur.pc = "read"
  /\ cur' = IF mayTake(cur) THEN [cur EXCEPT !.pc = "saving"] ELSE NoJob
  /\ passedOver' = IF cur.epoch = epoch /\ ~(accepting /\ cur.on /\ cur.token = cur.origin)
                   THEN passedOver \cup {cur.id} ELSE passedOver
  /\ onlyCur /\ UNCHANGED <<jobs, acks, delivered, taken, starts, answered, killed, paired, used>>

\* From here on the command is not delivered again.
SaveCursor ==
  /\ cur.pc = "saving"
  /\ cursor' = [cursor EXCEPT ![cur.token] = cur.id]
  /\ cur' = [cur EXCEPT !.pc = "saved"]
  /\ taken' = taken \cup {cur.id}
  /\ UNCHANGED <<relay, server, down, acks, enabled, token, changes, leaving, epoch, accepting, link, jobs,
                 delivered, starts, answered, killed, passedOver, paired, used>>

\* A rejected read or write ends this command; the chain goes on.
StorageError ==
  /\ StorageFails
  /\ cur.pc \in {"reading", "saving"}
  /\ cur' = NoJob
  /\ passedOver' = passedOver \cup {cur.id}
  /\ onlyCur /\ UNCHANGED <<jobs, acks, delivered, taken, starts, answered, killed, paired, used>>

\* The socket the command came by must still be open (or, after a poll, any
\* socket): here any live socket of that device may carry it, or none does.
sendAck ==
  \/ UNCHANGED acks
  \/ /\ link.phase = "live" /\ link.token = cur.token
     /\ acks' = acks \cup {[token |-> cur.token, seq |-> cur.id]}

\* Slip: a command that may no longer run is dropped without a result.
Slip_StartOrAnswer_silent ==
  /\ cur.pc = "saved"
  /\ sendAck
  /\ IF current(cur.epoch) /\ cur.id \notin stale
     THEN /\ starts' = [starts EXCEPT ![cur.id] = @ + 1]
          /\ cur' = [cur EXCEPT !.pc = "running"]
     ELSE cur' = NoJob /\ UNCHANGED starts
  /\ onlyCur /\ UNCHANGED <<jobs, delivered, taken, answered, killed, passedOver, paired, used>>

\* Acknowledge if a socket can carry it, then run, refuse
\* as expired, or answer as cancelled when control changed during the save.
StartOrAnswer ==
  /\ cur.pc = "saved"
  /\ sendAck
  /\ IF current(cur.epoch) /\ cur.id \notin stale
     THEN /\ starts' = [starts EXCEPT ![cur.id] = @ + 1]
          /\ cur' = [cur EXCEPT !.pc = "running"]
          /\ UNCHANGED answered
     ELSE /\ answered' = answered \cup {cur.id}
          /\ cur' = NoJob
          /\ UNCHANGED starts
  /\ onlyCur /\ UNCHANGED <<jobs, delivered, taken, killed, passedOver, paired, used>>

\* Success, failure, timeout or cancellation: a result is sent.
Answer ==
  /\ cur.pc = "running"
  /\ answered' = answered \cup {cur.id}
  /\ cur' = NoJob
  /\ onlyCur /\ UNCHANGED <<jobs, acks, delivered, taken, starts, killed, passedOver, paired, used>>

-----------------------------------------------------------------------------
(* Control *)

\* The panel's toggle, the options page and a new pairing write storage; one
\* call is one event, and the worker learns of it later.
changeStorage(event) ==
  /\ changes' = IF event = {} THEN changes ELSE Append(changes, event)
  /\ UNCHANGED <<relay, server, down, acks, cursor, worker, delivered, taken, starts, answered, killed, passedOver>>

countControl == used.control < MaxControl /\ used' = [used EXCEPT !.control = @ + 1]

Toggle ==
  /\ countControl
  /\ enabled' = ~enabled
  /\ changeStorage({IF enabled THEN "pause" ELSE "resume"})
  /\ UNCHANGED <<token, leaving, paired>>

ChangePolicy ==
  /\ countControl
  /\ changeStorage({"settings"})
  /\ UNCHANGED <<enabled, token, leaving, paired>>

\* Register: the new token, its cursor 0 and enabled are set by one call.  No
\* token is handed out twice, so the cursor of a new one was never moved.
Register(d) ==
  /\ countControl
  /\ ~leaving /\ d \notin paired
  /\ token' = d /\ enabled' = TRUE
  /\ paired' = paired \cup {d}
  /\ changeStorage(IF enabled THEN {"settings"} ELSE {"resume", "settings"})
  /\ UNCHANGED leaving

\* Unregister: first the extension is disabled, ...
Unregister ==
  /\ countControl
  /\ ~leaving /\ token # None
  /\ leaving' = TRUE /\ enabled' = FALSE
  /\ changeStorage(IF enabled THEN {"pause"} ELSE {})
  /\ UNCHANGED <<token, paired>>

\* ... then the token is removed, unless the page is gone or the call rejected.
RemoveToken ==
  /\ leaving /\ leaving' = FALSE
  /\ \/ token' = None /\ changeStorage({"settings"})
     \/ UNCHANGED token /\ changeStorage({})
  /\ UNCHANGED <<enabled, paired, used>>

\* Slip: new settings do not move the epoch.
Slip_OnChanged_settings ==
  /\ changes # <<>>
  /\ changes' = Tail(changes)
  /\ epoch' = IF Head(changes) = {"settings"} THEN epoch ELSE epoch + 1
  /\ accepting' = IF "pause" \in Head(changes) THEN FALSE ELSE "resume" \in Head(changes) \/ accepting
  /\ delivered' = {}
  /\ IF link.phase \in {"open", "live"} THEN disconnected ELSE UNCHANGED <<link, server, down>>
  /\ UNCHANGED <<relay, acks, enabled, token, cursor, leaving, jobs, cur,
                 taken, starts, answered, killed, passedOver, paired, used>>

\* chrome.storage.onChanged: the epoch moves and the socket closes.
OnChanged ==
  /\ changes # <<>>
  /\ changes' = Tail(changes)
  /\ epoch' = epoch + 1
  /\ accepting' = IF "pause" \in Head(changes) THEN FALSE ELSE "resume" \in Head(changes) \/ accepting
  /\ delivered' = {}
  /\ IF link.phase \in {"open", "live"} THEN disconnected ELSE UNCHANGED <<link, server, down>>
  /\ UNCHANGED <<relay, acks, enabled, token, cursor, leaving, jobs, cur,
                 taken, starts, answered, killed, passedOver, paired, used>>

\* The browser ends the service worker; memory is gone, events may be too.
Kill ==
  /\ used.kills < MaxKills
  /\ used' = [used EXCEPT !.kills = @ + 1]
  /\ killed' = IF cur.pc \in {"saved", "running"} THEN killed \cup {cur.id} ELSE killed
  /\ epoch' = 0 /\ accepting' = TRUE /\ delivered' = {}
  /\ jobs' = <<>> /\ cur' = NoJob
  /\ disconnected
  /\ changes' \in {changes, <<>>}
  /\ UNCHANGED <<relay, acks, enabled, token, cursor, leaving, taken, starts, answered, passedOver, paired>>

RelayStep ==
  \/ \E d \in Device : Enqueue(d) \/ Expire(d) \/ Revoke(d)
  \/ \E id \in Cmd : Age(id)
  \/ \E a \in acks : ReceiveAck(a)
  \/ ServeHello \/ ServeWelcome \/ ServePoll

ConnectionStep ==
  Connect \/ OpenSocket \/ StartPoll \/ Hear \/ HearClose \/ PollAnswer \/ PollHandled \/ Disconnect

TakeStep == Begin \/ ReadState \/ Decide \/ SaveCursor \/ StorageError \/ StartOrAnswer \/ Answer

ControlStep ==
  \/ Toggle \/ ChangePolicy \/ (\E d \in Device : Register(d)) \/ Unregister \/ RemoveToken
  \/ OnChanged \/ Kill

Next == RelayStep \/ ConnectionStep \/ TakeStep \/ ControlStep

Spec == Init /\ [][Next]_vars
-----------------------------------------------------------------------------
(* Properties *)

\* The browser action of a command begins at most once, and never after the one
\* of a later command of its device, over reconnects, re-sends on both
\* transports, worker deaths and control changes (worker.js:30-33,
\* background.js:1838-1841, :1852-1870).
StartsOnceInOrder ==
  [][\A id \in Issued : starts'[id] > starts[id] =>
       \A j \in Issued : j >= id /\ issuedTo[j] = issuedTo[id] => starts[j] = 0]_vars

\* "A command that had not been taken stays on the relay" (README.md:108-109)
\* while it may still run and its device is not revoked: no lost, late or
\* repeated acknowledgement, and no cursor of another command, removes it.
UntakenStaysQueued ==
  \A id \in Issued :
    id \notin taken /\ id \notin stale /\ issuedTo[id] \notin revoked => id \in queue[issuedTo[id]]

\* Whatever changes in between, a command of a device that is not revoked can be
\* lost without being taken only if it was passed over: by a rejected storage
\* call, or by a state that was paused or paired anew before the worker heard of
\* it.  Every other drop of a delivery (a new epoch, a closed socket) leaves it
\* to the next one (background.js:1856-1867, worker.js:557-565).
OnlyPassedOverIsLost ==
  \A id \in Issued :
    id \notin taken \cup stale \cup passedOver /\ issuedTo[id] \notin revoked => id \in queue[issuedTo[id]]

\* Once the cursor is saved a command is not delivered again, so every path
\* ends in a result, cancellation and expiry included (background.js:1852-1854),
\* unless the worker dies with it.
TakenIsAnswered ==
  \A id \in taken : id \in answered \cup killed \/ (cur.pc \in {"saved", "running"} /\ cur.id = id)

\* Once the worker has heard of a pause, a resume, a new policy or another
\* pairing, nothing that was delivered before it starts: a command starts only
\* if it was received since, by an extension that is enabled and paired as it
\* was then, as far as the worker could know (background.js:115-117, :1861,
\* :1868, :2176-2187).
QuietAfterControl ==
  [][\A id \in Issued : starts'[id] > starts[id] =>
       /\ id \in delivered
       /\ enabled \/ pendingChange("pause")
       /\ token = issuedTo[id] \/ pendingChange("settings")]_vars

\* The loop goes on, timers fire, the relay answers and storage events arrive.
FairSpec ==
  /\ Spec
  /\ WF_vars(ServeHello) /\ WF_vars(ServeWelcome) /\ WF_vars(ServePoll)
  /\ WF_vars(Connect) /\ WF_vars(OpenSocket \/ StartPoll) /\ WF_vars(Hear) /\ WF_vars(HearClose)
  /\ WF_vars(PollAnswer) /\ WF_vars(PollHandled)
  /\ WF_vars(Begin) /\ WF_vars(ReadState) /\ WF_vars(Decide) /\ WF_vars(SaveCursor)
  /\ WF_vars(StartOrAnswer) /\ WF_vars(Answer) /\ WF_vars(OnChanged)

\* A command for the paired, enabled extension is answered unless it grows old,
\* the worker dies with it or its device is revoked.
QueuedIsAnswered ==
  \A id \in Cmd, d \in Device :
    <>[](enabled /\ token = d) =>
      ((id \in queue[d]) ~> (id \in answered \cup killed \cup stale \/ d \in revoked))
=============================================================================
