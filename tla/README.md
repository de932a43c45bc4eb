# Juno Bridge in TLA+

Juno Bridge lets a command-line driver run actions in a user's browser: the
driver posts a command to a relay (a Cloudflare Durable Object), a browser
extension receives it, runs it, and posts the result back to the relay, where
the driver reads it. This directory holds TLA+ models of that code, the TLC
runs that check them, and TLAPS proofs about them. Every definition is
translated from the source; `PROJECT.json` maps each to its lines.

## 1. The system

| part | source | state it keeps | operations | what is hard |
|---|---|---|---|---|
| Relay hub | `relay/worker.js`, class `BridgeHub` | registered devices, pairing codes, socket tickets, a queue per device, ownership of commands, request table (`idem`), receipts (`results`), result bodies (`payloads`), each in storage and in memory | `enqueue`, `ack`, `legacyPoll`, `acceptResult`, `resultResponse`, `removeDevice`, register, pair, tickets, `purgeExpired`, `alarm`, `load` | a chain of mutations that await storage; crash between storage and memory; caps; retries; expiry while a result is streamed |
| Relay readers | `worker.js` `wait`, `waitForResult`, `waitForIdem` | waiters per command and per request | long poll, wake | wake-ups lost between test and registration; the cap on waiters |
| Relay sockets | `worker.js` `/ws`, `webSocketMessage`, `push` | hibernating sockets with an attachment | ticket, hello, welcome, push, ack, result | a socket replaced while its messages are handled; hello timeout |
| Relay admission | `worker.js` `fetch`, `handle` | reader and commit slots | take, give back | a slot lost or given back twice |
| Relay front door, migration | `worker.js` default export, `importFromKv` | none | authentication, routing; copy of old rows | a copy cut short |
| Extension delivery | `extension/background.js` `runSocket`, `pollOnce`, `schedule`, `takeAndRun` | work chain, socket, cursor in `chrome.storage` | receive, take, save cursor, acknowledge, run | re-delivery on two transports; the worker dies; storage rejects |
| Extension control | `background.js` `applyEnabled`, `onChanged`, `assertActive` | `controlEpoch`, `acceptingCommands` | pause, resume, new policy, new pairing | the event comes after the change; awaits in between |
| Extension loop | `background.js` `loop`, `kick`, watchdog | `running`, `restartRequested`, `wakeRetry` | connect, poll, sleep, restart | a lost wake-up; a loop that dies |
| Extension result delivery | `background.js` `sendResult`, `postResult` | pending acknowledgements | send, fall back, retry | acknowledgement against timer, close and retry |
| Extension commands | `background.js` `runCommand`, `withDebugger`, `cdp` | debugger sessions, the dispatched flag | run, time out, attach, detach | a late call after the timeout |
| Snapshots and workflows | `background.js` `rememberSnapshot`, `bindSnapshot`, `runStep`, `cmdWorkflow` | snapshot bindings, step reports | capture, bind, run steps | stale bindings; what may have happened when a step is cut off |
| Options and panel | `extension/options.js`, `panel.js`, `allowlist.js` | token, allowlist, pairing intent in storage | register, unregister, save, toggle | overlapping pairings; a device nobody holds the token of |
| Driver | `driver/jb.py` | none | send, wait, repeat with one request id | a wait that ends before the answer |
| Operator daemon | `driver/juno_operator.py` | queue of requests, gate, socket, cached negotiation | start, accept, work, stop | stop while requests are queued, read and served |
| Jev client | `driver/jev.py`, `jev_config.py` | provider session, settings | admit, call, interpret | a deadline that closes a shared connection |

How they interact: the driver calls the relay over HTTP, sometimes through the
operator daemon. The relay pushes commands over the extension's socket or
answers its polls; the extension acknowledges with its cursor and posts
results. The options page and the panel talk to the extension's service worker
only through `chrome.storage` and its change events. Within the relay
everything that changes rows goes through one chain (`mutate`); within the
extension everything that runs a command goes through another (`schedule`).

What makes each part correct, in short: the relay never loses a result it
acknowledged, gives a command to one device and takes its answer from that
device, keeps nothing of a revoked device, and can be loaded again after a crash; the
extension starts a command at most once and in order, never after a pause or a
new pairing it knows of, and answers what it took. The hazards that threaten
these, with their lines, are in `PROJECT.json`.

## 2. Modules

| module | models | uses |
|---|---|---|
| `RelayStore` | the rows of the hub and what each operation makes of them: pure operators on one record `s` | community modules only |
| `RelayHub` | the chain of mutations over storage and memory, readers and streams, the alarm, the clock, crash and load | `RelayStore` |
| `ResultLedger` | abstract: a ledger of answers, each written once, read once, and at some time forgotten | none |
| `RelayHubLedger` | what the relay's rows say to that ledger (`INSTANCE ... WITH`) | `RelayHub`, `ResultLedger` |
| `RelayLive` | the volatile half of the relay: long polls and their wake-ups, sockets from handshake to close | standard modules only |
| `Delivery` | socket session, poll, acknowledgement, the extension's work chain and control epoch, and the relay's end of them | community modules only |
| `CommandCourse` | abstract: commands are taken one at a time in their device's order, begin at most once, end once | standard modules only |
| `DeliveryCourse` | how far each command of Delivery is in that course (`INSTANCE`) | `Delivery`, `CommandCourse` |
| `Command` | one command after another in a tab: timeout, the handler that outlives it, debugger sessions, browser input, the report | standard modules only |
| `ResultDelivery` | how a result reaches the relay: socket, acknowledgement, HTTP retries and their deadlines, against upload slots and the commit slot | standard modules only |
| `ExtStorage` | what pages and worker share: the settings in `chrome.storage` and the change events under way | standard modules only |
| `Pairing` | Register and Unregister from several tabs, the panel's toggle, the relay's table of devices | `ExtStorage` |
| `ExtLoop` | the worker's main loop and what wakes, ends and restarts it | `ExtStorage` |
| `ExtControl` | the pages and the loop together | `Pairing`, `ExtLoop` |
| `RelayStoreProofs` | one lemma per operation: what it does to each table | `RelayStore` |
| `RelayHubProofs` | types, the inductive invariant and the safety properties, and durability when the clock is not set back | `RelayHub`, `RelayStoreProofs` |
| `RelayHubRefinement` | the relay implements the ledger | `RelayHubLedger`, `RelayHubProofs` |
| `RelayLiveProofs` | the inductive invariant of the volatile half | `RelayLive` |
| `DeliveryProofs` | what is owed is never overtaken; starts, answers and control changes; the refinement of the course | `DeliveryCourse` |
| `CommandProofs` | who has the tab and the debugger, and what a report covers | `Command` |
| `ResultDeliveryProofs` | whose every result is, what its receipt says of the relay, and that a busy relay is waited out | `ResultDelivery` |
| `ExtControlProofs` | the inductive invariants of the pages and of the loop | `ExtControl` |
| `MCRelayHub`, `MCRelayLive`, `MCDelivery`, `MCCommand`, `MCResultDelivery`, `MCExtControl` | values and symmetry for TLC | |

The whole path of a command is cut where one part hands it to the next:
`RelayHub` and `RelayLive` make it durable and push it, `Delivery` takes it and
starts it once, `Command` runs it, `ResultDelivery` brings the answer back,
and `RelayHub` keeps it until it is read. `ExtControl` is what may change at
any time beside that path.

**RelayStore.** A `Map` of the source is a function whose domain is the set of
keys; `own`, `idem`, `res`, `payload` carry the fields of the source that
decide something (`expires`, `done`, `consumed`, `resultId`, the device).
`Can...` operators are the early returns, the others the rows afterwards.
Result bodies are atoms with a size in bytes; the bytes of a table are a set of
places, one for each byte of each body, so that the running total of the source
is a cardinality. The byte limits on queues and on
the request table are folded into their count limits, which refuse in the same
line; the byte budget of results is modelled, as it changes what is stored.

**RelayHub.** `mem` is what the object's Maps hold and `disk` its storage.
`stage` is where the mutation at the head of the chain is: "idle", "purged"
(`purgeExpired` is over, the operation has not committed) and "written"
(the transaction is durable, memory has not changed: `await this.commit`
against the lines after it). An operation is refused, or its transaction
fails, by `Finish`. Operations that do not purge start from "idle". Time,
readers and stream ends run in between, and a crash may come anywhere. What
follows it is a load. `Restart` is one that completes. `LoadCut` is one that
does not: `load()` deletes the rows of each table by storage calls of their own,
table after table (`LoadOrder`), and the object may crash again, a call fail or
a row be refused between any two of them. Earlier tables are then done, the one in hand is
done in part (`PartLeft`; pairing codes are one write), later ones are as they were,
and the object is "down" until a load completes. Storage, with what a cut load
left in it, is what the next load finds. `cutAt` is history: the latest clock reading at which such a
load deleted payloads.
`purgeExpired` is one step: nothing but a crash can tell its own commit from
its memory changes, and a crash there leaves what a crash after it leaves.
Histories (`issued`, `accepted`, `taken`, `tokens`) exist for the properties;
the actions use `issued` and `tokens` only so that random ids, tokens and
tickets are fresh and requests name devices that once existed. An
acknowledgement always names a seq that the device was given.

**ResultLedger and RelayHubLedger.** The ledger has a line for each command:
`Offer`, `Answer`, `Read`, `Handed`, and `Forget`, which may take away but never
change or bring back. Its variables are read from the *disk* of RelayHub, so
every commit is one step of it, and the change of memory after a commit, a
crash and a complete reload of the same rows are none. A purge, a revocation, an
eviction at a cap, and a load that drops rows, complete or cut short, is a
`Forget`. While the object is down a receipt whose payload is gone is nothing to be
read (`unread`): it was over, and the load that completes takes it too.

**RelayLive.** A mutation is one step here, as the lines after its commit run
without an await; the commit and its crashes are RelayHub's. `wait()` tests and
registers in one synchronous block (`Wait`), whatever its caller found before
its awaits. `waiterCount` is the
counter of the source, changed where the source changes it, and compared with
the real number. A socket goes from "hello" over "acking" (its hello is in the
chain) to "welcomed"; `heard` are the commands it was sent.

**Delivery.** Each `await` of the worker is the border between two actions:
`Begin`, `ReadState`, `Decide`, `SaveCursor`, `StartOrAnswer`, `Answer` are
`takeAndRun`. `Connect`, `OpenSocket`, `StartPoll`, `Hear`, `PollAnswer` are
the loop's session and poll; `ServeHello`, `ServeWelcome`, `ServePoll`,
`Enqueue`, `ReceiveAck` the relay's side. The queue of the relay is a set of
numbers; commands are numbered as they are enqueued. Pause, policy and pairing
change storage first and reach the worker by `OnChanged`, later; one storage call
is one event, a set of what changed, and a worker that dies (`Kill`) may lose
events. The clicks are `Toggle`, `ChangePolicy`, `Register` (token, cursor and
`enabled` in one call) and `Unregister` (first `enabled`, then, in a second call
that may not come, `RemoveToken`; `leaving` is between the two). A click that
replaces a device or gives it up then asks the relay to revoke it, and an operator
may: `Revoke` deletes the device's queue and closes its socket, which the extension
hears after what was sent before (`HearClose`). A revocation may come at any time
after the pairing, or never, as the click's request may fail. An acknowledgement may be carried by any
live socket of the device, which allows more than the code does (it must be
the one the command came by), and may be lost with the connection or arrive
after it. `delivered` is history: the commands received since the worker last heard of
a change or was started. `passedOver` is history: the commands `takeAndRun` gave up in the
current epoch, that is without having heard of a change since they were
received, because storage rejected a call or because what it read said paused or
another pairing. What is relayed by older extensions (no cursor) or older relays (no
seq) is not in this module.

**CommandCourse and DeliveryCourse.** The abstract course of a command is
"waiting", "taken", "started" and then "answered" or "died"; it may end from
"taken", when control changed between the save of the cursor and the start. It
knows no queue, socket, poll, cursor, acknowledgement or event. `course` reads
how far a command is from what was taken, started, answered and killed, so that
the save of a cursor, the start, the result and the death of the worker are
its steps, and everything on relay and wire is a stutter.

**Command.** `turn` is the work chain in `runCommand`; `handler` has one record
for each command, since the chain stops waiting at the timeout and goes on
while the handler only notices later (`assertActive` at its next check). Chrome
is two queues: `calls` (attach and detach, taken in order) and `replies`
(answers and `onDetach` events). `undercut` is history: the commands whose
debugger was closed by another handler's detach. A call into the page is "pending" until it
lands, is cut, or is never answered. A handler is of one of three kinds: it
acts on a tab without the debugger ("tab"), on a page through it ("plain"), or
runs the steps of a workflow. What the page does, and whether a snapshot still
fits it, is a choice of outcomes.

**ExtStorage, Pairing, ExtLoop, ExtControl.** `store` is one call of
`chrome.storage`: it names its changed keys in an event that the worker hears
later. In `Pairing` a click is an operation with a place (`op[c].pc`); what a tab
does between taking and giving back the pairing lock is one step unless the
outside can see its middle (`Unregister` stores `enabled` before it removes the
token, so that is two steps with the lock held). Requests to the relay are
made without the lock. A tab stays open until its click is over, and a token is
issued once. In `ExtLoop` the epochs are only compared, so `moved` says that
they differ; `http` stands for `pollUntil`, and delays have no length.
`restart` is `restartRequested`; a wait that is woken goes on after the
handler that woke it ("woken"). What the loop carries is `Delivery`'s; saved
site settings, which the worker hears like a new token, are `ChangePolicy` there.

**ResultDelivery.** `job` is the one delivery in progress: "ack" is
`waitForResultAck`, "loop" to "sleep" are the turns of `postResult`. A
deadline of the source (`Date.now() + n`) is a countdown in `job`, and `Tick`
is possible only while no timer is due. `up`, `down`, `posts` and `answer` are
what is under way: anything in `up` and `posts` may arrive late, after the
socket closed or the request was aborted, and whatever is lost is what never
arrives. An answer to a request is heard at once or not at all
(`RequestFails`, which stands for the deadline, a network error, a status of
500 or 408 and a body that is not a receipt). The relay is cut to what
admission and `acceptResult` decide by: who is registered, which commands are
owned, whether the table is full, and the slots; other devices take and free
slots as they like (`others`), and stand for whoever holds the commit slot.
`verdict` keeps what the two transports make of a full table: 429 over HTTP,
which is retried, and a rejection on the socket, which is final.

## 3. Runs

| run | instance | question |
|---|---|---|
| `hub_results` | 1 device, 2 commands, 1 request id, 1 stream, time 0..3 | results: durable until consumed or over, kept while streamed; requests enqueue once; the rows implement `ResultLedger` |
| `hub_caps` | 1 device, 2 commands, 2 request ids, queue and request cap 1, ownership and result cap 2, bodies that fit once or never, loads cut short, a clock that may be set back | does `load` accept every row set that the caps and earlier loads let through; seq still grows |
| `hub_devices` | 2 devices, 1 command, 1 pairing code, 2 tickets, 1 stream, time 0..3, fairness | revocation at any point of another mutation; ownership of what can be delivered; one ticket per device; expired rows go without any request |
| `hub_ownership` | 1 device, 2 commands | expected violation, see section 6 |
| `relay_live` | 2 devices, 2 sockets with limit 1, 3 drivers with limit 2, 2 commands | every long poll is woken by what settles it and is counted once; a welcomed socket was sent all that is queued; a revoked device has no socket; the limit holds and never refuses a replacement |
| `delivery_faults` | 2 commands, 1 worker death, 1 broken connection, 1 control change or revocation, fairness | at most one start, in order; untaken commands stay queued unless their device is revoked; every step is one of the abstract course or none; a queued command is answered, or grows old, or its device is revoked |
| `delivery_control` | 2 interchangeable devices (pairing again, revoking the first), 2 commands, 2 control changes, storage may reject | what starts was received since the last change the worker heard of; what was taken is answered; of a device that is not revoked only what `takeAndRun` passed over can be lost |
| `delivery_storage` | storage may reject | expected violation, see section 6 |
| `control` | 3 devices, 2 clicks, 1 toggle, 1 mishap (a rejected storage call, a lost answer or a worker death), fairness | relay and stored token agree; a shown success is true; the loop obeys what it heard and lets commands through exactly while enabled; a device that stays paired and enabled is served |
| `command` | 2 commands, workflows of 2 steps, 1 control change, 1 dismissed debugging bar | reports never deny an input that reached the page; an abandoned handler starts none; sessions are ended by their owner and none stays open; the work chain goes on |
| `result_pairing` | 2 devices, 2 results, 1 socket, a new pairing, 1 lapse (revocation, lost ownership, full table) | a result travels only as its own device; what the log calls delivered is stored, what it calls refused is not |
| `result_timing` | 1 result, all timers in the proportions of the source (one unit is 2.5 s, at least 1), 1 busy episode, fairness | a wait ends within the deadlines; a relay that is busy for one body deadline loses no result; every delivery ends |

*Why the bounds are enough.* Two commands with one request id give a repeat
and a competitor; lifetimes of 1 (queue)
and 2 (results) in a time of 0..3 let queue, ownership, receipt and payload
end at different moments, and a request outlive a receipt. In `hub_caps` the
queue and the request table are tried once more than they hold, the byte
budget is met by two stored bodies ("large" fits once, "huge" never), and a
second post of a command may carry another body. In `hub_devices` the second
device is what a revocation must leave alone, and the second ticket what
replaces the first. In `relay_live` three drivers meet a limit of two waiters,
and two sockets a limit of one, as one device replaces its own socket while
the other is refused. In `delivery_faults` the second command shows whether an
acknowledgement takes more than it should, and one control change at any
moment meets each await; `delivery_control` has two, which may both be unheard. In `control` two clicks are a registration that is
overtaken by another or by a removal; the second new device is what the later
registration makes, and the toggle a pause between them. In `command` the
first command's handler lives on beside the second command, and the second
step of a workflow is the one that must be called unstarted. The safety properties were also explored once on larger
instances that take longer than a run should: `control` with two toggles and two
mishaps, `command` with two control changes, `delivery_faults` with three
commands, `result_pairing` with two sockets and two lapses, `result_timing` with a
second socket and a lapse; nothing new was found. Each property has a
mutated definition (named `Slip_...`, one plausible bug each) that TLC finds
under the same instance.

`CHECK_DEADLOCK FALSE` is set where an instance ends when its bounded
commands and clock are used up, and the system itself may rest. In `control`
it is not: the watchdog always rings.

Bounds by name: `MaxTime` (clock), `Cmd`, `Request`, `Code`, `Ticket`,
`Device`, `Body` (finite sets) in RelayHub; `MaxCmd` and the sets `Device`,
`Socket`, `Driver` in RelayLive; `MaxCmd`, `MaxControl`, `MaxKills`,
`MaxDrops` in Delivery (`MaxControl` counts clicks, and revocations of the
current device by an operator; those of a replaced device are free); `MaxCmd`, `MaxStep`, `MaxControl`, `MaxDismiss` in
Command; `Device` and `Click` (each click is used once), `MaxToggles`, `MaxMishaps` in
ExtControl; `MaxCmd`, `MaxSessions`, `MaxBusy`, `MaxLapses` in ResultDelivery.
There the second result shows whether the
acknowledgement of the first settles it, the second device whether a result
can leave as the wrong one (a socket of the new pairing is open while a
result of the old one is sent), and one busy episode is what the
source's 429 window is meant for.

*Fairness.* RelayHub: storage commits return (`Apply`) and a mutation that
was begun comes to its end (`Finish`); the chain is first come, first served,
so an alarm's mutation gets its turn although others come again and again:
strong fairness of `Purge` while the alarm is set. Durable Objects repeat
alarms that fail, and an alarm starts an object that is down: a load in the end
completes (`Restart`, weakly fair while the alarm is set and the object down). Streams end because `RESULT_STREAM_TIMEOUT_MS` ends them.
Nothing is assumed of drivers, devices or the clock. Delivery: the loop always
goes on (`Connect`, and one of `OpenSocket` and `StartPoll`), the relay
answers, messages on an open socket and its close are handled, the work chain goes on
because every await in it returns or times out, and storage events arrive.
Breaking connections, deaths and control changes are never forced, and are
bounded in number: the property is about what follows the last of them.
ResultDelivery: timers fire and time goes on, an answer that came is handled,
and the relay gives slots back, all by timers of the source; nothing is
assumed of what is under way; other devices give their slots back by the
relay's deadline. ExtControl: what the loop awaits ends (requests have
timeouts, storage answers or rejects), change events are delivered, and the
watchdog's alarm rings, which also starts a worker that died
(`background.js:2220-2229`). An open socket need not close, and nobody has to
click. RelayLive and Command are checked for safety only: that a long poll is
woken is stated as "nobody waits for what is already settled", and that the
chain goes on as "no state has the chain waiting for what cannot come".

## 4. Proofs

**RelayHub.** These theorems are about its `Spec`, for any number of devices,
commands, requests and slots, any caps and any lifetimes that satisfy
`LifetimeAssumption` (a queued command is kept no longer than ownership),
`CapAssumption`, `AtomAssumption` and `HubAssumption`.

1. `TypeCorrect`: `TypeOK` is inductive by itself, with one lemma for the
   type of each store operation.
2. `AlwaysConsistent`: none of the safety properties is inductive alone. A
   payload is the first one accepted only because an accepted command's
   ownership is `done`; a deliverable command is owned only because the queue
   entry's lifetime ends before the owner's; seq grows only because a queue is
   never forgotten while its device lives; a stream's payload survives only
   because what the written mutation opens was there when it committed.
   `Consistent` joins these facts. Its proof has one lemma per action that
   adds rows; all actions that only take rows away (purge, restart, ticket
   use, acknowledgement, consumption) share one argument: `Kept` says that
   what is left is unchanged and that no receipt is left without its payload,
   and `KeptConsistent` that such a step preserves the invariant. A load cut
   short has its own (`CutConsistent`): it may leave receipts without payload,
   but only of results that were over at `cutAt` (`ReceiptsCut`), until a load completes.
3. From it: `DeliverableAlwaysOwned`, `RevokedAlwaysLeavesNothing`,
   `FirstResultAlwaysWins`, `StreamAlwaysKeepsPayload`, `AlwaysOneTicket`,
   `SeqAlwaysGrows`, `AlwaysConsumeOnce`. These do not assume anything of the
   clock.
4. `AlwaysTimely` and from it `AckedAlwaysDurable`, `RequestAlwaysOnce`, under
   the assumption `~ClockSteps`: with a clock that is set back and forth again
   rows are swept early. `LastingTimely` is the shared argument for
   the steps that only take rows away.
5. `LoadAlwaysAccepts` (with `~ClockSteps`) and `RestartAlwaysAccepts` (with any clock):
   `load()` accepts the rows that commits, purges, crashes and loads cut short
   left. With a clock that may be set back there is one exception, which
   `RestartAccepts` states: a load that was cut short had deleted payloads, and the clock reads
   less than it did then (section 6). `LoadAccepts` speaks of the rows
   that are not over now; the invariant is stronger and, but for `cutAt`, without time
   (`DiskLoadable`): every table is within its cap, expired rows included
   (`Capped`), and a replay reference is to a payload that is kept at least as
   long (`RepliesBacked`), or, while the object is down, was over when its payload was
   deleted (`RepliesCut`). The steps that add a row test the cap first
   (`WithinOneMore`, and for bytes `BytesOfOneMore`); the others leave fewer
   rows (`FewerCapped`); purge and revocation take no payload without the
   reference to it, a load that completes mends what those before it left
   (`RestartLoadable`), and one cut short leaves only what was over
   (`CutLoadable`). With `Consistent` it gives both theorems.

6. `RelayIsLedger`: every step of the relay is a step of `ResultLedger` or
   leaves its variables alone. `FewerForgets` covers all steps that only take
   rows away; that an unread receipt is never without its payload (`UnreadBacked`, from
   `Consistent`) is what makes them steps of the ledger. Accepting needs that a command whose
   ownership is open was not answered, consuming that its reader is the only one.

`AlwaysConsistent`, `AlwaysTimely`, `LoadAlwaysAccepts`, `FirstResultAlwaysWins` and
`AlwaysConsumeOnce` state facts that no run lists by name: the first two are
strengthenings, the third is `RestartAlwaysAccepts` without its exception, the other two
are what `WriteOnceReadOnce` says in terms of the ledger.

**RelayLive.** For any finite sets of devices, sockets and drivers and any
limits (`RelayLiveAssumption`), `Safe` is inductive: the six properties of
`relay_live`, but for `ReplacementAdmitted`, with the types and the fact that a command not yet
enqueued has no row. `WakeCounts` is the lemma behind the counter: `wake()` takes
as many from it as stop waiting. `SocketsBounded` needs one socket per
device, as the limit is checked before the replaced socket is closed.
`ReplacementAdmitted` follows: without its own socket a device meets at most
one less than the limit.

**ExtControl.** For any non-empty set of devices, any clicks and any bounds
(`StorageAssumption`, `PairingAssumption`), `PairInv` is inductive: no two clicks under way
have the same intent, so "mine is the latest" is true of one click at most
(`Intents`); while nothing was clicked since, the token is what that click
found or made (`Current`); a device just registered is known to one click and
nobody revokes it (`Answers`); what is revoked is never the stored token
(`Targets`). `PairingAlwaysAgrees` and `ClaimsAlwaysTrue` follow. The loop takes no part but
to leave the pages and the settings alone.

The second half of the module is about the loop. `LoopInv` says what the
snapshot the loop works with is worth: if nothing was heard since it was taken
it is the stored state, but for changes whose events are still on their way.
To that argument the pages are only calls of `store`. `HeardIsAlwaysObeyed` and
`AcceptingIsAlwaysEnabled` follow.

**Delivery.** For any devices and any bounds, with storage that works or
rejects, `DeliveryInv` is inductive. None of the run's properties is, as each
depends on where every copy of a command is. Its layers are proved in order,
each with those before it:

* `Types`, and `Owned`: what is queued, on a socket, in a poll's answer or in the
  work chain was issued to the device it travels under.
* `Session` and `Epochs`: the two ends of a socket agree, no work is of a later
  epoch, and an open socket is of the current one.
* `Ahead`: what was started is behind the cursor, what is about to be is ahead
  of it. `StartsInOrder` needs no more.
* `Heard`: what the state just read said is still so, or the event of its change
  is on its way.
* `Fresh`: what is in the work chain or being taken in the current epoch was received
  since the worker last heard of a change, as every such change moves the epoch.
  With `Heard` it gives `NothingStartsAfterControl`: of a pause, a pause and resume,
  a new policy and a new pairing alike.
* `KeptInQueue`: what is *owed* (issued to a device that is not revoked, not taken,
  not old, not passed over) is in its queue. Nothing is owed to a revoked device: its queue is deleted. This is `OnlyPassedOverIsLost`; it holds only because
  acknowledgements are cumulative and nothing that acknowledges can overtake
  what is owed: `Spared` says so of cursors, acknowledgements and polls, and
  `NoGap` of what is still to be taken, from the command in hand over the
  work chain to the messages on the socket: in front of every command that will
  move the cursor comes every smaller one that is owed. That a socket is welcomed with the
  whole queue, and sent every later command, is what starts that chain.

`UntakenStays` is the README's promise itself (README.md:108-109 of the
repository), for devices that are not revoked. It assumes `~StorageFails` and is
of the states reached with at most one control change; section 6 shows why neither can be dropped. Its own
layer (`Held`, `OneChange`) says that a command passed over waits: the
extension is then paused or has another token for good, so no cursor,
acknowledgement or poll of that device moves past it.

`DeliveryIsCourse` is the refinement: every step of Delivery is a step of
`CommandCourse` or leaves it alone. Only four steps can be anything but a
stutter (`CourseGoesOn`). That a later command of the device was never taken
when one is (`TakenIsNew`) comes from `Ahead` and `Counted`: what was taken is
behind the cursor. That nothing is under way then comes from `TakenAnswered`
and the single work chain; that a command ends once from `UnderWay`: the one
whose cursor was saved has not ended. It holds for storage that rejects and for any
control changes: what these do is leave a command waiting forever.

**Command.** For any number of commands and steps, control changes and
dismissals. `Turns` says that one command runs at a time and that every other
handler has lost its race; `Attaches` and `Detaches` that each call to Chrome
and each answer on its way has the one that waits for it, in the order they
were asked; `Session` that behind a session the worker holds no attach is under
way and no detach ahead of it that nobody waits for; `Debugger` what the answers on their way
say of who has the debugger. `QueueGoesOn`, `SessionStaysOpen`,
`NothingStaysAttached` and `InputsAreOwn` rest on these five together:
the worker's belief and Chrome's state are related only through what is in the
two queues. `ReportInv` follows one command's record: until the report is
written, the flag and the list of steps cover every input, and afterwards an
input that may still land is one the report owns up to. From it comes
`ReportsAreHonest`. The proof showed an earlier, simpler `SessionIsOpen` to be
false for three commands (section 6), which two commands cannot show.

**ResultDelivery.** For any devices, results, sockets, timers and busy
episodes. Results are numbered as they are sent (`Numbered`), whatever is on
its way travels as its owner (`Own`), a delivery that waits for an
acknowledgement has uploaded nothing yet (`Turn`), and a receipt, on its way or
logged, is true of the relay (`Acknowledged`, `Refused`): a refusal on the
socket of a full table leaves nothing behind that could still store the result
(`Absent`), a refusal over HTTP means that the command lapsed. From them come
`SentAsItsOwner` and `LogIsAlwaysTrue`. `DeliveryIsBounded` holds whatever the
lengths of the timers. `ReadersAreEnough` is a by-product: uploads of this and
of other devices never take more readers than there are.

`BusyIsNotLost` is about the lengths of the timers, and is not true of all.
`Proportions` is what it needs of them, from the source: the window of a 429
outlasts a slot held to its deadline and the pause after it (15 s + 1 s < 20 s), and the
delivery outlasts that on top of one request (10 s + 15 s + 1 s < 30 s). TLC
finds the property violated when either holds with equality.
`OneBusyIsNotLost` states it for the bounds of `result_timing`, one delivery
and one busy episode, and any timers in proportion. `BusyIsWaitedOut` has any
number of deliveries and episodes, and says what it then assumes of what is
around a delivery that has not failed yet: when it uploads no upload that an
earlier one abandoned still holds a slot (`Undisturbed`), and other devices that
have given their slots back do not take them again before it is answered
(`OneEpisode`). Neither is a limit of the proof: without it TLC finds
a result given up, as two holds after one another exceed the window. The
invariant relates three clocks: what is left of the others' deadline, of the
window since the first 429, and of the delivery (`Covers`); that a pause always
fits into what is left (`Window`); that before the first answer nothing but one
request was taken from the delivery (`Timely`); and that a delivery that has
not failed left no upload of its own behind (`Fresh`), so that it is never its
own obstacle.

Model-checked only: `ExpiredRowsGo`, `QueuedIsAnswered`, `DeliveryEnds` and
`PairedIsServed`, as liveness under fairness is out of the prover's reach.

The type invariants of Delivery, Command, ResultDelivery and ExtControl are
written down in their modules and are not among the runs' properties; the
first three are proved (`DeliveryTypes`, `CommandTypes` and, as a part of its
inductive invariant, `ResultsSafe`).

## 5. Plan

Done: the relay's rows and their ledger, its waiters and sockets, delivery,
commands, results, pairing, the loop, and the proofs of section 4. In order of
weight, what follows:

1. `Operator` (gate, queue, stop, one daemon per socket), `Driver` (repeat with
   one request id, cached negotiation): the local half of the system.
2. `Workflow` (snapshot bindings against navigation and a restarted worker).
3. `RelayAdmission` (slots of all request readers are given back exactly once),
   `RelayMigration` (a copy of old rows that is cut short and repeated).
4. `Jev` (admission and deadline of provider calls), `Allowlist` against a
   reference definition.

## 6. Where code and documents disagree

* `hub_ownership`: the comment at `relay/worker.js:52-53` says ownership "dies
  with the result". Its deadline is counted from the enqueue (`:544`), the
  receipt's from the accept (`:626`), so a result that is accepted late can
  still be read after its ownership is gone. A repeated post is then refused
  as unknown instead of being acknowledged as a duplicate. Nothing that is
  promised to readers is lost: `AckedResultDurable` is proved.
* `delivery_storage`: README.md:108-109 of the repository says that a command
  that had not been taken stays on the relay. When `chrome.storage` rejects a
  call of `takeAndRun`, `schedule` logs it and goes on
  (`extension/background.js:1846`); the next command's acknowledgement is
  cumulative and removes the earlier command, which was not run and gets no
  result. The same happens without any fault when two changes are stored
  before the worker hears of the first: `takeAndRun` finds the extension
  paused and gives up command 1, a resume is stored, and command 2 is taken
  by the same epoch. `delivery_control` (two changes) shows that these two are the
  only ways while the device is not revoked (`OnlyPassedOverIsLost`, with the history
  `passedOver`) and that what was taken is answered even then; `delivery_faults`
  shows that the statement itself holds with storage that works and at most one
  change, over a broken connection and a death of the worker. A revocation, which a
  new pairing and Unregister ask for, deletes what is queued for the device
  (`relay/worker.js:501-518`); that is its purpose, and the properties exempt it.

Met while proving, and stated in the model rather than by a run of its own: the
comments at `extension/background.js:396-397` and `:411-413` say that a late
handler does not detach a newer command's session. The handler looks at
`debugSessions`, which names a command only from the moment its attach was
answered. Commands 1 and 2 are given up while their attaches are pending, and
the user dismisses the bar of the first, so that Chrome takes the second.
Handler 1 detaches the tab, which ends 2's debugger; command 3 asks
Chrome to attach and gets it; only then does handler 2 hear of its own attach.
It finds the tab unused and detaches it (`:416`), and command 3 adopts, or goes
on with, a debugger that is closed. `SessionIsOpen` therefore exempts `undercut` commands;
that no input reaches the page through another's session then either is
`OwnSessionOnly`, which is proved without exemption.

Three observations are not findings, as no statement of the repository is
contradicted. `load()` deletes expired payloads (`relay/worker.js:398`) before the receipts
(`:409`) and request rows (`:420`) that refer to them, each by its own storage call. If
the object crashes in between and the clock is then set back, so that such a
reference is not over yet, the next `load()` throws (`:414`, `:426`), and
goes on to until the clock reads again what it did; `RestartAccepts` exempts exactly
this, and without a clock set back it cannot happen (`LoadAlwaysAccepts`). When `chrome.storage` rejects a new token, the relay has a
device that nobody was told of: the page says only "Registration failed"
(`options.js:151-153`); `Pairing` counts it as `astray`. And `getState`
(`background.js:2117`) and `setRelayState` (`:2129`) are awaited in the loop
outside its `try`, so a rejected storage call there ends the loop;
`PairedIsServed` shows that the watchdog repairs it.

## 7. Not modelled

HTTP parsing, authentication, CORS, HTML, logging, packaging, tests and
scripts: stateless or not program behaviour. The relay's choice of a default
device and the names of devices. Byte-level encodings of results (chunks) and
the wording of errors. Parts listed as `not_modelled` in `PROJECT.json` with a
place in the plan above.

`initializeCursor`, which moves the cursor of old versions: a registration
writes the new key with the token (`options.js:130`), and every other reader
in the worker comes after the loop's own first read, which migrates, so no two
of them race. The operator daemon, the driver and the Jev client, the bindings of snapshots
and the site allowlist: in the plan.
