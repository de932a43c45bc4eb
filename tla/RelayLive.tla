------------------------------- MODULE RelayLive -------------------------------
(***************************************************************************)
(* The volatile half of the relay: the long polls that wait for a result   *)
(* and the sockets that commands are pushed to (src/relay/worker.js: wait, *)
(* wake, waitForResult, waitForIdem, push, webSocketMessage, /ws).         *)
(*                                                                         *)
(* Mutations change memory in one synchronous block after their commit, in *)
(* the order of the chain: each is one step here (RelayHub has the commit  *)
(* and its crashes).  Long polls, socket messages and timers run between   *)
(* them.  Commands are numbered in the order of their enqueuing, which is  *)
(* the order of seq for each device.  Tickets and bodies are in RelayHub.  *)
(***************************************************************************)
EXTENDS Integers, FiniteSets

CONSTANTS
  Device, Socket,
  Driver,         \* requests of drivers that wait for a result
  MaxCmd,         \* bound on the commands enqueued
  MAX_SOCKETS, WAITERS_MAX,
  None

ASSUME RelayLiveAssumption ==
  /\ IsFiniteSet(Device) /\ IsFiniteSet(Socket) /\ IsFiniteSet(Driver)
  /\ MaxCmd \in Nat /\ MAX_SOCKETS \in Nat \ {0} /\ WAITERS_MAX \in Nat
  /\ None \notin Device

Cmd == 1 .. MaxCmd

VARIABLES
  devices,      \* the registered ones
  issued,       \* how many commands were enqueued
  device,       \* the device of each command
  queued,       \* commands not acknowledged and not too old
  owner,        \* "none", "open" or "done": the owners row of a command
  idem,         \* "none", "bound" or "answered": its request_id
  results,      \* commands with a receipt
  waiter,       \* what each driver waits for
  waiterCount,
  sock,         \* the sockets with their attachments
  heard         \* the commands sent to each socket

rows == <<devices, issued, device, queued, owner, idem, results>>
polls == <<waiter, waiterCount>>
sockets == <<sock, heard>>
vars == <<rows, polls, sockets>>

Idle == [map |-> "none", cmd |-> 0]
Entry == [map : {"waiters", "idemWaiters"}, cmd : Cmd]
NoSocket == [dev |-> None, at |-> "unused"]

TypeOK ==
  /\ devices \subseteq Device
  /\ issued \in 0 .. MaxCmd
  /\ device \in [Cmd -> Device \cup {None}]
  /\ queued \subseteq Cmd /\ results \subseteq Cmd
  /\ owner \in [Cmd -> {"none", "open", "done"}]
  /\ idem \in [Cmd -> {"none", "bound", "answered"}]
  /\ waiter \in [Driver -> Entry \cup {Idle}]
  /\ waiterCount \in Nat
  /\ sock \in [Socket -> [dev : Device \cup {None}, at : {"unused", "hello", "acking", "welcomed", "closed"}]]
  /\ heard \in [Socket -> SUBSET Cmd]

Init ==
  /\ devices = Device
  /\ issued = 0 /\ device = [c \in Cmd |-> None]
  /\ queued = {} /\ results = {}
  /\ owner = [c \in Cmd |-> "none"] /\ idem = [c \in Cmd |-> "none"]
  /\ waiter = [q \in Driver |-> Idle] /\ waiterCount = 0
  /\ sock = [s \in Socket |-> NoSocket] /\ heard = [s \in Socket |-> {}]

-----------------------------------------------------------------------------
(* Long polls *)

Waiting == {q \in Driver : waiter[q] # Idle}

\* The answer is there, and it can still come: the two questions of wait().
Ready(w) == IF w.map = "waiters" THEN w.cmd \in results ELSE idem[w.cmd] = "answered"
Live(w) == IF w.map = "waiters" THEN owner[w.cmd] = "open" ELSE idem[w.cmd] # "none"

On(map, cmds) == {q \in Driver : waiter[q].map = map /\ waiter[q].cmd \in cmds}

\* wake() of each of them: its entry, its timer and its count go together.
Wake(Q) ==
  /\ waiter' = [q \in Driver |-> IF q \in Q THEN Idle ELSE waiter[q]]
  /\ waiterCount' = waiterCount - Cardinality(Q)

\* Slip: the limit is checked, the count is taken before the answer is looked for.
Slip_Wait_counts(q, w) ==
  /\ waiter[q] = Idle /\ waiterCount < WAITERS_MAX
  /\ waiterCount' = waiterCount + 1
  /\ waiter' = [waiter EXCEPT ![q] = IF Ready(w) \/ ~Live(w) THEN Idle ELSE w]
  /\ UNCHANGED <<rows, sockets>>

\* A driver's request reaches wait(): nothing changes when the answer is there,
\* cannot come, or too many wait.
Wait(q, w) ==
  /\ waiter[q] = Idle
  /\ ~Ready(w) /\ Live(w) /\ waiterCount < WAITERS_MAX
  /\ waiterCount' = waiterCount + 1
  /\ waiter' = [waiter EXCEPT ![q] = w]
  /\ UNCHANGED <<rows, sockets>>

WaitTimeout(q) ==
  /\ waiter[q] # Idle
  /\ Wake({q})
  /\ UNCHANGED <<rows, sockets>>

-----------------------------------------------------------------------------
(* Sockets *)

open(s) == sock[s].at \in {"hello", "acking", "welcomed"}
socketsFor(d) == {s \in Socket : open(s) /\ sock[s].dev = d}
active == {s \in Socket : open(s) /\ sock[s].dev \in devices}

\* push(): to every open socket of the device whose hello was accepted.
pushed(d, cmds) ==
  [s \in Socket |-> IF s \in socketsFor(d) /\ sock[s].at # "hello" THEN heard[s] \cup cmds ELSE heard[s]]

Shut(S) == sock' = [s \in Socket |-> IF s \in S THEN [sock[s] EXCEPT !.at = "closed"] ELSE sock[s]]

\* Slip: the socket about to be replaced counts too.
Slip_admits_all(d) == Cardinality(active) < MAX_SOCKETS

\* Slip: the limit is off by one.
Slip_admits_tooMany(d) == Cardinality(active \ socketsFor(d)) <= MAX_SOCKETS

admits(d) == Cardinality(active \ socketsFor(d)) < MAX_SOCKETS

\* Slip: the device is not looked up again in the chain.
Slip_Handshake_stale(s, d) ==
  /\ sock[s].at = "unused" /\ admits(d)
  /\ sock' = [r \in Socket |-> IF r = s THEN [dev |-> d, at |-> "hello"]
                               ELSE IF r \in socketsFor(d) THEN [sock[r] EXCEPT !.at = "closed"] ELSE sock[r]]
  /\ UNCHANGED <<rows, polls, heard>>

\* /ws with a valid ticket of the device: other sockets of it are replaced.
Handshake(s, d) ==
  /\ sock[s].at = "unused" /\ d \in devices /\ admits(d)
  /\ sock' = [r \in Socket |-> IF r = s THEN [dev |-> d, at |-> "hello"]
                               ELSE IF r \in socketsFor(d) THEN [sock[r] EXCEPT !.at = "closed"] ELSE sock[r]]
  /\ UNCHANGED <<rows, polls, heard>>

\* A hello in time: the attachment says so before its acknowledgement is queued.
Hello(s) ==
  /\ sock[s].at = "hello"
  /\ sock' = [sock EXCEPT ![s].at = "acking"]
  /\ UNCHANGED <<rows, polls, heard>>

\* The timer of the handshake, a hello too late, or a first message that is none.
HelloTimeout(s) ==
  /\ sock[s].at = "hello"
  /\ Shut({s})
  /\ UNCHANGED <<rows, polls, heard>>

pending(d) == {c \in queued : device[c] = d}

Kept(d, last) == {c \in queued : device[c] # d \/ c > last}

\* Slip: the queue is not read again.
Slip_Welcome_noPending(s, last) ==
  /\ sock[s].at = "acking" /\ last \in 0 .. issued
  /\ queued' = Kept(sock[s].dev, last)
  /\ sock' = [sock EXCEPT ![s].at = "welcomed"]
  /\ UNCHANGED <<devices, issued, device, owner, idem, results, polls, heard>>

\* The acknowledgement of the hello has gone through the chain: welcome, and
\* what is still pending.
Welcome(s, last) ==
  LET d == sock[s].dev
  IN  /\ sock[s].at = "acking" /\ last \in 0 .. issued
      /\ queued' = Kept(d, last)
      /\ sock' = [sock EXCEPT ![s].at = "welcomed"]
      /\ heard' = pushed(d, pending(d) \cap Kept(d, last))
      /\ UNCHANGED <<devices, issued, device, owner, idem, results, polls>>

\* An acknowledgement, also one of a socket that was replaced meanwhile.
Ack(s, last) ==
  LET d == sock[s].dev
  IN  /\ sock[s].at \in {"welcomed", "closed"} /\ d \in devices /\ last \in 0 .. issued
      /\ queued' = Kept(d, last) /\ queued' # queued
      /\ UNCHANGED <<devices, issued, device, owner, idem, results, polls, sockets>>

Disconnect(s) ==
  /\ open(s)
  /\ Shut({s})
  /\ UNCHANGED <<rows, polls, heard>>

-----------------------------------------------------------------------------
(* Mutations *)

Enqueue(d, keyed) ==
  LET c == issued + 1
  IN  /\ issued < MaxCmd /\ d \in devices
      /\ issued' = c /\ device' = [device EXCEPT ![c] = d]
      /\ queued' = queued \cup {c}
      /\ owner' = [owner EXCEPT ![c] = "open"]
      /\ idem' = [idem EXCEPT ![c] = IF keyed THEN "bound" ELSE "none"]
      /\ heard' = pushed(d, {c})
      /\ UNCHANGED <<devices, results, polls, sock>>

\* Slip: the readers of a repeated request are not woken.
Slip_AcceptResult_primaryOnly(c) ==
  /\ owner[c] = "open" /\ device[c] \in devices
  /\ owner' = [owner EXCEPT ![c] = "done"]
  /\ results' = results \cup {c}
  /\ idem' = [idem EXCEPT ![c] = IF @ = "bound" THEN "answered" ELSE @]
  /\ Wake(On("waiters", {c}))
  /\ UNCHANGED <<devices, issued, device, queued, sockets>>

\* acceptResult, after its transaction.
AcceptResult(c) ==
  /\ owner[c] = "open" /\ device[c] \in devices
  /\ owner' = [owner EXCEPT ![c] = "done"]
  /\ results' = results \cup {c}
  /\ idem' = [idem EXCEPT ![c] = IF @ = "bound" THEN "answered" ELSE @]
  /\ Wake(On("waiters", {c}) \cup On("idemWaiters", IF idem[c] = "bound" THEN {c} ELSE {}))
  /\ UNCHANGED <<devices, issued, device, queued, sockets>>

Consume(c) ==
  /\ c \in results
  /\ results' = results \ {c}
  /\ UNCHANGED <<devices, issued, device, queued, owner, idem, polls, sockets>>

\* purgeExpired: what is over is a choice; ownership and its request_id were
\* given one deadline.
Purge(old, over, gone) ==
  /\ old \subseteq queued /\ over \subseteq {c \in Cmd : owner[c] # "none"} /\ gone \subseteq results
  /\ old \cup over \cup gone # {}
  /\ queued' = queued \ old /\ results' = results \ gone
  /\ owner' = [c \in Cmd |-> IF c \in over THEN "none" ELSE owner[c]]
  /\ idem' = [c \in Cmd |-> IF c \in over THEN "none" ELSE idem[c]]
  /\ Wake(On("waiters", over \cup gone) \cup On("idemWaiters", {c \in over : idem[c] # "none"}))
  /\ UNCHANGED <<devices, issued, device, sockets>>

\* removeDevice.
RemoveDevice(d) ==
  LET mine == {c \in Cmd : device[c] = d}
  IN  /\ d \in devices
      /\ devices' = devices \ {d}
      /\ queued' = queued \ mine /\ results' = results \ mine
      /\ owner' = [c \in Cmd |-> IF c \in mine THEN "none" ELSE owner[c]]
      /\ idem' = [c \in Cmd |-> IF c \in mine THEN "none" ELSE idem[c]]
      /\ Wake(On("waiters", mine) \cup On("idemWaiters", {c \in mine : idem[c] # "none"}))
      /\ Shut(socketsFor(d))
      /\ UNCHANGED <<issued, device, heard>>

\* The object crashes: requests and sockets end with it.  (It hibernates only
\* with no request and no timer, and the attachments outlive that.)
Crash ==
  /\ waiter' = [q \in Driver |-> Idle] /\ waiterCount' = 0
  /\ Shut({s \in Socket : open(s)})
  /\ UNCHANGED <<rows, heard>>

PollStep ==
  \/ \E q \in Driver, map \in {"waiters", "idemWaiters"}, c \in Cmd : Wait(q, [map |-> map, cmd |-> c])
  \/ \E q \in Driver : WaitTimeout(q)
SocketStep ==
  \E s \in Socket :
    \/ \E d \in Device : Handshake(s, d)
    \/ Hello(s) \/ HelloTimeout(s) \/ Disconnect(s)
    \/ \E last \in 0 .. MaxCmd : Welcome(s, last) \/ Ack(s, last)
Mutation ==
  \/ \E d \in Device : RemoveDevice(d) \/ \E keyed \in BOOLEAN : Enqueue(d, keyed)
  \/ \E c \in Cmd : AcceptResult(c) \/ Consume(c) \/ Purge({c}, {}, {}) \/ Purge({}, {}, {c}) \/ Purge({c} \cap queued, {c}, {})

Next == PollStep \/ SocketStep \/ Mutation \/ Crash

Spec == Init /\ [][Next]_vars

-----------------------------------------------------------------------------
(* Properties *)

\* A long poll never sleeps on something settled: the answer that came, the
\* ownership that ended and the device that was revoked woke it
\* (worker.js:512-513, :641, :741-743).
NobodySleepsOnSettled == \A q \in Waiting : ~Ready(waiter[q]) /\ Live(waiter[q])

\* The count that refuses further long polls is the number that wait, whichever
\* of answer, timer, revocation and purge ended each (worker.js:650-662): a
\* count that drifts up would end in refusing everybody.
WaitersCounted == waiterCount = Cardinality(Waiting) /\ waiterCount <= WAITERS_MAX

\* A welcomed socket was sent every command that still waits for its device:
\* also those enqueued between its hello and its welcome, which the queue read
\* for the welcome or the push must cover (worker.js:806-810).
WelcomedHasAll ==
  \A s \in Socket : sock[s].at = "welcomed" => pending(sock[s].dev) \subseteq heard[s]

\* No socket of a device that was revoked is open: its ticket may be on the way
\* through the chain when the device goes (worker.js:515, :923).
RevokedIsCutOff == \A s \in Socket : open(s) => sock[s].dev \in devices

\* Each device has one socket and together they keep to the limit, which is
\* checked before the sockets they replace are closed (worker.js:924-933).
SocketsBounded ==
  /\ Cardinality(active) <= MAX_SOCKETS
  /\ \A s, t \in active : sock[s].dev = sock[t].dev => s = t

\* At the limit a connected device can still replace its own socket
\* (worker.js:930): a half-open connection does not lock its device out.
ReplacementAdmitted == \A s \in active : admits(sock[s].dev)
=============================================================================
