---------------------------- MODULE ResultDelivery ----------------------------
(***************************************************************************)
(* How the extension hands the result of a command to the relay: over the  *)
(* socket the command came by and, without an acknowledgement, by bounded  *)
(* HTTP uploads (src/extension/background.js: sendResult,                  *)
(* sendResultOverSocket, waitForResultAck, postResult), against the        *)
(* relay's admission of uploads and its commit (src/relay/worker.js:       *)
(* webSocketMessage, fetch, handle /result).                               *)
(*                                                                         *)
(* Results are sent one at a time, from the work chain.  A timer is a      *)
(* countdown in seconds or a coarser unit; a timer that is due fires       *)
(* before time goes on.  What is lost on its way is what never arrives.    *)
(* What the relay stores is in RelayHub: here a command is answered or     *)
(* not, still owned or not.                                                *)
(***************************************************************************)
EXTENDS Naturals, Sequences, FiniteSets

CONSTANTS
  Device, None,
  ACK,           \* resultAckTimeoutMs
  REQUEST,       \* RESULT_TIMEOUT_MS
  RETRY,         \* RESULT_RETRY_MS
  BUDGET,        \* RESULT_429_BUDGET_MS
  DELIVERY,      \* CMD_TIMEOUT_MS, the whole delivery over HTTP
  HOLD,          \* BODY_TIMEOUT_MS of the relay
  READERS,       \* RESULT_BODY_READERS_MAX of the relay
  MaxCmd,        \* bound on the results sent
  MaxSessions,   \* bound on the sockets opened
  MaxBusy,       \* bound on the times other devices hold upload slots
  MaxLapses      \* bound on revocations, lapsed ownership and full result tables

ASSUME ResultAssumption ==
  /\ None \notin Device \cup Nat
  /\ {ACK, REQUEST, RETRY, BUDGET, DELIVERY, HOLD, READERS} \subseteq Nat \ {0}
  /\ {MaxCmd, MaxSessions, MaxBusy, MaxLapses} \subseteq Nat

Cmd == 1 .. MaxCmd

VARIABLES
  \* the extension
  token,      \* the device it is paired with
  sessions,   \* the device of every socket so far; the last may be open
  open,       \* the last socket is open and welcomed
  job,        \* the delivery in progress
  \* the wires
  up,         \* results sent on a socket, which may have closed since
  down,       \* the relay's replies on the open socket
  posts,      \* uploads sent and not yet admitted
  answer,     \* the answer to the request that is awaited, or None
  \* the relay
  registered, \* devices
  owned,      \* commands whose ownership lives
  committed,  \* commands with a result
  slots,      \* uploads of this extension whose body is being read
  full,       \* the result table or its bytes are at the limit
  others,     \* slots taken by other devices,
  busy        \* and how long they may still be held

\* What has happened, and the bounds already used.
VARIABLES
  paired,     \* the devices it was ever paired with
  owner,      \* the device each result belongs to
  outcome,    \* what the delivery of each command ended in
  used        \* busy episodes and lapses so far

extension == <<token, sessions, open, job>>
wires == <<up, down, posts, answer>>
relay == <<registered, owned, full, committed, slots, others, busy>>
history == <<paired, owner, outcome, used>>
vars == <<extension, wires, relay, history>>

NoJob == [pc |-> "idle", id |-> 0, token |-> None, wait |-> 0, delivery |-> 0,
          rate |-> None, failures |-> 0]

Least(a, b) == IF a < b THEN a ELSE b

\* An upload is known by its command and the failures before it: after a 429
\* nothing of it is left.
Upload == [id : Cmd, token : Device, try : 0 .. 1]

TypeOK ==
  /\ token \in Device /\ sessions \in Seq(Device) /\ open \in BOOLEAN
  /\ job \in [pc : {"idle", "ack", "loop", "request", "sleep"}, id : 0 .. MaxCmd, token : Device \cup {None},
              wait : Nat, delivery : 0 .. DELIVERY, rate : 0 .. BUDGET \cup {None}, failures : 0 .. 1]
  /\ up \subseteq [id : Cmd, session : 1 .. MaxSessions] /\ down \subseteq [id : Cmd, ok : BOOLEAN]
  /\ posts \subseteq Upload /\ answer \in {None, "ok", "refused", "busy", "failed"}
  /\ registered \subseteq Device /\ owned \subseteq Cmd /\ full \in BOOLEAN /\ committed \subseteq Cmd
  /\ slots \in [DOMAIN slots -> 0 .. HOLD] /\ DOMAIN slots \subseteq Upload
  /\ others \in 0 .. READERS /\ busy \in 0 .. HOLD
  /\ paired \subseteq Device /\ owner \in [Cmd -> Device \cup {None}]
  /\ outcome \in [Cmd -> [is : {"none", "delivered", "refused", "failed", "late"}, failures : 0 .. 1]]
  /\ used \in [busy : 0 .. MaxBusy, lapses : 0 .. MaxLapses]

Init ==
  /\ token \in Device /\ sessions = <<>> /\ open = FALSE /\ job = NoJob
  /\ up = {} /\ down = {} /\ posts = {} /\ answer = None
  /\ registered = Device /\ owned = Cmd /\ full = FALSE /\ committed = {}
  /\ slots = [u \in {} |-> 0] /\ others = 0 /\ busy = 0
  /\ paired = {token} /\ owner = [c \in Cmd |-> None]
  /\ outcome = [c \in Cmd |-> [is |-> "none", failures |-> 0]]
  /\ used = [busy |-> 0, lapses |-> 0]

-----------------------------------------------------------------------------
(* sendResult *)

\* Slip: any open socket will do.
Slip_carries_any(origin, d, small) == open /\ small

\* The socket the command came by or, after a poll (0), the live one; never a
\* socket of another pairing, never more than a socket message may hold.
carries(origin, d, small) ==
  /\ open /\ small
  /\ origin \in {0, Len(sessions)}
  /\ sessions[Len(sessions)] = d

posting(j) == [j EXCEPT !.pc = "loop", !.wait = 0, !.delivery = DELIVERY]

\* A command that was taken under d is over, perhaps after its socket closed or
\* the extension was paired with another device.
SendResult(d, origin, small) ==
  LET id == Cardinality({c \in Cmd : owner[c] # None}) + 1
      j  == [NoJob EXCEPT !.id = id, !.token = d]
  IN  /\ job = NoJob /\ id \in Cmd
      /\ d \in paired
      /\ origin \in {0} \cup {i \in DOMAIN sessions : sessions[i] = d}
      /\ IF carries(origin, d, small)
         THEN job' = [j EXCEPT !.pc = "ack", !.wait = ACK] /\ up' = up \cup {[id |-> id, session |-> Len(sessions)]}
         ELSE job' = posting(j) /\ UNCHANGED up
      /\ owner' = [owner EXCEPT ![id] = d]
      /\ UNCHANGED <<token, sessions, open, down, posts, answer, relay, paired, outcome, used>>

\* The delivery of j is over.
ends(j, result) ==
  /\ job' = NoJob
  /\ outcome' = [outcome EXCEPT ![j.id] = [is |-> result, failures |-> j.failures]]

settled(reply) == ends(job, IF reply.ok THEN "delivered" ELSE "refused")

\* Slip: the wait is not looked up by the command.
Slip_HearReply_anyId(reply) ==
  /\ down' = down \ {reply}
  /\ IF job.pc = "ack" THEN settled(reply) ELSE UNCHANGED <<job, outcome>>
  /\ UNCHANGED <<token, sessions, open, up, posts, answer, relay, paired, owner, used>>

\* result_ack or result_rejected on the socket the result was sent by.
HearReply(reply) ==
  /\ down' = down \ {reply}
  /\ IF job.pc = "ack" /\ job.id = reply.id THEN settled(reply) ELSE UNCHANGED <<job, outcome>>
  /\ UNCHANGED <<token, sessions, open, up, posts, answer, relay, paired, owner, used>>

\* Slip: without its own timer the wait ends only with the socket.
Slip_AckTimeout_untimed ==
  /\ job.pc = "ack" /\ ~open
  /\ job' = posting(job)
  /\ UNCHANGED <<token, sessions, open, wires, relay, history>>

AckTimeout ==
  /\ job.pc = "ack" /\ job.wait = 0
  /\ job' = posting(job)
  /\ UNCHANGED <<token, sessions, open, wires, relay, history>>

\* A socket that closes settles the wait.  What was sent may still arrive, what
\* was not heard is lost.
closed ==
  /\ open' = FALSE /\ down' = {}
  /\ job' = IF job.pc = "ack" THEN posting(job) ELSE job

-----------------------------------------------------------------------------
(* postResult *)

left(j) == IF j.rate = None THEN j.delivery ELSE Least(j.delivery, j.rate)

\* Slip: the request is not cut to what is left.
Slip_requestTime_whole(j) == REQUEST

requestTime(j) == Least(REQUEST, left(j))

StartRequest ==
  /\ job.pc = "loop"
  /\ IF left(job) = 0 THEN ends(job, "late") /\ UNCHANGED posts
     ELSE /\ job' = [job EXCEPT !.pc = "request", !.wait = requestTime(job)]
          /\ posts' = posts \cup {[id |-> job.id, token |-> job.token, try |-> job.failures]}
          /\ UNCHANGED outcome
  /\ UNCHANGED <<token, sessions, open, up, down, answer, relay, paired, owner, used>>

pause(j) == [j EXCEPT !.pc = "sleep", !.wait = Least(RETRY, left(j))]

\* Slip: the window is that of one request.
Slip_afterBusy_short(j) == pause(IF j.rate = None THEN [j EXCEPT !.rate = REQUEST] ELSE j)

\* Only a busy relay (429) opens a window of its own, once.
afterBusy(j) == pause(IF j.rate = None THEN [j EXCEPT !.rate = BUDGET] ELSE j)

retry(j) == IF left(j) = 0 THEN ends(j, "late") ELSE job' = j /\ UNCHANGED outcome

\* A request that fails otherwise may be repeated once.
failed ==
  IF job.failures = 1 THEN ends(job, "failed")
  ELSE retry(pause([job EXCEPT !.failures = 1]))

awaited(u) == job.pc = "request" /\ job.id = u.id /\ job.failures = u.try

HearAnswer ==
  /\ answer # None
  /\ answer' = None
  /\ CASE answer = "ok"      -> ends(job, "delivered")
       [] answer = "refused" -> ends(job, "refused")
       [] answer = "busy"    -> retry(afterBusy(job))
       [] answer = "failed"  -> failed
  /\ UNCHANGED <<token, sessions, open, up, down, posts, relay, paired, owner, used>>

\* The deadline of the request, or an error of the network at any time.
RequestFails ==
  /\ job.pc = "request"
  /\ answer' = None
  /\ failed
  /\ UNCHANGED <<token, sessions, open, up, down, posts, relay, paired, owner, used>>

Awake ==
  /\ job.pc = "sleep" /\ job.wait = 0
  /\ job' = [job EXCEPT !.pc = "loop"]
  /\ UNCHANGED <<token, sessions, open, wires, relay, history>>

-----------------------------------------------------------------------------
(* The relay *)

\* Slip: a repeat is refused.
Slip_verdict_noRepeat(d, id) ==
  IF d \notin registered \/ id \notin owned \/ owner[id] # d \/ id \in committed THEN "refused"
  ELSE IF ~full THEN "ok"
  ELSE "busy"

\* acceptResult: a repeat is acknowledged like the first; only a full table is
\* reported as busy, which the socket does not tell from a refusal.
verdict(d, id) ==
  IF d \notin registered \/ id \notin owned \/ owner[id] # d THEN "refused"
  ELSE IF id \in committed \/ ~full THEN "ok"
  ELSE "busy"

commit(d, id) == committed' = IF verdict(d, id) = "ok" THEN committed \cup {id} ELSE committed

\* A result on a socket; while another result is committed the socket is closed.
ReceiveResult(m) ==
  LET live == open /\ m.session = Len(sessions)
      d    == sessions[m.session]
  IN  /\ up' = up \ {m}
      /\ \/ /\ others > 0 /\ live /\ closed
            /\ UNCHANGED committed
         \/ /\ commit(d, m.id)
            /\ down' = IF live THEN down \cup {[id |-> m.id, ok |-> verdict(d, m.id) = "ok"]} ELSE down
            /\ UNCHANGED <<open, job>>
      /\ UNCHANGED <<token, sessions, posts, answer, registered, owned, full, slots, others, busy, history>>

\* The answer to an upload that was given up is heard by nobody.
reply(u, status) == answer' = IF awaited(u) THEN status ELSE answer

admits(u) ==
  /\ Cardinality(DOMAIN slots) + others < READERS
  /\ \A v \in DOMAIN slots : v.token # u.token

\* Admission by the token header, before the body is read.
AdmitUpload(u) ==
  /\ posts' = posts \ {u}
  /\ IF u.token \notin registered THEN reply(u, "refused") /\ UNCHANGED slots
     ELSE IF admits(u) THEN slots' = [v \in DOMAIN slots \cup {u} |-> IF v = u THEN HOLD ELSE slots[v]]
                            /\ UNCHANGED answer
     ELSE reply(u, "busy") /\ UNCHANGED slots
  /\ UNCHANGED <<extension, up, down, registered, owned, full, committed, others, busy, history>>

release(u) == slots' = [v \in DOMAIN slots \ {u} |-> slots[v]]

\* The body is complete: commit, unless another result is being committed.
ReadBody(u) ==
  /\ release(u)
  /\ \/ others > 0 /\ reply(u, "busy") /\ UNCHANGED committed
     \/ commit(u.token, u.id) /\ reply(u, verdict(u.token, u.id))
  /\ UNCHANGED <<extension, up, down, posts, registered, owned, full, others, busy, history>>

\* The deadline of the body, or an upload that was broken off.
BodyTimeout(u) ==
  /\ slots[u] = 0 \/ ~awaited(u)
  /\ release(u) /\ reply(u, "failed")
  /\ UNCHANGED <<extension, up, down, posts, registered, owned, full, committed, others, busy, history>>

-----------------------------------------------------------------------------
(* The environment *)

Connect ==
  /\ ~open /\ Len(sessions) < MaxSessions
  /\ sessions' = Append(sessions, token) /\ open' = TRUE
  /\ UNCHANGED <<token, job, wires, relay, history>>

SocketCloses ==
  /\ open /\ closed
  /\ UNCHANGED <<token, sessions, up, posts, answer, relay, history>>

\* Paired with another device: the socket of the old one closes.
Pair(d) ==
  /\ d \notin paired
  /\ token' = d /\ paired' = paired \cup {d}
  /\ closed
  /\ UNCHANGED <<sessions, up, posts, answer, relay, owner, outcome, used>>

OthersUpload ==
  /\ others = 0 /\ used.busy < MaxBusy
  /\ others' \in 1 .. READERS - Cardinality(DOMAIN slots) /\ busy' = HOLD
  /\ used' = [used EXCEPT !.busy = @ + 1]
  /\ UNCHANGED <<extension, wires, registered, owned, full, committed, slots, paired, owner, outcome>>

OthersDone ==
  /\ others > 0
  /\ others' = 0 /\ busy' = 0
  /\ UNCHANGED <<extension, wires, registered, owned, full, committed, slots, history>>

\* The relay forgets a device or that a command is owned, or its table of
\* results is full.
Lapse ==
  /\ used.lapses < MaxLapses
  /\ used' = [used EXCEPT !.lapses = @ + 1]
  /\ \/ \E d \in registered : registered' = registered \ {d} /\ UNCHANGED <<owned, full>>
     \/ \E id \in owned : owned' = owned \ {id} /\ UNCHANGED <<registered, full>>
     \/ ~full /\ full' = TRUE /\ UNCHANGED <<registered, owned>>
  /\ UNCHANGED <<extension, wires, committed, slots, others, busy, paired, owner, outcome>>

\* A result is read or expires.
RoomAgain ==
  /\ full
  /\ full' = FALSE
  /\ UNCHANGED <<extension, wires, registered, owned, committed, slots, others, busy, history>>

less(n) == IF n = 0 THEN 0 ELSE n - 1

\* No timer is due.  An answer comes at once or, with RequestFails, never.
quiet ==
  /\ job.pc \in {"ack", "request", "sleep"} /\ job.wait > 0
  /\ answer = None
  /\ \A u \in DOMAIN slots : slots[u] > 0
  /\ others > 0 => busy > 0

Tick ==
  /\ quiet
  /\ job' = [job EXCEPT !.wait = less(@), !.delivery = less(@),
                        !.rate = IF @ = None THEN None ELSE less(@)]
  /\ slots' = [u \in DOMAIN slots |-> less(slots[u])]
  /\ busy' = less(busy)
  /\ UNCHANGED <<token, sessions, open, wires, registered, owned, full, committed, others, paired, owner, outcome, used>>

ExtensionStep ==
  \/ \E d \in Device, origin \in 0 .. MaxSessions, small \in BOOLEAN : SendResult(d, origin, small)
  \/ \E r \in down : HearReply(r)
  \/ HearAnswer
  \/ AckTimeout \/ StartRequest \/ RequestFails \/ Awake

RelayStep ==
  \/ \E m \in up : ReceiveResult(m)
  \/ \E u \in posts : AdmitUpload(u)
  \/ \E u \in DOMAIN slots : ReadBody(u) \/ BodyTimeout(u)

Outside ==
  Connect \/ SocketCloses \/ OthersUpload \/ OthersDone \/ Lapse \/ RoomAgain \/ Tick \/ \E d \in Device : Pair(d)

Next == ExtensionStep \/ RelayStep \/ Outside

Spec == Init /\ [][Next]_vars
-----------------------------------------------------------------------------
(* Properties *)

\* What the local log says of a result is so at the relay, whichever of the
\* socket, an aborted upload and its retry brought it: one that is delivered is
\* durable there (background.js:1811), and one that is refused is not, unless
\* the relay has forgotten the command or the device since: a repeat whose
\* first acknowledgement was lost is accepted like the first (worker.js:618;
\* background.js:1747-1749).
LogIsTrue ==
  \A id \in Cmd :
    /\ outcome[id].is = "delivered" => id \in committed
    /\ outcome[id].is = "refused" /\ id \in committed => id \notin owned \/ owner[id] \notin registered

\* A result only ever travels under the device its command was taken for, also
\* when the extension was paired anew and has another socket
\* (background.js:1722-1727).
SentAsOwner ==
  /\ \A m \in up : sessions[m.session] = owner[m.id]
  /\ \A u \in posts \cup DOMAIN slots : u.token = owner[u.id]

\* One delivery holds the work chain no longer than the acknowledgement's wait
\* and one action timeout, and no longer than the window after a 429: the timer
\* it waits for is always due within what is left (background.js:84-87).
BoundedDelivery == job.pc \in {"request", "sleep"} => job.wait <= left(job)

\* "Give a 429 enough time to clear" (background.js:84-87): a delivery with no
\* other failure is not given up while other devices hold upload slots, or the
\* commit, for one deadline of the relay.
BusyIsNotLost == \A id \in Cmd : outcome[id].is = "late" => outcome[id].failures = 1 \/ used.lapses > 0

\* Timers fire and the relay's slots are given back.
FairSpec ==
  /\ Spec
  /\ WF_vars(AckTimeout) /\ WF_vars(StartRequest) /\ WF_vars(Awake)
  /\ WF_vars(RequestFails /\ job.wait = 0) /\ WF_vars(HearAnswer)
  /\ WF_vars(\E u \in DOMAIN slots : slots[u] = 0 /\ BodyTimeout(u)) /\ WF_vars(OthersDone) /\ WF_vars(Tick)

\* Every delivery ends, so the next command can run (background.js:1619-1621).
DeliveryEnds == \A id \in Cmd : job.id = id ~> outcome[id].is # "none"
=============================================================================
