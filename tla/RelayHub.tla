------------------------------- MODULE RelayHub -------------------------------
(***************************************************************************)
(* BridgeHub, the relay's Durable Object (src/relay/worker.js), as the     *)
(* interleaving of its mutations, its readers, its alarm and its crashes.  *)
(*                                                                         *)
(* Every mutation runs alone in the chain kept by mutate().  It purges     *)
(* first (the operations that call purgeExpired), then commits one storage *)
(* transaction, and only then changes memory.  Between those steps time    *)
(* passes, the parts that are not in the chain run, and the object may be  *)
(* evicted: memory is rebuilt from storage, by a load that deletes what is *)
(* over and may itself be cut short.  A transaction that fails changes     *)
(* neither storage nor memory, so it is the step Finish.                   *)
(***************************************************************************)
EXTENDS RelayStore

CONSTANTS
  Slot,          \* the RESULT_STREAMS_MAX places for a result being streamed
  MaxTime,       \* bound on the clock
  ClockSteps     \* TRUE: the wall clock may also be set back

ASSUME HubAssumption == MaxTime \in Nat /\ ClockSteps \in BOOLEAN /\ None \notin Slot

VARIABLES
  now,       \* Date.now()
  mem,       \* the Maps of the object
  disk,      \* the rows in its storage
  stage,     \* the chain: "idle", "purged" (ready to commit), "written" (committed, memory not yet
             \* changed); "down": the object crashed and no load has completed yet
  opening,   \* the result whose stream the written mutation opens, or None
  streams,   \* Slot -> the result being streamed there, or None
  readers,   \* the calls that found a result and wait for the chain
  alarm      \* the cleanup alarm is set

\* What has happened, kept for the properties only.
VARIABLES
  tokens,    \* every token ever registered
  issued,    \* id -> what was enqueued under it
  accepted,  \* id -> the result first committed for it
  taken,     \* the results whose receipt was consumed
  cutAt      \* the latest clock reading of the loads that deleted payloads and were cut short, while down

rows == <<mem, disk>>
chain == <<stage, opening>>
history == <<tokens, issued, accepted, taken>>
vars == <<now, rows, chain, streams, readers, alarm, history, cutAt>>

pinned == {id \in Cmd : \E k \in Slot : streams[k] = id}

Issue == [token : Device, req : Request \cup {None}, seq : Nat, at : Nat]
Receipt == [by : Device, body : Content, until : Nat]
Reader == [id : Cmd, consume : BOOLEAN]

TypeOK ==
  /\ now \in Nat
  /\ IsStore(mem) /\ IsStore(disk)
  /\ stage \in {"idle", "purged", "written", "down"}
  /\ opening \in Cmd \cup {None}
  /\ streams \in [Slot -> Cmd \cup {None}]
  /\ readers \subseteq Reader
  /\ alarm \in BOOLEAN
  /\ tokens \subseteq Device
  /\ IsMap(issued, Cmd, Issue)
  /\ IsMap(accepted, Cmd, Receipt)
  /\ taken \subseteq Cmd
  /\ cutAt \in Nat

Init ==
  /\ now = 0
  /\ \E D \in SUBSET Device : IsFiniteSet(D) /\ Cardinality(D) <= DEVICE_MAX /\ mem = Imported(D) /\ tokens = D
  /\ disk = mem
  /\ stage = "idle" /\ opening = None
  /\ streams = [k \in Slot |-> None] /\ readers = {}
  /\ alarm = FALSE
  /\ issued = EmptyMap /\ accepted = EmptyMap /\ taken = {} /\ cutAt = 0

-----------------------------------------------------------------------------
(* The chain *)

\* purgeExpired, at the head of enqueue, acceptResult, the pairing and ticket
\* handlers and the alarm.  It leaves the alarm set only for rows that expire.
Purge ==
  /\ stage = "idle" /\ stage' = "purged"
  /\ disk' = Purged(mem, now, pinned)
  /\ mem' = disk'
  /\ alarm' = Expiring(mem')
  /\ UNCHANGED <<now, opening, streams, readers, history, cutAt>>

\* The operation is refused, finds nothing to do, or its transaction fails.
Finish ==
  /\ stage = "purged"
  /\ stage' = "idle"
  /\ UNCHANGED <<now, rows, opening, streams, readers, alarm, history, cutAt>>

\* One storage transaction, which also sets the alarm.
Commit(target) ==
  /\ disk' = target
  /\ stage' = "written"
  /\ alarm' = TRUE
  /\ UNCHANGED <<now, mem, streams, readers, cutAt>>

OpenStream(id) ==
  \E k \in Slot : streams[k] = None /\ streams' = [streams EXCEPT ![k] = id]

\* The transaction is durable: memory follows, and a consumed result starts
\* streaming.  The slot was free when the mutation began and only the chain
\* fills slots.
Apply ==
  /\ stage = "written"
  /\ mem' = disk
  /\ stage' = "idle" /\ opening' = None
  /\ IF opening = None THEN UNCHANGED streams ELSE OpenStream(opening)
  /\ UNCHANGED <<now, disk, readers, alarm, history, cutAt>>

-----------------------------------------------------------------------------
(* Mutations *)

AddPair(code) ==
  /\ stage = "purged"
  /\ Cardinality(DOMAIN mem.pairs) < PAIR_MAX
  /\ code \notin DOMAIN mem.pairs
  /\ Commit(PairAdded(mem, code, now))
  /\ UNCHANGED <<opening, history>>

Register(code, d) ==
  /\ stage = "purged"
  /\ d \notin tokens
  /\ CanRegister(mem, code, now)
  /\ Commit(Registered(mem, code, d))
  /\ tokens' = tokens \cup {d}
  /\ UNCHANGED <<opening, issued, accepted, taken>>

\* /admin/revoke and /unregister: no purge.
RemoveDevice(d) ==
  /\ stage = "idle"
  /\ d \in tokens
  /\ Commit(DeviceRemoved(mem, d))
  /\ UNCHANGED <<opening, history>>

IssueTicket(k, d) ==
  /\ stage = "purged"
  /\ CanIssueTicket(mem, d)
  /\ k \notin DOMAIN mem.tickets
  /\ Commit(TicketIssued(mem, k, d, now))
  /\ UNCHANGED <<opening, history>>

UseTicket(k) ==
  /\ stage = "purged"
  /\ CanUseTicket(mem, k, now)
  /\ Commit(TicketUsed(mem, k))
  /\ UNCHANGED <<opening, history>>

\* The device was resolved before the chain was entered: it may be gone by now.
Enqueue(d, req, id) ==
  /\ stage = "purged"
  /\ d \in tokens
  /\ id \notin DOMAIN issued
  /\ CanEnqueue(mem, d, req, now)
  /\ Commit(Enqueued(mem, d, req, id, now))
  /\ issued' = Put(issued, id, [token |-> d, req |-> req, seq |-> nextSeq(mem, d, now), at |-> now])
  /\ UNCHANGED <<opening, tokens, accepted, taken>>

\* An acknowledgement (socket message, hello or poll cursor) of a command the
\* device was given: no purge.
Ack(d, seq) ==
  /\ stage = "idle"
  /\ \E id \in DOMAIN issued : issued[id].token = d /\ issued[id].seq = seq
  /\ CanAck(mem, d, seq)
  /\ Commit(Acked(mem, d, seq))
  /\ UNCHANGED <<opening, history>>

LegacyPoll(d) ==
  /\ stage = "idle"
  /\ CanLegacyPoll(mem, d, now)
  /\ Commit(LegacyPolled(mem, d, now))
  /\ UNCHANGED <<opening, history>>

\* Any registered device may post a result for any id, any number of times.
AcceptResult(d, id, body) ==
  /\ stage = "purged"
  /\ d \in tokens
  /\ CanAccept(mem, d, id, body)
  /\ Commit(Accepted(mem, id, body, now))
  /\ accepted' = IF id \in DOMAIN accepted THEN accepted
                 ELSE Put(accepted, id, [by |-> d, body |-> stored(mem, body), until |-> now + RESULT_TTL])
  /\ UNCHANGED <<opening, tokens, issued, taken>>

-----------------------------------------------------------------------------
(* Readers *)

\* A waiting call sees the receipt, or the replay its request_id points at, and
\* goes on to the chain.  One element of readers stands for any number of calls.
FindResult(id) ==
  /\ stage # "down"
  /\ id \in DOMAIN mem.res
  /\ readers' = readers \cup {[id |-> id, consume |-> TRUE]}
  /\ UNCHANGED <<now, rows, chain, streams, alarm, history, cutAt>>

FindReplay(k) ==
  /\ stage # "down"
  /\ k \in DOMAIN mem.idem
  /\ mem.idem[k].resultId # None
  /\ readers' = readers \cup {[id |-> mem.idem[k].resultId, consume |-> FALSE]}
  /\ UNCHANGED <<now, rows, chain, streams, alarm, history, cutAt>>

ReaderLeaves(r) ==
  /\ readers' = readers \ {r}
  /\ UNCHANGED <<now, rows, chain, streams, alarm, history, cutAt>>

\* The primary reader consumes the receipt before it gets the bytes.
ConsumeResult(r) ==
  /\ stage = "idle"
  /\ r.consume
  /\ Readable(mem, r.id, TRUE, now)
  /\ \E k \in Slot : streams[k] = None
  /\ Commit(Consumed(mem, r.id))
  /\ opening' = r.id
  /\ taken' = taken \cup {r.id}
  /\ UNCHANGED <<tokens, issued, accepted>>

\* A replay changes no row.
ReplayResult(r) ==
  /\ stage = "idle"
  /\ ~r.consume
  /\ Readable(mem, r.id, FALSE, now)
  /\ OpenStream(r.id)
  /\ UNCHANGED <<now, rows, chain, readers, alarm, history, cutAt>>

\* The stream is read to its end, cancelled, fails or times out.
StreamEnds(k) ==
  /\ streams[k] # None
  /\ streams' = [streams EXCEPT ![k] = None]
  /\ UNCHANGED <<now, rows, chain, readers, alarm, history, cutAt>>

-----------------------------------------------------------------------------
(* The environment *)

Tick ==
  /\ \/ now' = now + 1
     \/ ClockSteps /\ now > 0 /\ now' = now - 1
  /\ now' <= MaxTime
  /\ UNCHANGED <<rows, chain, streams, readers, alarm, history, cutAt>>

\* What was in memory is gone, and with it every call; mem is what a load finds.
Forgotten ==
  /\ mem' = disk'
  /\ opening' = None
  /\ streams' = [k \in Slot |-> None] /\ readers' = {}
  /\ UNCHANGED <<now, history>>

\* The object is evicted or crashes wherever it is, and is loaded again.
Restart ==
  /\ stage' = "idle"
  /\ LoadAccepts(disk, now)
  /\ disk' = Loaded(disk, now)
  /\ Forgotten
  /\ alarm' = Expiring(disk')
  /\ cutAt' = 0

\* It crashes, and the next load does not come to its end: the object crashes
\* again, a storage call fails or a row is refused.  Each table's rows are
\* deleted by storage calls of their own; the pairing codes are one write.  The
\* writes to pairs and queues set the alarm.
LoadCut ==
  /\ \/ disk' = disk
     \/ \E l \in {Loaded(disk, now)}, n \in DOMAIN LoadOrder :
          \E K \in PartLeft(disk[LoadOrder[n]], l[LoadOrder[n]]) :
            /\ LoadOrder[n] = "pairs" => K = {}
            /\ disk' = CutShort(disk, l, n, K)
  /\ Forgotten
  /\ stage' = "down"
  /\ alarm' = (alarm \/ disk'.pairs # disk.pairs \/ disk'.queue # disk.queue)
  /\ cutAt' = IF disk'.payload # disk.payload /\ now > cutAt THEN now ELSE cutAt

DeviceStep ==
  \/ \E d \in Device, id \in Cmd, body \in Body : AcceptResult(d, id, body)
  \/ \E d \in Device : LegacyPoll(d) \/ \E id \in DOMAIN issued : Ack(d, issued[id].seq)
  \/ \E k \in Ticket : UseTicket(k) \/ \E d \in Device : IssueTicket(k, d)
  \/ \E code \in Code, d \in Device : Register(code, d)

DriverStep ==
  \/ \E d \in Device, req \in Request \cup {None}, id \in Cmd : Enqueue(d, req, id)
  \/ \E id \in Cmd : FindResult(id)
  \/ \E k \in ReqKey : FindReplay(k)
  \/ \E r \in readers : ReaderLeaves(r) \/ ConsumeResult(r) \/ ReplayResult(r)
  \/ \E code \in Code : AddPair(code)
  \/ \E d \in Device : RemoveDevice(d)

HubStep == Purge \/ Finish \/ Apply \/ \E k \in Slot : StreamEnds(k)

Next == DeviceStep \/ DriverStep \/ HubStep \/ Tick \/ Restart \/ LoadCut

Spec == Init /\ [][Next]_vars
-----------------------------------------------------------------------------
(* Properties *)

\* load() (worker.js:361-460) never refuses the rows that some interleaving of
\* commits, crashes and expiries leaves: no receipt or replay reference without
\* its payload, no cap exceeded.  A relay that cannot load answers nothing.  The
\* one exception: a load was cut short after it deleted payloads and before it
\* deleted what refers to them (:398, :409, :420), and the clock was then set
\* back; it may refuse until the clock reads again what it did.
RestartAccepts == LoadAccepts(disk, now) \/ now < cutAt

\* With a clock that is never set back it never refuses.
LoadNeverRefuses == LoadAccepts(disk, now)

\* Once a result is committed (worker.js:630-637) its first body stays readable
\* for RESULT_TTL_MS and its receipt until a reader consumed it, whatever
\* retries, purges, crashes and other devices do; only revocation ends it sooner.
AckedResultDurable ==
  \A id \in DOMAIN accepted :
    issued[id].token \in disk.devices /\ now < accepted[id].until =>
      /\ id \in DOMAIN disk.payload
      /\ id \in DOMAIN disk.res \/ id \in taken
      /\ id \in DOMAIN disk.own => disk.own[id].done

\* Every body the relay can hand out is the first one committed for that
\* command, and it came from the device the command was enqueued for
\* (worker.js:615-619).
FirstResultWins ==
  \A id \in DOMAIN disk.payload :
    /\ id \in DOMAIN accepted
    /\ disk.payload[id].body = accepted[id].body
    /\ accepted[id].by = issued[id].token

\* A request_id enqueues one command per ownership lifetime (worker.js:531-536),
\* over crashes between commit and reply and over purges racing the retry.
RequestOnce ==
  \A i, j \in DOMAIN issued :
    /\ i # j /\ issued[i].req # None
    /\ issued[i].token = issued[j].token /\ issued[i].req = issued[j].req
    => issued[i].at + OWNER_TTL <= issued[j].at \/ issued[j].at + OWNER_TTL <= issued[i].at

\* A sequence number is above every one the device was ever given, or the
\* extension would skip the command (worker.js:541): also after the queue was
\* emptied, the object restarted or the clock set back.
SeqGrows ==
  [][\A id \in DOMAIN issued' \ DOMAIN issued, j \in DOMAIN issued :
       issued'[id].token = issued[j].token => issued'[id].seq > issued[j].seq]_vars

\* What can still be delivered can still be answered: its device owns it
\* (worker.js:546, :618).
DeliverableIsOwned ==
  \A d \in DOMAIN disk.queue : \A c \in Fresh(disk.queue[d].items, now) :
    c.id \in DOMAIN disk.own /\ disk.own[c.id].token = d

\* After removeDevice committed (worker.js:501-518) no row of the device is in
\* storage, and no operation that was waiting in the chain brings one back.
RevokedLeavesNothing ==
  /\ DOMAIN disk.queue \subseteq disk.devices
  /\ \A id \in DOMAIN disk.own : disk.own[id].token \in disk.devices
  /\ \A k \in DOMAIN disk.idem : k[1] \in disk.devices
  /\ \A k \in DOMAIN disk.tickets : disk.tickets[k].token \in disk.devices
  /\ \A id \in DOMAIN disk.payload : disk.payload[id].token \in disk.devices
  /\ \A id \in DOMAIN disk.res : issued[id].token \in disk.devices

\* Two callers that both found a receipt do not both consume it
\* (worker.js:684-689): the second is told the result is pending.
ConsumeOnce ==
  [][\A id \in Cmd : opening = None /\ opening' = id => id \notin taken]_vars

\* A result that is being streamed keeps its payload past its deadline, until
\* the reader is done (worker.js:691, :728): only revocation cuts it short.
StreamKeepsPayload ==
  \A k \in Slot :
    streams[k] # None /\ issued[streams[k]].token \in disk.devices => streams[k] \in DOMAIN disk.payload

\* A device never has two tickets that open a socket (worker.js:984-989).
OneTicketPerDevice ==
  \A k, l \in DOMAIN disk.tickets : disk.tickets[k].token = disk.tickets[l].token => k = l

\* The comment at worker.js:52-53: ownership "dies with the result".
OwnershipDiesWithResult == \A id \in DOMAIN disk.res : id \in DOMAIN disk.own

\* The chain is served in order, so the alarm's mutation gets its turn; a
\* stream has a deadline; commits return; an object the alarm wakes is loaded,
\* in the end without a crash in between.
FairSpec ==
  /\ Spec
  /\ WF_vars(Apply) /\ WF_vars(Finish)
  /\ SF_vars(alarm /\ Purge) /\ WF_vars(alarm /\ stage = "down" /\ Restart)
  /\ \A k \in Slot : WF_vars(StreamEnds(k))

\* Rows whose lifetime is over leave storage with no request to trigger it:
\* the alarm is always armed for them (worker.js:743-749).
ExpiredRowsGo ==
  \A id \in Cmd :
    /\ id \in DOMAIN disk.payload /\ disk.payload[id].expires < now ~> id \notin DOMAIN disk.payload
    /\ id \in DOMAIN disk.own /\ disk.own[id].expires < now ~> id \notin DOMAIN disk.own
-----------------------------------------------------------------------------
(* The inductive invariant of the proofs *)

\* Outside a commit memory is what storage holds, and a consumed result that is
\* about to be streamed is still there.
ChainOK ==
  /\ stage # "written" => mem = disk /\ opening = None
  /\ opening # None => opening \in DOMAIN disk.payload

\* The histories agree: results answer commands, receipts are consumed of results.
HistoryOK ==
  /\ DOMAIN accepted \subseteq DOMAIN issued
  /\ \A id \in DOMAIN accepted : accepted[id].by = issued[id].token
  /\ \A id \in DOMAIN issued : issued[id].token \in tokens
  /\ disk.devices \subseteq tokens
  /\ taken \subseteq DOMAIN accepted

\* A queued command has an owner that outlives it.
QueueOwned(s) ==
  \A d \in DOMAIN s.queue :
    /\ d \in s.devices
    /\ \A c \in s.queue[d].items :
         /\ c.id \in DOMAIN s.own
         /\ s.own[c.id].token = d
         /\ c.at + QUEUE_KEEP <= s.own[c.id].expires

OwnersIssued ==
  \A id \in DOMAIN disk.own :
    /\ disk.own[id].token \in disk.devices
    /\ id \in DOMAIN issued
    /\ disk.own[id].token = issued[id].token
    /\ id \in DOMAIN accepted => disk.own[id].done

RequestsIssued ==
  \A k \in DOMAIN disk.idem :
    /\ k[1] \in disk.devices
    /\ disk.idem[k].cmd \in DOMAIN issued
    /\ issued[disk.idem[k].cmd].token = k[1]

\* A device's queue remembers the last sequence number it was ever given.
LastKept ==
  \A id \in DOMAIN issued :
    issued[id].token \in disk.devices =>
      /\ issued[id].token \in DOMAIN disk.queue
      /\ issued[id].seq <= disk.queue[issued[id].token].last

TicketsOwned == \A k \in DOMAIN disk.tickets : disk.tickets[k].token \in disk.devices

PayloadsAccepted ==
  \A id \in DOMAIN disk.payload :
    /\ id \in DOMAIN accepted
    /\ disk.payload[id].body = accepted[id].body
    /\ disk.payload[id].token = issued[id].token
    /\ disk.payload[id].token \in disk.devices

\* A receipt has its payload, which outlives it, and was not consumed before.
Backed(s, id) == id \in DOMAIN s.payload /\ s.res[id] <= s.payload[id].expires

ReceiptsBacked(s) == \A id \in DOMAIN s.res : Backed(s, id)

\* A load cut short may have left the receipts that it was to delete too.
Overdue(s, id) ==
  /\ id \notin DOMAIN s.payload /\ s.res[id] <= cutAt
  /\ id \in DOMAIN issued /\ issued[id].token \in s.devices

ReceiptsCut(s) == \A id \in DOMAIN s.res : Backed(s, id) \/ Overdue(s, id)

ReceiptsOK == IF stage = "down" THEN ReceiptsCut(disk) ELSE ReceiptsBacked(disk)

ReceiptsFresh == DOMAIN disk.res \cap taken = {}

StreamsIssued ==
  \A k \in Slot : streams[k] # None =>
    /\ streams[k] \in DOMAIN issued
    /\ issued[streams[k]].token \in disk.devices => streams[k] \in DOMAIN disk.payload

\* Everything that is stored belongs to a registered device and to the history:
\* none of the safety properties is inductive without the others.
Consistent ==
  /\ ChainOK /\ HistoryOK
  /\ QueueOwned(disk) /\ OwnersIssued /\ RequestsIssued /\ LastKept
  /\ TicketsOwned /\ OneTicketPerDevice
  /\ PayloadsAccepted /\ ReceiptsOK /\ ReceiptsFresh /\ StreamsIssued

\* With a clock that is never set back: a result and its receipt outlive what
\* they promise,
ResultsLast ==
  \A id \in DOMAIN accepted :
    issued[id].token \in disk.devices /\ now < accepted[id].until =>
      /\ id \in DOMAIN disk.payload
      /\ disk.payload[id].expires >= accepted[id].until
      /\ \/ id \in taken
         \/ id \in DOMAIN disk.res /\ disk.res[id] >= accepted[id].until

\* and a request_id is remembered for a lifetime after its command was issued.
RequestsLast ==
  \A id \in DOMAIN issued :
    /\ issued[id].req # None
    /\ issued[id].token \in disk.devices
    /\ now < issued[id].at + OWNER_TTL
    => /\ <<issued[id].token, issued[id].req>> \in DOMAIN disk.idem
       /\ disk.idem[<<issued[id].token, issued[id].req>>].expires >= issued[id].at + OWNER_TTL

Timely ==
  /\ ResultsLast /\ RequestsLast /\ RequestOnce
  /\ \A id \in DOMAIN issued : issued[id].at <= now
=============================================================================
