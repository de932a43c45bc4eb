------------------------------ MODULE RelayStore ------------------------------
(***************************************************************************)
(* The rows the relay's Durable Object keeps, and what each operation of   *)
(* BridgeHub (src/relay/worker.js) makes of them.  The same record stands  *)
(* for the rows in storage and for the Maps in memory.                     *)
(*                                                                         *)
(* A Map of the source is a function whose DOMAIN is the set of its keys.  *)
(* Commands, tokens, codes and tickets are atoms; a result body is an atom *)
(* with a size; byte caps of the queues and of the request table are       *)
(* folded into their count caps, which refuse in the same place.           *)
(***************************************************************************)
EXTENDS Naturals, FiniteSets, Functions

CONSTANTS
  Device,       \* device tokens, each handed out by at most one registration
  Cmd,          \* command ids ("cmd_" + 16 random hex digits)
  Request,      \* request_id values a driver may attach to a command
  Code,         \* pairing codes
  Ticket,       \* WebSocket tickets
  Body,         \* result bodies a device may submit
  Size,         \* bytes of each stored body
  Failure,      \* the small record stored in place of a body that does not fit
  None,         \* no request, no result, no command
  QUEUE_KEEP, RESULT_TTL, PAIR_TTL, TICKET_TTL,
  QUEUE_MAX, OWNER_MAX, IDEM_MAX, RESULT_MAX, DEVICE_MAX, PAIR_MAX, TICKET_MAX,
  MAX_RESULT_BYTES, RESULT_TOTAL_BYTES

\* The queue keeps a command for less time than the relay remembers who owns
\* it (worker.js:50, :54).
ASSUME LifetimeAssumption ==
  /\ QUEUE_KEEP \in Nat /\ RESULT_TTL \in Nat
  /\ PAIR_TTL \in Nat /\ TICKET_TTL \in Nat
  /\ QUEUE_KEEP <= RESULT_TTL

ASSUME CapAssumption ==
  /\ QUEUE_MAX \in Nat /\ OWNER_MAX \in Nat /\ IDEM_MAX \in Nat
  /\ RESULT_MAX \in Nat /\ DEVICE_MAX \in Nat /\ PAIR_MAX \in Nat
  /\ TICKET_MAX \in Nat /\ MAX_RESULT_BYTES \in Nat /\ RESULT_TOTAL_BYTES \in Nat

ASSUME AtomAssumption ==
  /\ None \notin Cmd /\ None \notin Request /\ None \notin Device
  /\ None \notin Body \cup {Failure}
  /\ Size \in [Body \cup {Failure} -> Nat]

OWNER_TTL == RESULT_TTL

Content == Body \cup {Failure}
ReqKey == Device \X Request

-----------------------------------------------------------------------------
(* Maps *)

IsMap(m, K, V) == DOMAIN m \subseteq K /\ m \in [DOMAIN m -> V]
EmptyMap == [k \in {} |-> 0]
Put(m, k, v) == [x \in DOMAIN m \cup {k} |-> IF x = k THEN v ELSE m[x]]
Drop(m, K) == Restrict(m, DOMAIN m \ K)

Entry == [id : Cmd, seq : Nat, at : Nat]
Queue == [last : Nat, items : SUBSET Entry]
Owner == [token : Device, expires : Nat, done : BOOLEAN, consumed : BOOLEAN]
IdemEntry == [cmd : Cmd, expires : Nat, resultId : Cmd \cup {None}]
Payload == [body : Content, expires : Nat, token : Device]
TicketEntry == [token : Device, expires : Nat]

Rows == {"devices", "pairs", "tickets", "queue", "own", "idem", "res", "payload"}

IsStore(s) ==
  /\ DOMAIN s = Rows
  /\ s.devices \subseteq Device
  /\ IsMap(s.pairs, Code, Nat)
  /\ IsMap(s.tickets, Ticket, TicketEntry)
  /\ IsMap(s.queue, Device, Queue)
  /\ IsMap(s.own, Cmd, Owner)
  /\ IsMap(s.idem, ReqKey, IdemEntry)
  /\ IsMap(s.res, Cmd, Nat)
  /\ IsMap(s.payload, Cmd, Payload)

\* A relay that has just imported the devices of the old KV namespace.
Imported(D) ==
  [devices |-> D, pairs |-> EmptyMap, tickets |-> EmptyMap, queue |-> EmptyMap,
   own |-> EmptyMap, idem |-> EmptyMap, res |-> EmptyMap, payload |-> EmptyMap]

\* The bytes that the bodies of ids take, each a command and a place in its body.
bytesOf(s, ids) == UNION {{id} \X (1 .. Size[s.payload[id].body]) : id \in ids}

payloadBytes(s) == Cardinality(bytesOf(s, DOMAIN s.payload))

-----------------------------------------------------------------------------
(* Expiry *)

Fresh(items, t) == {c \in items : t < c.at + QUEUE_KEEP}

\* Slip: ownership is swept as soon as the command is answered.
Slip_ownersGone_done(s, t) == {id \in DOMAIN s.own : s.own[id].done \/ s.own[id].expires <= t}

ownersGone(s, t) ==
  {id \in DOMAIN s.own : s.own[id].token \notin s.devices \/ s.own[id].expires <= t}

idemGone(s, t) == {k \in DOMAIN s.idem : k[1] \notin s.devices \/ s.idem[k].expires <= t}

resultsGone(s, t, pinned) == {id \in DOMAIN s.res : s.res[id] <= t /\ id \notin pinned}

\* Slip: the sweep forgets that a stream may still read the payload.
Slip_payloadsGone_unpinned(s, t, pinned) ==
  {id \in DOMAIN s.payload : s.payload[id].token \notin s.devices \/ s.payload[id].expires <= t}

\* A result being read outlives its deadline until the reader is done, but a
\* removed device's payload goes even then.
payloadsGone(s, t, pinned) ==
  {id \in DOMAIN s.payload : \/ s.payload[id].token \notin s.devices
                             \/ s.payload[id].expires <= t /\ id \notin pinned}

ticketsGone(s, t) ==
  {k \in DOMAIN s.tickets : s.tickets[k].token \notin s.devices \/ s.tickets[k].expires <= t}

pairsGone(s, t) == {c \in DOMAIN s.pairs : s.pairs[c] <= t}

Purged(s, t, pinned) ==
  [s EXCEPT !.own     = Drop(@, ownersGone(s, t)),
            !.idem    = Drop(@, idemGone(s, t)),
            !.res     = Drop(@, resultsGone(s, t, pinned)),
            !.payload = Drop(@, payloadsGone(s, t, pinned)),
            !.tickets = Drop(@, ticketsGone(s, t)),
            !.pairs   = Drop(@, pairsGone(s, t)),
            !.queue   = [d \in DOMAIN s.queue |->
                           [last |-> s.queue[d].last, items |-> Fresh(s.queue[d].items, t)]]]

\* Slip: payloads do not count as a reason to wake up.
Slip_Expiring_noPayload(s) ==
  \/ DOMAIN s.own # {} \/ DOMAIN s.idem # {} \/ DOMAIN s.res # {}
  \/ DOMAIN s.tickets # {} \/ DOMAIN s.pairs # {}
  \/ \E d \in DOMAIN s.queue : s.queue[d].items # {}

\* Anything whose lifetime will end: the cleanup alarm is re-armed for it.
Expiring(s) ==
  \/ DOMAIN s.own # {} \/ DOMAIN s.idem # {} \/ DOMAIN s.res # {}
  \/ DOMAIN s.payload # {} \/ DOMAIN s.tickets # {} \/ DOMAIN s.pairs # {}
  \/ \E d \in DOMAIN s.queue : s.queue[d].items # {}
-----------------------------------------------------------------------------
(* Pairing and tickets *)

PairAdded(s, code, t) == [s EXCEPT !.pairs = Put(@, code, t + PAIR_TTL)]

CanRegister(s, code, t) ==
  /\ code \in DOMAIN s.pairs
  /\ s.pairs[code] > t
  /\ Cardinality(s.devices) < DEVICE_MAX

Registered(s, code, d) ==
  [s EXCEPT !.pairs = Drop(@, {code}), !.devices = @ \cup {d}]

TicketsOf(s, d) == {k \in DOMAIN s.tickets : s.tickets[k].token = d}

CanIssueTicket(s, d) ==
  /\ d \in s.devices
  /\ Cardinality(DOMAIN s.tickets \ TicketsOf(s, d)) < TICKET_MAX

\* Slip: the earlier ticket stays.
Slip_TicketIssued_keepsPrior(s, k, d, t) ==
  [s EXCEPT !.tickets = Put(@, k, [token |-> d, expires |-> t + TICKET_TTL])]

\* A device holds one ticket: a new one replaces the last.
TicketIssued(s, k, d, t) ==
  [s EXCEPT !.tickets = Put(Drop(@, TicketsOf(s, d)), k, [token |-> d, expires |-> t + TICKET_TTL])]

CanUseTicket(s, k, t) ==
  k \in DOMAIN s.tickets /\ s.tickets[k].expires > t /\ s.tickets[k].token \in s.devices

TicketUsed(s, k) == [s EXCEPT !.tickets = Drop(@, {k})]

RequestsOf(s, d) == {k \in DOMAIN s.idem : k[1] = d}

\* Revocation: every row of the device goes in the commit that forgets it.
RowsOf(s, d) ==
  {id \in DOMAIN s.own : s.own[id].token = d}
    \cup {s.idem[k].cmd : k \in RequestsOf(s, d)}
    \cup {id \in DOMAIN s.payload : s.payload[id].token = d}

DeviceRemoved(s, d) ==
  LET ids == RowsOf(s, d)
  IN  [s EXCEPT !.devices = @ \ {d},
                !.queue   = Drop(@, {d}),
                !.idem    = Drop(@, RequestsOf(s, d)),
                !.tickets = Drop(@, TicketsOf(s, d)),
                !.own     = Drop(@, ids),
                !.res     = Drop(@, ids),
                !.payload = Drop(@, ids)]

-----------------------------------------------------------------------------
(* Commands *)

QueueOf(s, d) == IF d \in DOMAIN s.queue THEN s.queue[d] ELSE [last |-> 0, items |-> {}]
pending(s, d, t) == Fresh(QueueOf(s, d).items, t)

\* A repeated request_id finds the command it was first given.
PriorRequest(s, d, req) == req # None /\ <<d, req>> \in DOMAIN s.idem

\* Slip: the device was resolved before the chain and is not looked up again.
Slip_CanEnqueue_stale(s, d, req, t) ==
  /\ ~PriorRequest(s, d, req)
  /\ Cardinality(pending(s, d, t)) < QUEUE_MAX
  /\ Cardinality(DOMAIN s.own) < OWNER_MAX
  /\ req # None => Cardinality(DOMAIN s.idem) < IDEM_MAX

\* Slip: a repeated request_id is enqueued again.
Slip_CanEnqueue_repeat(s, d, req, t) ==
  /\ d \in s.devices
  /\ Cardinality(pending(s, d, t)) < QUEUE_MAX
  /\ Cardinality(DOMAIN s.own) < OWNER_MAX

CanEnqueue(s, d, req, t) ==
  /\ d \in s.devices
  /\ ~PriorRequest(s, d, req)
  /\ Cardinality(pending(s, d, t)) < QUEUE_MAX
  /\ Cardinality(DOMAIN s.own) < OWNER_MAX
  /\ req # None => Cardinality(DOMAIN s.idem) < IDEM_MAX

nextSeq(s, d, t) == LET after == QueueOf(s, d).last + 1 IN IF t > after THEN t ELSE after

Enqueued(s, d, req, id, t) ==
  LET seq == nextSeq(s, d, t)
      cmd == [id |-> id, seq |-> seq, at |-> t]
  IN  [s EXCEPT
         !.queue = Put(@, d, [last |-> seq, items |-> pending(s, d, t) \cup {cmd}]),
         !.own   = Put(@, id, [token |-> d, expires |-> t + OWNER_TTL,
                               done |-> FALSE, consumed |-> FALSE]),
         !.idem  = IF req = None THEN @
                   ELSE Put(@, <<d, req>>, [cmd |-> id, expires |-> t + OWNER_TTL, resultId |-> None])]

\* An acknowledgement is cumulative; the last sequence number stays.
CanAck(s, d, seq) ==
  d \in s.devices /\ d \in DOMAIN s.queue /\ \E c \in s.queue[d].items : c.seq <= seq

\* Slip: a queue that becomes empty forgets its last sequence number.
Slip_Acked_resets(s, d, seq) ==
  LET left == {c \in s.queue[d].items : c.seq > seq}
  IN  [s EXCEPT !.queue = Put(@, d, [last |-> IF left = {} THEN 0 ELSE s.queue[d].last, items |-> left])]

Acked(s, d, seq) ==
  LET q == s.queue[d]
  IN  [s EXCEPT !.queue = Put(@, d, [last |-> q.last, items |-> {c \in q.items : c.seq > seq}])]

\* The destructive poll of old extensions takes the oldest command.
Oldest(items) == CHOOSE c \in items : \A o \in items : c.seq <= o.seq

CanLegacyPoll(s, d, t) == d \in s.devices /\ pending(s, d, t) # {}

LegacyPolled(s, d, t) ==
  LET live == pending(s, d, t)
  IN  [s EXCEPT !.queue = Put(@, d, [last |-> s.queue[d].last, items |-> live \ {Oldest(live)}])]

-----------------------------------------------------------------------------
(* Results *)

\* The record that is stored: a body beyond the size limit, or beyond the room
\* left, is replaced by a small failure record.
stored(s, body) ==
  IF Size[body] > MAX_RESULT_BYTES \/ payloadBytes(s) + Size[body] > RESULT_TOTAL_BYTES
  THEN Failure ELSE body

CanAccept(s, d, id, body) ==
  /\ d \in s.devices
  /\ id \in DOMAIN s.own
  /\ s.own[id].token = d
  /\ ~s.own[id].done
  /\ Cardinality(DOMAIN s.payload) < RESULT_MAX
  /\ payloadBytes(s) + Size[stored(s, body)] <= RESULT_TOTAL_BYTES

\* idemByCmd: the request a command answers.
hasKey(s, id) == \E k \in DOMAIN s.idem : s.idem[k].cmd = id
keyOf(s, id) == CHOOSE k \in DOMAIN s.idem : s.idem[k].cmd = id

\* Slip: the payload lives as long as the ownership it answers.
Slip_Accepted_ownerDeadline(s, id, body, t) ==
  LET owner == s.own[id]
  IN  [s EXCEPT
         !.payload = Put(@, id, [body |-> stored(s, body), expires |-> owner.expires, token |-> owner.token]),
         !.res     = Put(@, id, t + RESULT_TTL),
         !.own     = Put(@, id, [owner EXCEPT !.done = TRUE]),
         !.idem    = IF hasKey(s, id)
                     THEN Put(@, keyOf(s, id), [s.idem[keyOf(s, id)] EXCEPT !.resultId = id])
                     ELSE @]

\* Slip: the payload lives as long as the receipt, whatever replay refers to it.
Slip_Accepted_receiptDeadline(s, id, body, t) ==
  LET owner == s.own[id]
  IN  [s EXCEPT
         !.payload = Put(@, id, [body |-> stored(s, body), expires |-> t + RESULT_TTL, token |-> owner.token]),
         !.res     = Put(@, id, t + RESULT_TTL),
         !.own     = Put(@, id, [owner EXCEPT !.done = TRUE]),
         !.idem    = IF hasKey(s, id)
                     THEN Put(@, keyOf(s, id), [s.idem[keyOf(s, id)] EXCEPT !.resultId = id])
                     ELSE @]

\* One transaction: payload, receipt, done ownership and the replay reference.
\* The payload lives as long as the longer of receipt and replay.
Accepted(s, id, body, t) ==
  LET primary == t + RESULT_TTL
      keep    == IF hasKey(s, id) /\ s.idem[keyOf(s, id)].expires > primary
                 THEN s.idem[keyOf(s, id)].expires ELSE primary
      owner   == s.own[id]
  IN  [s EXCEPT
         !.payload = Put(@, id, [body |-> stored(s, body), expires |-> keep, token |-> owner.token]),
         !.res     = Put(@, id, primary),
         !.own     = Put(@, id, [owner EXCEPT !.done = TRUE]),
         !.idem    = IF hasKey(s, id)
                     THEN Put(@, keyOf(s, id), [s.idem[keyOf(s, id)] EXCEPT !.resultId = id])
                     ELSE @]

\* Slip: the receipt is not looked up again inside the chain.
Slip_Readable_stale(s, id, consume, t) == id \in DOMAIN s.payload /\ s.payload[id].expires >= t

\* A reader is answered from the payload; the primary reader also needs the receipt.
Readable(s, id, consume, t) ==
  /\ id \in DOMAIN s.payload
  /\ s.payload[id].expires >= t
  /\ consume => id \in DOMAIN s.res

\* Slip: the spread of an owner that is already gone is written back.
Slip_Consumed_noOwner(s, id) ==
  [s EXCEPT !.res = Drop(@, {id}),
            !.own = Put(@, id, IF id \in DOMAIN @ THEN [s.own[id] EXCEPT !.consumed = TRUE]
                               ELSE [consumed |-> TRUE])]

Consumed(s, id) ==
  [s EXCEPT !.res = Drop(@, {id}),
            !.own = IF id \in DOMAIN @ THEN Put(@, id, [s.own[id] EXCEPT !.consumed = TRUE]) ELSE @]

-----------------------------------------------------------------------------
(* Restart *)

\* load() refuses to serve when a cap is exceeded or a receipt has no payload.
LoadAccepts(s, t) ==
  LET live   == {id \in DOMAIN s.payload : s.payload[id].expires > t /\ s.payload[id].token \in s.devices}
      owners == {id \in DOMAIN s.own : s.own[id].expires > t /\ s.own[id].token \in s.devices}
      keys   == {k \in DOMAIN s.idem : s.idem[k].expires > t /\ k[1] \in s.devices}
      ticks  == {k \in DOMAIN s.tickets : s.tickets[k].expires > t /\ s.tickets[k].token \in s.devices}
  IN  /\ Cardinality(s.devices) <= DEVICE_MAX
      /\ Cardinality({c \in DOMAIN s.pairs : s.pairs[c] > t}) <= PAIR_MAX
      /\ \A d \in DOMAIN s.queue \cap s.devices : Cardinality(Fresh(s.queue[d].items, t)) <= QUEUE_MAX
      /\ Cardinality(owners) <= OWNER_MAX
      /\ Cardinality(live) <= RESULT_MAX
      /\ Cardinality(bytesOf(s, live)) <= RESULT_TOTAL_BYTES
      /\ \A id \in DOMAIN s.res : s.res[id] > t => id \in live
      /\ Cardinality(keys) <= IDEM_MAX
      /\ \A k \in keys : s.idem[k].resultId # None => s.idem[k].resultId \in live
      /\ Cardinality(ticks) <= TICKET_MAX

\* A queued command without ownership (an older schema) is given it.
Adopted(s) ==
  LET items == UNION {s.queue[d].items : d \in DOMAIN s.queue}
      lone  == {c.id : c \in items} \ DOMAIN s.own
      cmdOf(id) == CHOOSE c \in items : c.id = id
      devOf(id) == CHOOSE d \in DOMAIN s.queue : cmdOf(id) \in s.queue[d].items
  IN  [s EXCEPT !.own = [id \in DOMAIN @ \cup lone |->
         IF id \in DOMAIN s.own THEN s.own[id]
         ELSE [token |-> devOf(id), expires |-> cmdOf(id).at + OWNER_TTL,
               done |-> id \in DOMAIN s.payload, consumed |-> FALSE]]]

\* Queues of unknown devices are dropped, expired rows too, and what is left
\* is purged once more after adoption.
Loaded(s, t) ==
  LET known == [s EXCEPT !.queue = Restrict(@, DOMAIN @ \cap s.devices)]
  IN  Purged(Adopted(Purged(known, t, {})), t, {})

\* The tables in the order in which load() writes to them.
LoadOrder == <<"pairs", "queue", "payload", "res", "idem", "tickets", "own">>

\* What a load cut short may leave of the rows it deletes or rewrites in a table.
PartLeft(old, new) ==
  LET changing == {k \in DOMAIN old : k \in DOMAIN new => new[k] # old[k]}
  IN  SUBSET changing \ {changing}

\* A load of s, which would make it l, cut short in table n: earlier tables are
\* done, later ones as they were, and in this one the rows K still are.
CutShort(s, l, n, K) ==
  LET half(old, new) == [k \in DOMAIN new \cup K |-> IF k \in K THEN old[k] ELSE new[k]]
  IN  [x \in Rows |-> IF x = LoadOrder[n] THEN half(s[x], l[x])
                      ELSE IF \E i \in 1 .. n - 1 : x = LoadOrder[i] THEN l[x]
                      ELSE s[x]]
=============================================================================
