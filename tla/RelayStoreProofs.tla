--------------------------- MODULE RelayStoreProofs ---------------------------
(***************************************************************************)
(* What each operation of RelayStore makes of a well-formed store, one     *)
(* lemma per operation: the result is well-formed and these of its rows    *)
(* changed.  RelayHubProofs cites them instead of the definitions.         *)
(***************************************************************************)
EXTENDS RelayStore, TLAPS

(* Maps *)

\* Put changes one key and keeps the others (Map.set in worker.js).
LEMMA PutMap ==
  ASSUME NEW m, NEW k, NEW v
  PROVE  /\ DOMAIN Put(m, k, v) = DOMAIN m \cup {k}
         /\ Put(m, k, v)[k] = v
         /\ \A x \in DOMAIN m : x # k => Put(m, k, v)[x] = m[x]
BY DEF Put

\* Put keeps a map's type.
LEMMA PutType ==
  ASSUME NEW K, NEW V, NEW m, IsMap(m, K, V), NEW k \in K, NEW v \in V
  PROVE  IsMap(Put(m, k, v), K, V)
BY DEF Put, IsMap

\* Drop removes keys and keeps the others (Map.delete in worker.js).
LEMMA DropMap ==
  ASSUME NEW m, NEW K
  PROVE  /\ DOMAIN Drop(m, K) = DOMAIN m \ K
         /\ \A x \in DOMAIN m \ K : Drop(m, K)[x] = m[x]
BY DEF Drop, Restrict

\* Drop keeps a map's type.
LEMMA DropType ==
  ASSUME NEW K, NEW V, NEW m, IsMap(m, K, V), NEW D
  PROVE  IsMap(Drop(m, D), K, V)
BY DEF Drop, Restrict, IsMap

\* An empty map has every type.
LEMMA EmptyMapType ==
  ASSUME NEW K, NEW V
  PROVE  IsMap(EmptyMap, K, V)
BY DEF EmptyMap, IsMap

-----------------------------------------------------------------------------
(* One lemma per operation *)

\* A freshly migrated relay is a store (worker.js:462-481).
LEMMA ImportedStore ==
  ASSUME NEW D, D \subseteq Device
  PROVE  IsStore(Imported(D))
BY EmptyMapType DEF IsStore, Imported, Rows

\* purgeExpired keeps the devices and drops exactly the rows that are gone.
LEMMA PurgedRows ==
  ASSUME NEW s, IsStore(s), NEW t, NEW pin
  PROVE  LET p == Purged(s, t, pin)
         IN  /\ IsStore(p)
             /\ p.devices = s.devices
             /\ p.own = Drop(s.own, ownersGone(s, t))
             /\ p.idem = Drop(s.idem, idemGone(s, t))
             /\ p.res = Drop(s.res, resultsGone(s, t, pin))
             /\ p.payload = Drop(s.payload, payloadsGone(s, t, pin))
             /\ p.tickets = Drop(s.tickets, ticketsGone(s, t))
             /\ p.pairs = Drop(s.pairs, pairsGone(s, t))
             /\ DOMAIN p.queue = DOMAIN s.queue
             /\ \A d \in DOMAIN s.queue :
                  p.queue[d] = [last |-> s.queue[d].last, items |-> Fresh(s.queue[d].items, t)]
<1> DEFINE p == Purged(s, t, pin)
<1>1. /\ DOMAIN p = Rows
      /\ p.devices = s.devices
      /\ p.own = Drop(s.own, ownersGone(s, t))
      /\ p.idem = Drop(s.idem, idemGone(s, t))
      /\ p.res = Drop(s.res, resultsGone(s, t, pin))
      /\ p.payload = Drop(s.payload, payloadsGone(s, t, pin))
      /\ p.tickets = Drop(s.tickets, ticketsGone(s, t))
      /\ p.pairs = Drop(s.pairs, pairsGone(s, t))
      /\ p.queue = [d \in DOMAIN s.queue |->
                     [last |-> s.queue[d].last, items |-> Fresh(s.queue[d].items, t)]]
  BY DEF Purged, IsStore, Rows
<1>2. IsMap(p.queue, Device, Queue)
  BY <1>1 DEF IsStore, IsMap, Queue, Fresh
<1>3. IsStore(p)
  BY <1>1, <1>2, DropType DEF IsStore
<1> QED
  BY <1>1, <1>3

\* A pairing code adds one row (worker.js:1003-1005).
LEMMA PairAddedRows ==
  ASSUME NEW s, IsStore(s), NEW code \in Code, NEW t \in Nat
  PROVE  LET p == PairAdded(s, code, t)
         IN  /\ IsStore(p)
             /\ p = [s EXCEPT !.pairs = p.pairs]
<1>1. t + PAIR_TTL \in Nat
  BY LifetimeAssumption
<1>2. IsMap(Put(s.pairs, code, t + PAIR_TTL), Code, Nat)
  BY <1>1, PutType DEF IsStore
<1> QED
  BY <1>2 DEF PairAdded, IsStore, Rows

\* Registration adds one device and drops its code (worker.js:1103-1108).
LEMMA RegisteredRows ==
  ASSUME NEW s, IsStore(s), NEW code \in Code, NEW d \in Device
  PROVE  LET p == Registered(s, code, d)
         IN  /\ IsStore(p)
             /\ p.devices = s.devices \cup {d}
             /\ p = [s EXCEPT !.devices = p.devices, !.pairs = p.pairs]
<1>1. IsMap(Drop(s.pairs, {code}), Code, Nat)
  BY DropType DEF IsStore
<1> QED
  BY <1>1 DEF Registered, IsStore, Rows

\* A new ticket replaces those of its device (worker.js:984-989).
LEMMA TicketIssuedRows ==
  ASSUME NEW s, IsStore(s), NEW k \in Ticket, NEW d \in Device, NEW t \in Nat
  PROVE  LET p == TicketIssued(s, k, d, t)
         IN  /\ IsStore(p)
             /\ p = [s EXCEPT !.tickets = p.tickets]
             /\ DOMAIN p.tickets = (DOMAIN s.tickets \ TicketsOf(s, d)) \cup {k}
             /\ p.tickets[k].token = d
             /\ \A l \in DOMAIN s.tickets \ TicketsOf(s, d) : l # k => p.tickets[l] = s.tickets[l]
<1> DEFINE e == [token |-> d, expires |-> t + TICKET_TTL]
           old == Drop(s.tickets, TicketsOf(s, d))
           new == Put(old, k, e)
<1>1. e \in TicketEntry
  BY LifetimeAssumption DEF TicketEntry
<1>2. IsMap(old, Ticket, TicketEntry)
  BY DropType DEF IsStore
<1>3. IsMap(new, Ticket, TicketEntry)
  BY <1>1, <1>2, PutType
<1>4. TicketIssued(s, k, d, t) = [s EXCEPT !.tickets = new]
  BY DEF TicketIssued
<1>5. /\ DOMAIN new = (DOMAIN s.tickets \ TicketsOf(s, d)) \cup {k}
      /\ new[k].token = d
      /\ \A l \in DOMAIN s.tickets \ TicketsOf(s, d) : l # k => new[l] = s.tickets[l]
  <2>1. DOMAIN old = DOMAIN s.tickets \ TicketsOf(s, d)
    BY DropMap
  <2>2. \A l \in DOMAIN s.tickets \ TicketsOf(s, d) : old[l] = s.tickets[l]
    BY DropMap
  <2>3. e.token = d
    OBVIOUS
  <2> HIDE DEF old, e
  <2>4. DOMAIN new = DOMAIN old \cup {k} /\ new[k] = e
    BY DEF Put
  <2>5. \A l \in DOMAIN old : l # k => new[l] = old[l]
    BY DEF Put
  <2> QED
    BY <2>1, <2>2, <2>3, <2>4, <2>5
<1> HIDE DEF new
<1> QED
  BY <1>3, <1>4, <1>5 DEF IsStore, Rows

\* Using a ticket removes it (worker.js:932).
LEMMA TicketUsedRows ==
  ASSUME NEW s, IsStore(s), NEW k
  PROVE  LET p == TicketUsed(s, k)
         IN  /\ IsStore(p)
             /\ p = [s EXCEPT !.tickets = Drop(s.tickets, {k})]
<1>1. IsMap(Drop(s.tickets, {k}), Ticket, TicketEntry)
  BY DropType DEF IsStore
<1> QED
  BY <1>1 DEF TicketUsed, IsStore, Rows

\* Revocation removes the device and its rows, and nothing else
\* (worker.js:501-518).
LEMMA DeviceRemovedRows ==
  ASSUME NEW s, IsStore(s), NEW d, NEW p, p = DeviceRemoved(s, d)
  PROVE  /\ IsStore(p)
         /\ p.devices = s.devices \ {d}
         /\ p.queue = Drop(s.queue, {d})
         /\ p.idem = Drop(s.idem, RequestsOf(s, d))
         /\ p.tickets = Drop(s.tickets, TicketsOf(s, d))
         /\ p.own = Drop(s.own, RowsOf(s, d))
         /\ p.res = Drop(s.res, RowsOf(s, d))
         /\ p.payload = Drop(s.payload, RowsOf(s, d))
<1>1. /\ DOMAIN p = Rows
      /\ p.devices = s.devices \ {d}
      /\ p.queue = Drop(s.queue, {d})
      /\ p.idem = Drop(s.idem, RequestsOf(s, d))
      /\ p.tickets = Drop(s.tickets, TicketsOf(s, d))
      /\ p.own = Drop(s.own, RowsOf(s, d))
      /\ p.res = Drop(s.res, RowsOf(s, d))
      /\ p.payload = Drop(s.payload, RowsOf(s, d))
      /\ p.pairs = s.pairs
  BY DEF DeviceRemoved, IsStore, Rows
<1>2. IsStore(p)
  BY <1>1, DropType DEF IsStore
<1> QED
  BY <1>1, <1>2

-----------------------------------------------------------------------------
(* Commands *)

\* A device's queue, or the empty one, is a queue.
LEMMA QueueOfType ==
  ASSUME NEW s, IsStore(s), NEW d
  PROVE  QueueOf(s, d) \in Queue
BY DEF QueueOf, IsStore, IsMap, Queue

\* A new sequence number is above the device's last (worker.js:540).
LEMMA NextSeqGrows ==
  ASSUME NEW s, IsStore(s), NEW d, NEW t \in Nat
  PROVE  nextSeq(s, d, t) \in Nat /\ nextSeq(s, d, t) > QueueOf(s, d).last
BY QueueOfType DEF nextSeq, Queue

\* Enqueueing writes one queue, one owner and at most one request
\* (worker.js:538-550).
LEMMA EnqueuedRows ==
  ASSUME NEW s, IsStore(s), NEW d \in Device, NEW req \in Request \cup {None},
         NEW id \in Cmd, NEW t \in Nat
  PROVE  LET p   == Enqueued(s, d, req, id, t)
             seq == nextSeq(s, d, t)
         IN  /\ IsStore(p)
             /\ p = [s EXCEPT !.queue = p.queue, !.own = p.own, !.idem = p.idem]
             /\ p.queue = Put(s.queue, d, [last |-> seq,
                            items |-> pending(s, d, t) \cup {[id |-> id, seq |-> seq, at |-> t]}])
             /\ p.own = Put(s.own, id, [token |-> d, expires |-> t + OWNER_TTL,
                                        done |-> FALSE, consumed |-> FALSE])
             /\ req = None => p.idem = s.idem
             /\ req # None => p.idem = Put(s.idem, <<d, req>>,
                                 [cmd |-> id, expires |-> t + OWNER_TTL, resultId |-> None])
<1> DEFINE p   == Enqueued(s, d, req, id, t)
           seq == nextSeq(s, d, t)
           q   == [last |-> seq, items |-> pending(s, d, t) \cup {[id |-> id, seq |-> seq, at |-> t]}]
           own == [token |-> d, expires |-> t + OWNER_TTL, done |-> FALSE, consumed |-> FALSE]
           e   == [cmd |-> id, expires |-> t + OWNER_TTL, resultId |-> None]
           idem == IF req = None THEN s.idem ELSE Put(s.idem, <<d, req>>, e)
<1>1. seq \in Nat /\ t + OWNER_TTL \in Nat
  BY NextSeqGrows, LifetimeAssumption DEF OWNER_TTL
<1> HIDE DEF seq
<1>2. q \in Queue
  BY <1>1, QueueOfType DEF Queue, Entry, pending, Fresh
<1>3. own \in Owner /\ e \in IdemEntry
  BY <1>1 DEF Owner, IdemEntry
<1>4. IsMap(Put(s.queue, d, q), Device, Queue)
  BY <1>2, PutType DEF IsStore
<1>5. IsMap(Put(s.own, id, own), Cmd, Owner)
  BY <1>3, PutType DEF IsStore
<1>6. IsMap(idem, ReqKey, IdemEntry)
  <2>1. CASE req = None
    BY <2>1 DEF IsStore
  <2>2. CASE req # None
    <3>1. <<d, req>> \in ReqKey
      BY <2>2 DEF ReqKey
    <3> QED
      BY <2>2, <3>1, <1>3, PutType DEF IsStore
  <2> QED
    BY <2>1, <2>2
<1>7. p = [s EXCEPT !.queue = Put(s.queue, d, q), !.own = Put(s.own, id, own), !.idem = idem]
  BY DEF Enqueued, seq, IsStore, Rows
<1> HIDE DEF q, own, e, idem
<1>8. /\ p.queue = Put(s.queue, d, q) /\ p.own = Put(s.own, id, own) /\ p.idem = idem
      /\ IsStore(p)
      /\ p = [s EXCEPT !.queue = p.queue, !.own = p.own, !.idem = p.idem]
  BY <1>4, <1>5, <1>6, <1>7 DEF IsStore, Rows
<1> QED
  BY <1>8 DEF q, own, e, idem, seq

\* An acknowledgement only takes commands out of one queue (worker.js:563-568).
LEMMA AckedRows ==
  ASSUME NEW s, IsStore(s), NEW d \in DOMAIN s.queue, NEW seq
  PROVE  LET p == Acked(s, d, seq)
         IN  /\ IsStore(p)
             /\ p = [s EXCEPT !.queue = p.queue]
             /\ p.queue = Put(s.queue, d, [last |-> s.queue[d].last,
                                           items |-> {c \in s.queue[d].items : c.seq > seq}])
<1> DEFINE q == [last |-> s.queue[d].last, items |-> {c \in s.queue[d].items : c.seq > seq}]
<1>1. q \in Queue /\ d \in Device
  BY DEF IsStore, IsMap, Queue
<1>2. IsMap(Put(s.queue, d, q), Device, Queue)
  BY <1>1, PutType DEF IsStore
<1> QED
  BY <1>2 DEF Acked, IsStore, Rows

\* A legacy poll only takes commands out of one queue (worker.js:579-581).
LEMMA LegacyPolledRows ==
  ASSUME NEW s, IsStore(s), NEW d \in DOMAIN s.queue, NEW t
  PROVE  LET p == LegacyPolled(s, d, t)
         IN  /\ IsStore(p)
             /\ p = [s EXCEPT !.queue = p.queue]
             /\ \E I \in SUBSET s.queue[d].items :
                  p.queue = Put(s.queue, d, [last |-> s.queue[d].last, items |-> I])
<1> DEFINE I == pending(s, d, t) \ {Oldest(pending(s, d, t))}
           q == [last |-> s.queue[d].last, items |-> I]
<1>1. I \subseteq s.queue[d].items
  BY DEF pending, QueueOf, Fresh
<1> HIDE DEF I
<1>2. q \in Queue /\ d \in Device
  BY <1>1 DEF IsStore, IsMap, Queue
<1>3. IsMap(Put(s.queue, d, q), Device, Queue)
  BY <1>2, PutType DEF IsStore
<1>4. LegacyPolled(s, d, t) = [s EXCEPT !.queue = Put(s.queue, d, q)]
  BY DEF LegacyPolled, I
<1> QED
  BY <1>1, <1>3, <1>4 DEF IsStore, Rows

-----------------------------------------------------------------------------
(* Results *)

\* The stored record is the body or the failure record (worker.js:621-624).
LEMMA StoredType ==
  ASSUME NEW s, NEW body \in Body
  PROVE  stored(s, body) \in Content
BY DEF stored, Content

\* An accepted result writes payload, receipt and ownership, and at most the
\* one request that command answers (worker.js:626-639).
LEMMA AcceptedRows ==
  ASSUME NEW s, IsStore(s), NEW id \in DOMAIN s.own, NEW body \in Body, NEW t \in Nat,
         NEW p, p = Accepted(s, id, body, t)
  PROVE  /\ IsStore(p)
         /\ p.devices = s.devices /\ p.tickets = s.tickets /\ p.queue = s.queue
         /\ DOMAIN p.res = DOMAIN s.res \cup {id} /\ p.res[id] = t + RESULT_TTL
         /\ \A i \in DOMAIN s.res : i # id => p.res[i] = s.res[i]
         /\ DOMAIN p.own = DOMAIN s.own /\ p.own[id].done
         /\ \A i \in DOMAIN s.own : /\ p.own[i].token = s.own[i].token
                                    /\ p.own[i].expires = s.own[i].expires
                                    /\ i # id => p.own[i] = s.own[i]
         /\ DOMAIN p.payload = DOMAIN s.payload \cup {id}
         /\ p.payload[id].body = stored(s, body) /\ p.payload[id].token = s.own[id].token
         /\ p.payload[id].expires >= t + RESULT_TTL
         /\ \A i \in DOMAIN s.payload : i # id => p.payload[i] = s.payload[i]
         /\ DOMAIN p.idem = DOMAIN s.idem
         /\ \A k \in DOMAIN s.idem : /\ p.idem[k].expires = s.idem[k].expires
                                     /\ p.idem[k].cmd = s.idem[k].cmd
<1> DEFINE owner   == s.own[id]
           primary == t + RESULT_TTL
           keep    == IF hasKey(s, id) /\ s.idem[keyOf(s, id)].expires > primary
                      THEN s.idem[keyOf(s, id)].expires ELSE primary
           row     == [body |-> stored(s, body), expires |-> keep, token |-> owner.token]
           done    == [owner EXCEPT !.done = TRUE]
           entry   == [s.idem[keyOf(s, id)] EXCEPT !.resultId = id]
           idem    == IF hasKey(s, id) THEN Put(s.idem, keyOf(s, id), entry) ELSE s.idem
<1>1. id \in Cmd /\ owner \in Owner
  BY DEF IsStore, IsMap
<1>2. primary \in Nat
  BY LifetimeAssumption
<1>3. hasKey(s, id) => keyOf(s, id) \in DOMAIN s.idem
  BY DEF hasKey, keyOf
<1>4. hasKey(s, id) => s.idem[keyOf(s, id)] \in IdemEntry
  BY <1>3 DEF IsStore, IsMap
<1>5. keep \in Nat /\ keep >= primary
  BY <1>2, <1>4 DEF IdemEntry
<1>6. hasKey(s, id) => /\ entry \in IdemEntry
                       /\ entry.expires = s.idem[keyOf(s, id)].expires
                       /\ entry.cmd = s.idem[keyOf(s, id)].cmd
  BY <1>1, <1>4 DEF IdemEntry
<1>7. done \in Owner
  BY <1>1 DEF Owner
<1>8. row \in Payload
  BY <1>1, <1>5, StoredType DEF Payload, Owner
<1>9. p = [s EXCEPT !.payload = Put(s.payload, id, row), !.res = Put(s.res, id, primary),
                    !.own = Put(s.own, id, done), !.idem = idem]
  BY DEF Accepted, IsStore, Rows
<1> HIDE DEF primary, keep, row, done, entry
<1>10. /\ IsMap(Put(s.payload, id, row), Cmd, Payload)
       /\ IsMap(Put(s.res, id, primary), Cmd, Nat)
       /\ IsMap(Put(s.own, id, done), Cmd, Owner)
  BY <1>1, <1>2, <1>7, <1>8, PutType DEF IsStore
<1>11. /\ IsMap(idem, ReqKey, IdemEntry)
       /\ DOMAIN idem = DOMAIN s.idem
       /\ \A k \in DOMAIN s.idem : /\ idem[k].expires = s.idem[k].expires
                                   /\ idem[k].cmd = s.idem[k].cmd
  <2>1. CASE ~hasKey(s, id)
    BY <2>1 DEF IsStore
  <2>2. CASE hasKey(s, id)
    <3>1. keyOf(s, id) \in ReqKey
      BY <1>3, <2>2 DEF IsStore, IsMap
    <3> DEFINE k0 == keyOf(s, id)
    <3> HIDE DEF k0
    <3>2. idem = Put(s.idem, k0, entry)
      BY <2>2 DEF k0
    <3>3. /\ k0 \in DOMAIN s.idem /\ k0 \in ReqKey /\ entry \in IdemEntry
          /\ entry.expires = s.idem[k0].expires /\ entry.cmd = s.idem[k0].cmd
      BY <1>3, <1>6, <2>2, <3>1 DEF k0
    <3> HIDE DEF idem
    <3>4. IsMap(idem, ReqKey, IdemEntry)
      BY <3>2, <3>3, PutType DEF IsStore
    <3>5. DOMAIN idem = DOMAIN s.idem \cup {k0} /\ idem[k0] = entry
      BY <3>2 DEF Put
    <3>6. \A k \in DOMAIN s.idem : k # k0 => idem[k] = s.idem[k]
      BY <3>2 DEF Put
    <3> QED
      BY <3>3, <3>4, <3>5, <3>6
  <2> QED
    BY <2>1, <2>2
<1> HIDE DEF idem
<1>12. /\ p.payload = Put(s.payload, id, row) /\ p.res = Put(s.res, id, primary)
       /\ p.own = Put(s.own, id, done) /\ p.idem = idem
       /\ IsStore(p)
       /\ p.devices = s.devices /\ p.tickets = s.tickets /\ p.queue = s.queue
  BY <1>9, <1>10, <1>11 DEF IsStore, Rows
<1>13. /\ row.body = stored(s, body) /\ row.token = s.own[id].token /\ row.expires = keep
       /\ done.token = s.own[id].token /\ done.expires = s.own[id].expires /\ done.done
  BY <1>1 DEF row, done, Owner
<1>14. /\ DOMAIN p.res = DOMAIN s.res \cup {id} /\ p.res[id] = primary
       /\ \A i \in DOMAIN s.res : i # id => p.res[i] = s.res[i]
  BY <1>12 DEF Put
<1>15. /\ DOMAIN p.own = DOMAIN s.own /\ p.own[id] = done
       /\ \A i \in DOMAIN s.own : i # id => p.own[i] = s.own[i]
  BY <1>12 DEF Put
<1>16. /\ DOMAIN p.payload = DOMAIN s.payload \cup {id} /\ p.payload[id] = row
       /\ \A i \in DOMAIN s.payload : i # id => p.payload[i] = s.payload[i]
  BY <1>12 DEF Put
<1> QED
  BY <1>5, <1>11, <1>12, <1>13, <1>14, <1>15, <1>16 DEF primary

\* Consuming a receipt removes it and keeps who owns the command
\* (worker.js:686-690).
LEMMA ConsumedRows ==
  ASSUME NEW s, IsStore(s), NEW id, NEW p, p = Consumed(s, id)
  PROVE  /\ IsStore(p)
         /\ p.devices = s.devices /\ p.tickets = s.tickets /\ p.queue = s.queue
         /\ p.idem = s.idem /\ p.payload = s.payload
         /\ DOMAIN p.res = DOMAIN s.res \ {id}
         /\ \A i \in DOMAIN s.res : i # id => p.res[i] = s.res[i]
         /\ DOMAIN p.own = DOMAIN s.own
         /\ \A i \in DOMAIN s.own : /\ p.own[i].token = s.own[i].token
                                    /\ p.own[i].expires = s.own[i].expires
                                    /\ p.own[i].done = s.own[i].done
<1> DEFINE row == [s.own[id] EXCEPT !.consumed = TRUE]
           own == IF id \in DOMAIN s.own THEN Put(s.own, id, row) ELSE s.own
<1>1. IsMap(Drop(s.res, {id}), Cmd, Nat)
  BY DropType DEF IsStore
<1>2. /\ IsMap(own, Cmd, Owner)
      /\ DOMAIN own = DOMAIN s.own
      /\ \A i \in DOMAIN s.own :
           /\ own[i].token = s.own[i].token
           /\ own[i].expires = s.own[i].expires
           /\ own[i].done = s.own[i].done
  <2>1. CASE id \notin DOMAIN s.own
    BY <2>1 DEF IsStore
  <2>2. CASE id \in DOMAIN s.own
    <3>1. id \in Cmd /\ s.own[id] \in Owner
      BY <2>2 DEF IsStore, IsMap
    <3>2. /\ row \in Owner /\ row.token = s.own[id].token
          /\ row.expires = s.own[id].expires /\ row.done = s.own[id].done
      BY <3>1 DEF Owner
    <3> HIDE DEF row
    <3>3. own = Put(s.own, id, row)
      BY <2>2
    <3> HIDE DEF own
    <3>4. IsMap(own, Cmd, Owner)
      BY <3>1, <3>2, <3>3, PutType DEF IsStore
    <3>5. DOMAIN own = DOMAIN s.own \cup {id} /\ own[id] = row
      BY <3>3 DEF Put
    <3>6. \A i \in DOMAIN s.own : i # id => own[i] = s.own[i]
      BY <3>3 DEF Put
    <3> QED
      BY <2>2, <3>2, <3>4, <3>5, <3>6
  <2> QED
    BY <2>1, <2>2
<1>3. p = [s EXCEPT !.res = Drop(s.res, {id}), !.own = own]
  BY DEF Consumed, IsStore, Rows
<1> HIDE DEF own
<1>4. /\ p.res = Drop(s.res, {id}) /\ p.own = own /\ IsStore(p)
      /\ p.devices = s.devices /\ p.tickets = s.tickets /\ p.queue = s.queue
      /\ p.idem = s.idem /\ p.payload = s.payload
  BY <1>1, <1>2, <1>3 DEF IsStore, Rows
<1>5. /\ DOMAIN p.res = DOMAIN s.res \ {id}
      /\ \A i \in DOMAIN s.res : i # id => p.res[i] = s.res[i]
  BY <1>4 DEF Drop, Restrict
<1> QED
  BY <1>2, <1>4, <1>5

-----------------------------------------------------------------------------
(* Restart *)

\* Every queued command has its owner.
AllOwned(s) == \A d \in DOMAIN s.queue : \A c \in s.queue[d].items : c.id \in DOMAIN s.own

\* Adoption gives an owner to a queued command that has none, and keeps the
\* rest (worker.js:440-452).
LEMMA AdoptedRows ==
  ASSUME NEW s, IsStore(s)
  PROVE  LET p == Adopted(s)
         IN  /\ IsStore(p)
             /\ p = [s EXCEPT !.own = p.own]
             /\ AllOwned(s) => p.own = s.own
<1> DEFINE items == UNION {s.queue[d].items : d \in DOMAIN s.queue}
           lone  == {c.id : c \in items} \ DOMAIN s.own
           cmdOf(id) == CHOOSE c \in items : c.id = id
           devOf(id) == CHOOSE d \in DOMAIN s.queue : cmdOf(id) \in s.queue[d].items
           row(id) == IF id \in DOMAIN s.own THEN s.own[id]
                      ELSE [token |-> devOf(id), expires |-> cmdOf(id).at + OWNER_TTL,
                            done |-> id \in DOMAIN s.payload, consumed |-> FALSE]
           own == [id \in DOMAIN s.own \cup lone |-> row(id)]
<1>1. Adopted(s) = [s EXCEPT !.own = own]
  BY DEF Adopted, IsStore, Rows
<1>2. \A d \in DOMAIN s.queue : d \in Device /\ s.queue[d].items \subseteq Entry
  BY DEF IsStore, IsMap, Queue
<1>3. \A id \in lone : row(id) \in Owner /\ id \in Cmd
  <2> SUFFICES ASSUME NEW id \in lone PROVE row(id) \in Owner /\ id \in Cmd
    OBVIOUS
  <2>1. cmdOf(id) \in items /\ cmdOf(id).id = id
    OBVIOUS
  <2>2. \E d \in DOMAIN s.queue : cmdOf(id) \in s.queue[d].items
    BY <2>1
  <2>3. devOf(id) \in DOMAIN s.queue
    BY <2>2
  <2>4. cmdOf(id) \in Entry /\ devOf(id) \in Device
    BY <1>2, <2>2, <2>3
  <2>5. cmdOf(id).at + OWNER_TTL \in Nat /\ id \in Cmd
    BY <2>1, <2>4, LifetimeAssumption DEF Entry, OWNER_TTL
  <2> HIDE DEF cmdOf, devOf
  <2> QED
    BY <2>4, <2>5 DEF Owner
<1>4. \A id \in DOMAIN s.own : row(id) \in Owner /\ id \in Cmd
  BY DEF IsStore, IsMap
<1> HIDE DEF row, lone
<1>5. IsMap(own, Cmd, Owner)
  BY <1>3, <1>4 DEF IsMap
<1>6. ASSUME AllOwned(s) PROVE own = s.own
  <2>1. lone = {}
    BY <1>6 DEF lone, AllOwned
  <2>2. \A id \in DOMAIN s.own : row(id) = s.own[id]
    BY DEF row
  <2> QED
    BY <2>1, <2>2 DEF IsStore, IsMap
<1> HIDE DEF own
<1> QED
  BY <1>1, <1>5, <1>6 DEF IsStore, Rows

\* The queues of unknown devices, which load() deletes (worker.js:382).
Known(s) == [s EXCEPT !.queue = Restrict(@, DOMAIN @ \cap s.devices)]

\* load() keeps a store a store.
LEMMA LoadedRows ==
  ASSUME NEW s, IsStore(s), NEW t
  PROVE  /\ IsStore(Known(s)) /\ Known(s).queue = Drop(s.queue, DOMAIN s.queue \ s.devices)
         /\ Known(s) = [s EXCEPT !.queue = Known(s).queue]
         /\ IsStore(Loaded(s, t))
<1>1. Restrict(s.queue, DOMAIN s.queue \cap s.devices) = Drop(s.queue, DOMAIN s.queue \ s.devices)
  <2>1. DOMAIN s.queue \ (DOMAIN s.queue \ s.devices) = DOMAIN s.queue \cap s.devices
    OBVIOUS
  <2> QED
    BY <2>1 DEF Drop
<1>2. Known(s) = [s EXCEPT !.queue = Drop(s.queue, DOMAIN s.queue \ s.devices)]
  BY <1>1 DEF Known, IsStore, Rows
<1>3. IsMap(Drop(s.queue, DOMAIN s.queue \ s.devices), Device, Queue)
  BY DropType DEF IsStore
<1>4. /\ IsStore(Known(s)) /\ Known(s).queue = Drop(s.queue, DOMAIN s.queue \ s.devices)
      /\ Known(s) = [s EXCEPT !.queue = Known(s).queue]
  BY <1>2, <1>3 DEF IsStore, Rows
<1>5. IsStore(Adopted(Purged(Known(s), t, {})))
  BY <1>4, PurgedRows, AdoptedRows
<1>6. Loaded(s, t) = Purged(Adopted(Purged(Known(s), t, {})), t, {})
  BY DEF Loaded, Known
<1> QED
  BY <1>4, <1>5, <1>6, PurgedRows

\* Adoption finds nothing to adopt when every queued command that is left has
\* its owner: the rows are then only purged twice.
LEMMA LoadedTwice ==
  ASSUME NEW s, IsStore(s), NEW t, NEW p, p = Purged(Known(s), t, {}), AllOwned(p)
  PROVE  \E a : /\ IsStore(a) /\ a = [p EXCEPT !.own = a.own] /\ a.own = p.own
                /\ Loaded(s, t) = Purged(a, t, {})
<1>1. IsStore(p)
  BY LoadedRows, PurgedRows
<1>2. LET a == Adopted(p) IN IsStore(a) /\ a = [p EXCEPT !.own = a.own] /\ a.own = p.own
  BY <1>1, AdoptedRows
<1>3. Loaded(s, t) = Purged(Adopted(p), t, {})
  BY DEF Loaded, Known
<1> QED
  BY <1>2, <1>3

\* A table between what it was and what a load makes of it: some of the rows K
\* that were to go or to change are still as they were.
Midway(old, new, mid) ==
  \/ mid = old \/ mid = new
  \/ \E K \in SUBSET DOMAIN old :
       mid = [k \in DOMAIN new \cup K |-> IF k \in K THEN old[k] ELSE new[k]]

\* Every row of such a table is a row of one of the two.
LEMMA MidwayRows ==
  ASSUME NEW K, NEW V, NEW old, NEW new, IsMap(old, K, V), IsMap(new, K, V), NEW mid, Midway(old, new, mid)
  PROVE  /\ IsMap(mid, K, V)
         /\ \A k \in DOMAIN mid : (k \in DOMAIN old /\ mid[k] = old[k]) \/ (k \in DOMAIN new /\ mid[k] = new[k])
         /\ DOMAIN new \subseteq DOMAIN old => DOMAIN new \subseteq DOMAIN mid
<1>1. CASE mid = old \/ mid = new
  BY <1>1
<1>2. ASSUME NEW L \in SUBSET DOMAIN old,
             mid = [k \in DOMAIN new \cup L |-> IF k \in L THEN old[k] ELSE new[k]]
      PROVE  /\ IsMap(mid, K, V)
             /\ \A k \in DOMAIN mid : (k \in DOMAIN old /\ mid[k] = old[k]) \/ (k \in DOMAIN new /\ mid[k] = new[k])
             /\ DOMAIN new \subseteq DOMAIN old => DOMAIN new \subseteq DOMAIN mid
  <2>1. DOMAIN mid = DOMAIN new \cup L /\ \A k \in DOMAIN mid : mid[k] = IF k \in L THEN old[k] ELSE new[k]
    BY <1>2
  <2>2. \A k \in DOMAIN mid : mid[k] \in V /\ k \in K
    BY <2>1 DEF IsMap
  <2>3. mid \in [DOMAIN mid -> V]
    <3>1. mid = [k \in DOMAIN mid |-> IF k \in L THEN old[k] ELSE new[k]]
      BY <1>2
    <3> QED
      BY <2>1, <2>2, <3>1
  <2> QED
    BY <2>1, <2>2, <2>3 DEF IsMap
<1> QED
  BY <1>1, <1>2 DEF Midway

\* A load cut short leaves every table midway, and has not touched the owners
\* before the queues are done (worker.js:381-388, :453-458).
LEMMA CutRows ==
  ASSUME NEW s, IsStore(s), NEW l, IsStore(l),
         NEW n \in DOMAIN LoadOrder, NEW K \in PartLeft(s[LoadOrder[n]], l[LoadOrder[n]])
  PROVE  LET p == CutShort(s, l, n, K)
         IN  /\ IsStore(p)
             /\ p.devices = s.devices
             /\ \A x \in Rows : x # "devices" => Midway(s[x], l[x], p[x])
             /\ p.own = s.own \/ p.queue = l.queue
<1> DEFINE p == CutShort(s, l, n, K)
           half(x) == [k \in DOMAIN l[x] \cup K |-> IF k \in K THEN s[x][k] ELSE l[x][k]]
<1>1. DOMAIN LoadOrder = 1 .. 7
  BY DEF LoadOrder
<1>2. DOMAIN p = Rows /\ \A x \in Rows : p[x] = IF x = LoadOrder[n] THEN half(x)
                                  ELSE IF \E i \in 1 .. n - 1 : x = LoadOrder[i] THEN l[x]
                                  ELSE s[x]
  BY DEF CutShort
<1>3. K \subseteq DOMAIN s[LoadOrder[n]]
  BY DEF PartLeft
<1>4. \A x \in Rows : x # "devices" => Midway(s[x], l[x], p[x])
  <2> SUFFICES ASSUME NEW x \in Rows, x # "devices" PROVE Midway(s[x], l[x], p[x])
    OBVIOUS
  <2>1. CASE x = LoadOrder[n]
    BY <1>2, <1>3, <2>1 DEF Midway
  <2>2. CASE x # LoadOrder[n]
    BY <1>2, <2>2 DEF Midway
  <2> QED
    BY <2>1, <2>2
<1>5. p.devices = s.devices
  <2>1. \A i \in 1 .. 7 : LoadOrder[i] # "devices"
    BY DEF LoadOrder
  <2> QED
    BY <1>1, <1>2, <2>1 DEF Rows
<1>6. p.own = s.own \/ p.queue = l.queue
  <2>1. CASE n = 7
    <3>1. LoadOrder[7] # "queue" /\ LoadOrder[2] = "queue" /\ 2 \in 1 .. 7 - 1
      BY DEF LoadOrder
    <3> QED
      BY <1>2, <2>1, <3>1 DEF Rows
  <2>2. CASE n # 7
    <3>1. n \in 1 .. 6 /\ \A i \in 1 .. 6 : LoadOrder[i] # "own"
      BY <1>1, <2>2 DEF LoadOrder
    <3>2. \A i \in 1 .. n - 1 : i \in 1 .. 6
      BY <3>1
    <3> QED
      BY <1>2, <3>1, <3>2 DEF Rows
  <2> QED
    BY <2>1, <2>2
<1> HIDE DEF p
<1>7. IsStore(p)
  <2>1. /\ Midway(s.pairs, l.pairs, p.pairs) /\ Midway(s.tickets, l.tickets, p.tickets)
        /\ Midway(s.queue, l.queue, p.queue) /\ Midway(s.own, l.own, p.own)
        /\ Midway(s.idem, l.idem, p.idem) /\ Midway(s.res, l.res, p.res)
        /\ Midway(s.payload, l.payload, p.payload)
    BY <1>4 DEF Rows
  <2>2. IsMap(p.pairs, Code, Nat) /\ IsMap(p.tickets, Ticket, TicketEntry) /\ IsMap(p.queue, Device, Queue)
    BY <2>1, MidwayRows DEF IsStore
  <2>3. /\ IsMap(p.own, Cmd, Owner) /\ IsMap(p.idem, ReqKey, IdemEntry)
        /\ IsMap(p.res, Cmd, Nat) /\ IsMap(p.payload, Cmd, Payload)
    BY <2>1, MidwayRows DEF IsStore
  <2> QED
    BY <1>2, <1>5, <2>2, <2>3 DEF IsStore
<1> QED
  BY <1>4, <1>5, <1>6, <1>7 DEF p
=============================================================================
