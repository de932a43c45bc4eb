---------------------------- MODULE RelayHubProofs ----------------------------
(***************************************************************************)
(* Theorems about RelayHub for every value of its constants.               *)
(*                                                                         *)
(* First types; then Consistent and the safety properties that hold        *)
(* whatever the wall clock does: most steps only take rows away (Kept),    *)
(* and the five that add rows are handled one by one; then Timely and the  *)
(* properties that need a clock that is never set back (ClockSteps =       *)
(* FALSE): an acknowledged result stays readable, a request_id enqueues    *)
(* one command per lifetime; last what a restart finds: rows within the    *)
(* caps, and no reference to a payload that is gone (Loadable), but for    *)
(* those a load that was cut short left behind (RepliesCut).               *)
(***************************************************************************)
EXTENDS RelayHub, RelayStoreProofs, FiniteSetTheorems

-----------------------------------------------------------------------------
(* Types *)

\* The chain's own variables.
LEMMA InitType == Init => TypeOK
<1> SUFFICES ASSUME Init PROVE TypeOK
  OBVIOUS
<1>1. PICK D \in SUBSET Device : mem = Imported(D) /\ tokens = D
  BY DEF Init
<1>2. IsStore(mem) /\ IsStore(disk)
  BY <1>1, ImportedStore DEF Init
<1>3. IsMap(issued, Cmd, Issue) /\ IsMap(accepted, Cmd, Receipt)
  BY EmptyMapType DEF Init
<1> QED
  BY <1>1, <1>2, <1>3 DEF Init, TypeOK

\* Opening a stream fills one free slot.
LEMMA OpenStreamType ==
  ASSUME TypeOK, NEW id \in Cmd, OpenStream(id)
  PROVE  streams' \in [Slot -> Cmd \cup {None}]
BY DEF TypeOK, OpenStream

\* A load cut short made no write at all, or was in the middle of some table.
LEMMA CutCases ==
  ASSUME LoadCut
  PROVE  \/ disk' = disk
         \/ \E n \in DOMAIN LoadOrder :
              \E K \in PartLeft(disk[LoadOrder[n]], Loaded(disk, now)[LoadOrder[n]]) :
                disk' = CutShort(disk, Loaded(disk, now), n, K)
BY DEF LoadCut

\* Every step keeps the types.
LEMMA NextType == TypeOK /\ [Next]_vars => TypeOK'
<1> SUFFICES ASSUME TypeOK, [Next]_vars PROVE TypeOK'
  OBVIOUS
<1> USE DEF TypeOK
<1>1. ASSUME NEW code \in Code, AddPair(code) PROVE TypeOK'
  BY <1>1, PairAddedRows DEF AddPair, Commit, history
<1>2. ASSUME NEW code \in Code, NEW d \in Device, Register(code, d) PROVE TypeOK'
  BY <1>2, RegisteredRows DEF Register, Commit
<1>3. ASSUME NEW d \in Device, RemoveDevice(d) PROVE TypeOK'
  BY <1>3, DeviceRemovedRows DEF RemoveDevice, Commit, history
<1>4. ASSUME NEW k \in Ticket, NEW d \in Device, IssueTicket(k, d) PROVE TypeOK'
  BY <1>4, TicketIssuedRows DEF IssueTicket, Commit, history
<1>5. ASSUME NEW k \in Ticket, UseTicket(k) PROVE TypeOK'
  BY <1>5, TicketUsedRows DEF UseTicket, Commit, history
<1>6. ASSUME NEW d \in Device, NEW req \in Request \cup {None}, NEW id \in Cmd, Enqueue(d, req, id)
      PROVE  TypeOK'
  <2>1. IsStore(disk')
    BY <1>6, EnqueuedRows DEF Enqueue, Commit
  <2>2. [token |-> d, req |-> req, seq |-> nextSeq(mem, d, now), at |-> now] \in Issue
    BY NextSeqGrows DEF Issue
  <2>3. IsMap(issued', Cmd, Issue)
    BY <1>6, <2>2, PutType DEF Enqueue
  <2> QED
    BY <1>6, <2>1, <2>3 DEF Enqueue, Commit
<1>7. ASSUME NEW d \in Device, NEW seq, Ack(d, seq) PROVE TypeOK'
  BY <1>7, AckedRows DEF Ack, CanAck, Commit, history
<1>8. ASSUME NEW d \in Device, LegacyPoll(d) PROVE TypeOK'
  <2>1. d \in DOMAIN mem.queue
    BY <1>8 DEF LegacyPoll, CanLegacyPoll, pending, QueueOf, Fresh
  <2> QED
    BY <1>8, <2>1, LegacyPolledRows DEF LegacyPoll, Commit, history
<1>9. ASSUME NEW d \in Device, NEW id \in Cmd, NEW body \in Body, AcceptResult(d, id, body)
      PROVE  TypeOK'
  <2>1. id \in DOMAIN mem.own
    BY <1>9 DEF AcceptResult, CanAccept
  <2>2. IsStore(disk')
    BY <1>9, <2>1, AcceptedRows DEF AcceptResult, Commit
  <2>3. [by |-> d, body |-> stored(mem, body), until |-> now + RESULT_TTL] \in Receipt
    BY StoredType, LifetimeAssumption DEF Receipt
  <2>4. IsMap(accepted', Cmd, Receipt)
    BY <1>9, <2>3, PutType DEF AcceptResult
  <2> QED
    BY <1>9, <2>2, <2>4 DEF AcceptResult, Commit
<1>10. ASSUME NEW r \in readers, ConsumeResult(r) PROVE TypeOK'
  BY <1>10, ConsumedRows DEF ConsumeResult, Commit, Reader
<1>11. ASSUME NEW r \in readers, ReplayResult(r) PROVE TypeOK'
  BY <1>11, OpenStreamType DEF ReplayResult, Reader, rows, chain, history
<1>12. ASSUME NEW id \in Cmd, FindResult(id) PROVE TypeOK'
  <2>1. [id |-> id, consume |-> TRUE] \in Reader
    BY DEF Reader
  <2>2. readers' \subseteq Reader
    BY <1>12, <2>1 DEF FindResult
  <2> QED
    BY <1>12, <2>2 DEF FindResult, rows, chain, history
<1>13. ASSUME NEW k \in ReqKey, FindReplay(k) PROVE TypeOK'
  <2>1. mem.idem[k].resultId \in Cmd
    BY <1>13 DEF FindReplay, IsStore, IsMap, IdemEntry
  <2>2. [id |-> mem.idem[k].resultId, consume |-> FALSE] \in Reader
    BY <2>1 DEF Reader
  <2>3. readers' \subseteq Reader
    BY <1>13, <2>2 DEF FindReplay
  <2> QED
    BY <1>13, <2>3 DEF FindReplay, rows, chain, history
<1>14. ASSUME NEW r \in readers, ReaderLeaves(r) PROVE TypeOK'
  BY <1>14 DEF ReaderLeaves, rows, chain, history
<1>15. CASE Purge
  BY <1>15, PurgedRows DEF Purge, Expiring, history
<1>16. CASE Finish
  BY <1>16 DEF Finish, rows, history
<1>17. CASE Apply
  BY <1>17, OpenStreamType DEF Apply, history
<1>18. ASSUME NEW k \in Slot, StreamEnds(k) PROVE TypeOK'
  BY <1>18 DEF StreamEnds, rows, chain, history
<1>19. CASE Tick
  BY <1>19 DEF Tick, rows, chain, history
<1>20. CASE Restart
  BY <1>20, LoadedRows DEF Restart, Forgotten, Expiring, history
<1>21. CASE LoadCut
  <2>1. IsStore(disk')
    <3>1. IsStore(Loaded(disk, now)) /\ IsStore(disk)
      BY LoadedRows
    <3> QED
      BY <1>21, <3>1, CutCases, CutRows
  <2>2. alarm' \in BOOLEAN /\ cutAt' \in Nat
    BY <1>21 DEF LoadCut
  <2> QED
    BY <1>21, <2>1, <2>2 DEF LoadCut, Forgotten, history
<1>22. CASE UNCHANGED vars
  BY <1>22 DEF vars, rows, chain, history
<1> QED
  BY <1>1, <1>2, <1>3, <1>4, <1>5, <1>6, <1>7, <1>8, <1>9, <1>10, <1>11, <1>12, <1>13, <1>14,
     <1>15, <1>16, <1>17, <1>18, <1>19, <1>20, <1>21, <1>22
     DEF Next, DeviceStep, DriverStep, HubStep

\* Memory, storage and everything a call holds keep their types, over every
\* interleaving and restart.
THEOREM TypeCorrect == Spec => []TypeOK
BY InitType, NextType, PTL DEF Spec

-----------------------------------------------------------------------------
(* Steps that only take rows away *)

\* p keeps the devices of s and the last number of every queue, and has no row
\* that s has not.  The flags of an owner and the replay reference may change.
Kept(s, p) ==
  /\ p.devices = s.devices
  /\ DOMAIN p.own \subseteq DOMAIN s.own
  /\ \A id \in DOMAIN p.own : /\ p.own[id].token = s.own[id].token
                              /\ p.own[id].expires = s.own[id].expires
                              /\ p.own[id].done = s.own[id].done
  /\ DOMAIN p.idem \subseteq DOMAIN s.idem
  /\ \A k \in DOMAIN p.idem : p.idem[k].cmd = s.idem[k].cmd /\ p.idem[k].expires = s.idem[k].expires
  /\ DOMAIN p.tickets \subseteq DOMAIN s.tickets
  /\ \A k \in DOMAIN p.tickets : p.tickets[k] = s.tickets[k]
  /\ DOMAIN p.res \subseteq DOMAIN s.res
  /\ \A id \in DOMAIN p.res : p.res[id] = s.res[id]
  /\ DOMAIN p.payload \subseteq DOMAIN s.payload
  /\ \A id \in DOMAIN p.payload : p.payload[id] = s.payload[id]
  /\ DOMAIN p.queue = DOMAIN s.queue
  /\ \A d \in DOMAIN s.queue : /\ p.queue[d].last = s.queue[d].last
                               /\ p.queue[d].items \subseteq s.queue[d].items

\* Rows that are kept twice are kept.
LEMMA KeptTwice ==
  ASSUME NEW s, NEW p, NEW q, Kept(s, p), Kept(p, q)
  PROVE  Kept(s, q)
BY DEF Kept

\* p still has what s had that is not over at t.
Lasts(s, p, t) ==
  /\ \A id \in DOMAIN s.payload :
       s.payload[id].token \in s.devices /\ s.payload[id].expires > t => id \in DOMAIN p.payload
  /\ \A id \in DOMAIN s.res : s.res[id] > t => id \in DOMAIN p.res
  /\ \A k \in DOMAIN s.idem : k[1] \in s.devices /\ s.idem[k].expires > t => k \in DOMAIN p.idem

\* What lasts twice lasts.
LEMMA LastsTwice ==
  ASSUME NEW s, NEW p, NEW q, NEW t, Kept(s, p), Lasts(s, p, t), Lasts(p, q, t)
  PROVE  Lasts(s, q, t)
BY DEF Kept, Lasts

\* Every owner and payload is a registered device's.
Registrants(s) ==
  /\ \A id \in DOMAIN s.own : s.own[id].token \in s.devices
  /\ \A id \in DOMAIN s.payload : s.payload[id].token \in s.devices

\* p has no receipt that was over at t, but those that are pinned, and no replay
\* entry; what it has are rows of s.
Swept(s, p, t, pin) ==
  /\ DOMAIN p.pairs \subseteq DOMAIN s.pairs
  /\ \A id \in DOMAIN p.res : s.res[id] > t \/ id \in pin
  /\ \A k \in DOMAIN p.idem : p.idem[k] = s.idem[k] /\ k[1] \in s.devices /\ s.idem[k].expires > t

\* purgeExpired takes only what is over, a command before its owner and a receipt
\* before its payload, and leaves what a stream has pinned (worker.js:723-746).
LEMMA PurgedKept ==
  ASSUME NEW s, IsStore(s), NEW t \in Nat, NEW pin, QueueOwned(s), Registrants(s)
  PROVE  LET p == Purged(s, t, pin)
         IN  /\ IsStore(p) /\ Kept(s, p) /\ Lasts(s, p, t) /\ Swept(s, p, t, pin)
             /\ QueueOwned(p) /\ Registrants(p)
             /\ ReceiptsBacked(s) => ReceiptsBacked(p)
             /\ \A id \in DOMAIN s.payload : id \in pin => id \in DOMAIN p.payload
<1> DEFINE p == Purged(s, t, pin)
<1>1. /\ IsStore(p) /\ p.devices = s.devices
      /\ p.own = Drop(s.own, ownersGone(s, t))
      /\ p.idem = Drop(s.idem, idemGone(s, t))
      /\ p.res = Drop(s.res, resultsGone(s, t, pin))
      /\ p.payload = Drop(s.payload, payloadsGone(s, t, pin))
      /\ p.tickets = Drop(s.tickets, ticketsGone(s, t))
      /\ p.pairs = Drop(s.pairs, pairsGone(s, t))
      /\ DOMAIN p.queue = DOMAIN s.queue
      /\ \A d \in DOMAIN s.queue :
           p.queue[d] = [last |-> s.queue[d].last, items |-> Fresh(s.queue[d].items, t)]
  <2> HIDE DEF p
  <2>1. p = Purged(s, t, pin)
    BY DEF p
  <2> QED
    BY <2>1, PurgedRows
<1> HIDE DEF p
<1>2. /\ DOMAIN p.own = DOMAIN s.own \ ownersGone(s, t)
      /\ DOMAIN p.pairs = DOMAIN s.pairs \ pairsGone(s, t)
      /\ \A id \in DOMAIN s.own \ ownersGone(s, t) : p.own[id] = s.own[id]
      /\ DOMAIN p.idem = DOMAIN s.idem \ idemGone(s, t)
      /\ \A k \in DOMAIN s.idem \ idemGone(s, t) : p.idem[k] = s.idem[k]
      /\ DOMAIN p.res = DOMAIN s.res \ resultsGone(s, t, pin)
      /\ \A id \in DOMAIN s.res \ resultsGone(s, t, pin) : p.res[id] = s.res[id]
      /\ DOMAIN p.payload = DOMAIN s.payload \ payloadsGone(s, t, pin)
      /\ \A id \in DOMAIN s.payload \ payloadsGone(s, t, pin) : p.payload[id] = s.payload[id]
      /\ DOMAIN p.tickets = DOMAIN s.tickets \ ticketsGone(s, t)
      /\ \A k \in DOMAIN s.tickets \ ticketsGone(s, t) : p.tickets[k] = s.tickets[k]
  BY <1>1 DEF Drop, Restrict
<1>3. \A d \in DOMAIN s.queue : /\ p.queue[d].last = s.queue[d].last
                                /\ p.queue[d].items = Fresh(s.queue[d].items, t)
  <2> TAKE d \in DOMAIN s.queue
  <2>1. p.queue[d] = [last |-> s.queue[d].last, items |-> Fresh(s.queue[d].items, t)]
    BY <1>1
  <2> QED
    BY <2>1
<1>4. Kept(s, p)
  <2>1. \A d \in DOMAIN s.queue : p.queue[d].items \subseteq s.queue[d].items
    BY <1>3 DEF Fresh
  <2> QED
    BY <1>1, <1>2, <1>3, <2>1 DEF Kept
<1>5. QueueOwned(p)
  <2> SUFFICES ASSUME NEW d \in DOMAIN p.queue
               PROVE  /\ d \in p.devices
                      /\ \A c \in p.queue[d].items :
                           /\ c.id \in DOMAIN p.own
                           /\ p.own[c.id].token = d
                           /\ c.at + QUEUE_KEEP <= p.own[c.id].expires
    BY DEF QueueOwned
  <2>1. d \in s.devices
    BY <1>1 DEF QueueOwned
  <2> SUFFICES ASSUME NEW c \in p.queue[d].items
               PROVE  /\ c.id \in DOMAIN p.own
                      /\ p.own[c.id].token = d
                      /\ c.at + QUEUE_KEEP <= p.own[c.id].expires
    BY <1>1, <2>1
  <2>2. c \in s.queue[d].items /\ t < c.at + QUEUE_KEEP
    BY <1>1, <1>3 DEF Fresh
  <2>3. c.id \in DOMAIN s.own /\ s.own[c.id].token = d /\ c.at + QUEUE_KEEP <= s.own[c.id].expires
    BY <1>1, <2>2 DEF QueueOwned
  <2>4. c.at \in Nat /\ s.own[c.id].expires \in Nat
    BY <1>1, <2>2, <2>3 DEF IsStore, IsMap, Queue, Entry, Owner
  <2>5. c.id \notin ownersGone(s, t)
    BY <2>1, <2>2, <2>3, <2>4, LifetimeAssumption DEF ownersGone
  <2> QED
    BY <1>2, <2>3, <2>5
<1>6. ASSUME ReceiptsBacked(s) PROVE ReceiptsBacked(p)
  <2> SUFFICES ASSUME NEW id \in DOMAIN p.res
               PROVE  id \in DOMAIN p.payload /\ p.res[id] <= p.payload[id].expires
    BY DEF ReceiptsBacked, Backed
  <2>1. id \in DOMAIN s.res /\ id \notin resultsGone(s, t, pin) /\ p.res[id] = s.res[id]
    BY <1>2
  <2>2. id \in DOMAIN s.payload /\ s.res[id] <= s.payload[id].expires
    BY <1>6, <2>1 DEF ReceiptsBacked, Backed
  <2>3. s.res[id] \in Nat /\ s.payload[id].expires \in Nat
    BY <2>1, <2>2 DEF IsStore, IsMap, Payload
  <2>4. id \notin payloadsGone(s, t, pin)
    BY <2>1, <2>2, <2>3 DEF payloadsGone, resultsGone, Registrants
  <2> QED
    BY <1>2, <2>1, <2>2, <2>4
<1>7. Registrants(p)
  BY <1>4 DEF Registrants, Kept
<1>8. \A id \in DOMAIN s.payload : id \in pin => id \in DOMAIN p.payload
  BY <1>2 DEF payloadsGone, Registrants
<1>9. Lasts(s, p, t)
  <2>1. \A id \in payloadsGone(s, t, pin) : s.payload[id].token \notin s.devices \/ s.payload[id].expires <= t
    BY DEF payloadsGone
  <2>2. \A id \in resultsGone(s, t, pin) : s.res[id] <= t
    BY DEF resultsGone
  <2>3. \A k \in idemGone(s, t) : k[1] \notin s.devices \/ s.idem[k].expires <= t
    BY DEF idemGone
  <2>4. /\ \A id \in DOMAIN s.payload : s.payload[id].expires \in Nat
        /\ \A id \in DOMAIN s.res : s.res[id] \in Nat
        /\ \A k \in DOMAIN s.idem : s.idem[k].expires \in Nat
    BY DEF IsStore, IsMap, Payload, IdemEntry
  <2> QED
    BY <1>2, <2>1, <2>2, <2>3, <2>4 DEF Lasts
<1>10. Swept(s, p, t, pin)
  <2>1. \A id \in DOMAIN s.res : s.res[id] \in Nat
    BY DEF IsStore, IsMap
  <2>2. \A id \in DOMAIN s.res \ resultsGone(s, t, pin) : s.res[id] > t \/ id \in pin
    BY <2>1 DEF resultsGone
  <2>3. \A k \in DOMAIN s.idem : s.idem[k].expires \in Nat
    BY DEF IsStore, IsMap, IdemEntry
  <2>4. \A k \in DOMAIN s.idem \ idemGone(s, t) : k[1] \in s.devices /\ s.idem[k].expires > t
    BY <2>3 DEF idemGone
  <2> QED
    BY <1>2, <2>2, <2>4 DEF Swept
<1> QED
  BY <1>1, <1>4, <1>5, <1>6, <1>7, <1>8, <1>9, <1>10 DEF p

\* A restart only takes rows away: no queue is of an unknown device and no
\* command has to be adopted (worker.js:374-460).
LEMMA LoadedKept ==
  ASSUME NEW s, IsStore(s), NEW t \in Nat, QueueOwned(s), Registrants(s)
  PROVE  LET p == Loaded(s, t)
         IN  IsStore(p) /\ Kept(s, p) /\ Lasts(s, p, t) /\ Swept(s, p, t, {}) /\ QueueOwned(p)
<1> DEFINE k == Known(s)
           p == Purged(k, t, {})
<1>1. IsStore(k) /\ k = [s EXCEPT !.queue = k.queue] /\ k.queue = Drop(s.queue, {})
  <2>1. DOMAIN s.queue \ s.devices = {}
    BY DEF QueueOwned
  <2> QED
    BY <2>1, LoadedRows
<1>2. /\ k.devices = s.devices /\ k.own = s.own /\ k.idem = s.idem /\ k.res = s.res
      /\ k.payload = s.payload /\ k.tickets = s.tickets /\ k.pairs = s.pairs
  BY <1>1 DEF IsStore, Rows
<1> HIDE DEF k
<1>3. DOMAIN k.queue = DOMAIN s.queue /\ \A d \in DOMAIN s.queue : k.queue[d] = s.queue[d]
  <2>1. DOMAIN Drop(s.queue, {}) = DOMAIN s.queue \ {}
    BY DropMap
  <2>2. \A d \in DOMAIN s.queue \ {} : Drop(s.queue, {})[d] = s.queue[d]
    BY DropMap
  <2> QED
    BY <1>1, <2>1, <2>2
<1>4. Kept(s, k) /\ Lasts(s, k, t) /\ QueueOwned(k) /\ Registrants(k)
  BY <1>2, <1>3 DEF Kept, Lasts, QueueOwned, Registrants
<1>5. /\ IsStore(p) /\ Kept(k, p) /\ Lasts(k, p, t) /\ Swept(k, p, t, {})
      /\ QueueOwned(p) /\ Registrants(p)
  BY <1>1, <1>4, PurgedKept
<1>6. AllOwned(p)
  BY <1>5 DEF AllOwned, QueueOwned
<1> HIDE DEF p
<1>7. PICK a : IsStore(a) /\ a = [p EXCEPT !.own = a.own] /\ a.own = p.own
               /\ Loaded(s, t) = Purged(a, t, {})
  <2>1. p = Purged(Known(s), t, {})
    BY DEF p, k
  <2> HIDE DEF p
  <2> QED
    BY <1>6, <2>1, LoadedTwice
<1> HIDE DEF p
<1>8. /\ a.devices = p.devices /\ a.idem = p.idem /\ a.res = p.res
      /\ a.payload = p.payload /\ a.tickets = p.tickets /\ a.queue = p.queue /\ a.pairs = p.pairs
  BY <1>5, <1>7 DEF IsStore, Rows
<1>9. Kept(p, a) /\ Lasts(p, a, t) /\ QueueOwned(a) /\ Registrants(a)
  BY <1>5, <1>7, <1>8 DEF Kept, Lasts, QueueOwned, Registrants
<1>10. /\ IsStore(Loaded(s, t)) /\ Kept(a, Loaded(s, t)) /\ Lasts(a, Loaded(s, t), t)
       /\ Swept(a, Loaded(s, t), t, {})
       /\ QueueOwned(Loaded(s, t))
  BY <1>7, <1>9, PurgedKept
<1>11. Kept(s, p) /\ Kept(s, a) /\ Kept(s, Loaded(s, t))
  BY <1>4, <1>5, <1>9, <1>10, KeptTwice
<1>12. Lasts(s, Loaded(s, t), t)
  BY <1>4, <1>5, <1>9, <1>10, <1>11, LastsTwice
<1>13. Swept(s, Loaded(s, t), t, {})
  BY <1>2, <1>5, <1>7, <1>8, <1>10, <1>11 DEF Swept, Kept
<1> QED
  BY <1>10, <1>11, <1>12, <1>13

\* So does a load that is cut short, wherever it was (worker.js:373-458).
LEMMA CutKept ==
  ASSUME NEW s, IsStore(s), NEW t \in Nat, QueueOwned(s), Registrants(s), NEW n \in DOMAIN LoadOrder,
         NEW K \in PartLeft(s[LoadOrder[n]], Loaded(s, t)[LoadOrder[n]])
  PROVE  LET p == CutShort(s, Loaded(s, t), n, K)
         IN  /\ IsStore(p) /\ Kept(s, p) /\ Lasts(s, p, t) /\ QueueOwned(p)
             /\ DOMAIN p.pairs \subseteq DOMAIN s.pairs
             /\ \A k \in DOMAIN p.idem : p.idem[k] = s.idem[k]
<1> DEFINE l == Loaded(s, t)
           p == CutShort(s, l, n, K)
<1>1. IsStore(l) /\ Kept(s, l) /\ Lasts(s, l, t) /\ Swept(s, l, t, {}) /\ QueueOwned(l)
  BY LoadedKept
<1> HIDE DEF l
<1>2. /\ IsStore(p) /\ p.devices = s.devices
      /\ \A x \in Rows : x # "devices" => Midway(s[x], l[x], p[x])
      /\ p.own = s.own \/ p.queue = l.queue
  BY <1>1, CutRows DEF l
<1> HIDE DEF p
<1>3. /\ Midway(s.pairs, l.pairs, p.pairs) /\ Midway(s.tickets, l.tickets, p.tickets)
      /\ Midway(s.queue, l.queue, p.queue) /\ Midway(s.own, l.own, p.own)
      /\ Midway(s.idem, l.idem, p.idem) /\ Midway(s.res, l.res, p.res)
      /\ Midway(s.payload, l.payload, p.payload)
  BY <1>2 DEF Rows
<1>4. /\ DOMAIN p.own \subseteq DOMAIN s.own /\ DOMAIN l.own \subseteq DOMAIN p.own
      /\ \A id \in DOMAIN p.own : /\ p.own[id].token = s.own[id].token
                                  /\ p.own[id].expires = s.own[id].expires
                                  /\ p.own[id].done = s.own[id].done
  <2>1. /\ \A id \in DOMAIN p.own : (id \in DOMAIN s.own /\ p.own[id] = s.own[id])
                                     \/ (id \in DOMAIN l.own /\ p.own[id] = l.own[id])
        /\ DOMAIN l.own \subseteq DOMAIN s.own => DOMAIN l.own \subseteq DOMAIN p.own
    BY <1>1, <1>3, MidwayRows DEF IsStore
  <2> QED
    BY <1>1, <2>1 DEF Kept
<1>5. /\ DOMAIN p.idem \subseteq DOMAIN s.idem /\ DOMAIN l.idem \subseteq DOMAIN p.idem
      /\ \A k \in DOMAIN p.idem : p.idem[k] = s.idem[k]
  BY <1>1, <1>3, MidwayRows DEF IsStore, Kept, Swept
<1>6. /\ DOMAIN p.tickets \subseteq DOMAIN s.tickets
      /\ \A k \in DOMAIN p.tickets : p.tickets[k] = s.tickets[k]
  BY <1>1, <1>3, MidwayRows DEF IsStore, Kept
<1>7. /\ DOMAIN p.res \subseteq DOMAIN s.res /\ DOMAIN l.res \subseteq DOMAIN p.res
      /\ \A id \in DOMAIN p.res : p.res[id] = s.res[id]
  BY <1>1, <1>3, MidwayRows DEF IsStore, Kept
<1>8. /\ DOMAIN p.payload \subseteq DOMAIN s.payload /\ DOMAIN l.payload \subseteq DOMAIN p.payload
      /\ \A id \in DOMAIN p.payload : p.payload[id] = s.payload[id]
  BY <1>1, <1>3, MidwayRows DEF IsStore, Kept
<1>9. /\ DOMAIN p.queue = DOMAIN s.queue
      /\ \A d \in DOMAIN s.queue : /\ p.queue[d].last = s.queue[d].last
                                   /\ p.queue[d].items \subseteq s.queue[d].items
  <2>1. /\ \A d \in DOMAIN p.queue : (d \in DOMAIN s.queue /\ p.queue[d] = s.queue[d])
                                      \/ (d \in DOMAIN l.queue /\ p.queue[d] = l.queue[d])
        /\ DOMAIN l.queue \subseteq DOMAIN s.queue => DOMAIN l.queue \subseteq DOMAIN p.queue
    BY <1>1, <1>3, MidwayRows DEF IsStore
  <2> QED
    BY <1>1, <2>1 DEF Kept
<1>10. DOMAIN p.pairs \subseteq DOMAIN s.pairs
  BY <1>1, <1>3, MidwayRows DEF IsStore, Swept
<1>11. Kept(s, p)
  BY <1>2, <1>4, <1>5, <1>6, <1>7, <1>8, <1>9 DEF Kept
<1>12. Lasts(s, p, t)
  BY <1>1, <1>5, <1>7, <1>8 DEF Lasts
<1>13. QueueOwned(p)
  <2>1. CASE p.own = s.own
    BY <1>2, <1>9, <2>1 DEF QueueOwned
  <2>2. CASE p.queue = l.queue
    BY <1>1, <1>2, <1>4, <2>2 DEF QueueOwned, Kept
  <2> QED
    BY <1>2, <2>1, <2>2
<1> QED
  BY <1>2, <1>5, <1>10, <1>11, <1>12, <1>13 DEF p, l

-----------------------------------------------------------------------------
(* The invariant *)

\* The chain starts with no row but the devices.
LEMMA InitConsistent == Init => Consistent
<1> SUFFICES ASSUME Init PROVE Consistent
  OBVIOUS
<1>1. PICK D \in SUBSET Device : mem = Imported(D) /\ tokens = D
  BY DEF Init
<1>2. /\ disk.devices = D
      /\ DOMAIN disk.queue = {} /\ DOMAIN disk.own = {} /\ DOMAIN disk.idem = {}
      /\ DOMAIN disk.tickets = {} /\ DOMAIN disk.payload = {} /\ DOMAIN disk.res = {}
  BY <1>1 DEF Init, Imported, EmptyMap
<1>3. DOMAIN issued = {} /\ DOMAIN accepted = {} /\ taken = {}
  BY DEF Init, EmptyMap
<1>4. ChainOK /\ StreamsIssued /\ stage = "idle"
  BY DEF Init, ChainOK, StreamsIssued
<1> QED
  BY <1>1, <1>2, <1>3, <1>4
     DEF Consistent, HistoryOK, QueueOwned, OwnersIssued, RequestsIssued, LastKept, TicketsOwned,
         OneTicketPerDevice, PayloadsAccepted, ReceiptsOK, ReceiptsBacked, ReceiptsFresh

\* A step that only takes rows away needs to keep owners behind commands and
\* payloads behind receipts and streams.
LEMMA KeptConsistent ==
  ASSUME Consistent, Kept(disk, disk'), QueueOwned(disk'), ReceiptsOK',
         ReceiptsFresh', ChainOK', StreamsIssued',
         UNCHANGED <<tokens, issued, accepted>>, taken' \subseteq DOMAIN accepted
  PROVE  Consistent'
<1> USE DEF Consistent
<1>1. HistoryOK'
  BY DEF HistoryOK, Kept
<1>2. OwnersIssued'
  BY DEF OwnersIssued, Kept
<1>3. RequestsIssued'
  BY DEF RequestsIssued, Kept
<1>4. LastKept'
  BY DEF LastKept, Kept
<1>5. TicketsOwned' /\ OneTicketPerDevice'
  BY DEF TicketsOwned, OneTicketPerDevice, Kept
<1>6. PayloadsAccepted'
  BY DEF PayloadsAccepted, Kept
<1> QED
  BY <1>1, <1>2, <1>3, <1>4, <1>5, <1>6

\* Consistent rows are some registered device's.
LEMMA ConsistentRegistrants ==
  ASSUME Consistent PROVE Registrants(disk)
BY DEF Consistent, OwnersIssued, PayloadsAccepted, Registrants

\* A step of the parts outside the chain keeps all but the streams.
LEMMA OutsideConsistent ==
  ASSUME Consistent, UNCHANGED <<rows, history, cutAt>>, stage' = "down" <=> stage = "down",
         ChainOK', StreamsIssued'
  PROVE  Consistent'
<1>1. ReceiptsOK'
  BY DEF Consistent, rows, history, ReceiptsOK, ReceiptsBacked, ReceiptsCut, Overdue, Backed
<1> QED
  BY <1>1 DEF Consistent, rows, history, HistoryOK, QueueOwned, OwnersIssued, RequestsIssued, LastKept,
              TicketsOwned, OneTicketPerDevice, PayloadsAccepted, ReceiptsFresh

\* Unless the object is down, every receipt has its payload.
LEMMA BackedUp ==
  ASSUME Consistent, stage # "down"
  PROVE  ReceiptsBacked(disk)
BY DEF Consistent, ReceiptsOK

\* The purge keeps what streams have pinned.
LEMMA PurgeConsistent ==
  ASSUME TypeOK, Consistent, Purge PROVE Consistent'
<1>1. mem = disk /\ opening = None
  BY DEF Purge, Consistent, ChainOK
<1>2. disk' = Purged(disk, now, pinned) /\ mem' = disk' /\ opening' = None
  BY <1>1 DEF Purge
<1>3. /\ Kept(disk, disk') /\ QueueOwned(disk') /\ ReceiptsOK'
      /\ \A id \in DOMAIN disk.payload : id \in pinned => id \in DOMAIN disk'.payload
  <2>1. ReceiptsBacked(disk) /\ stage' = "purged"
    BY BackedUp DEF Purge
  <2>2. /\ Kept(disk, disk') /\ QueueOwned(disk') /\ ReceiptsBacked(disk')
        /\ \A id \in DOMAIN disk.payload : id \in pinned => id \in DOMAIN disk'.payload
    BY <1>2, <2>1, PurgedKept, ConsistentRegistrants DEF TypeOK, Consistent
  <2> QED
    BY <2>1, <2>2 DEF ReceiptsOK
<1>4. ReceiptsFresh'
  BY <1>3 DEF Kept, Consistent, ReceiptsFresh, Purge, history
<1>5. ChainOK'
  BY <1>2 DEF ChainOK
<1>6. StreamsIssued'
  <2> SUFFICES ASSUME NEW k \in Slot, streams[k] # None
               PROVE  /\ streams[k] \in DOMAIN issued
                      /\ issued[streams[k]].token \in disk'.devices =>
                           streams[k] \in DOMAIN disk'.payload
    BY DEF Purge, history, StreamsIssued
  <2>1. streams[k] \in pinned
    BY DEF TypeOK, pinned
  <2> QED
    BY <1>3, <2>1 DEF Kept, Consistent, StreamsIssued
<1> QED
  BY <1>3, <1>4, <1>5, <1>6, KeptConsistent DEF Purge, history, Consistent, HistoryOK

\* A restart drops the streams, the readers and a commit's unapplied rest.
LEMMA RestartConsistent ==
  ASSUME TypeOK, Consistent, Restart PROVE Consistent'
<1>1. /\ disk' = Loaded(disk, now) /\ mem' = disk' /\ opening' = None /\ stage' = "idle"
      /\ UNCHANGED history
  BY DEF Restart, Forgotten
<1>2. /\ Kept(disk, disk') /\ Lasts(disk, disk', now) /\ Swept(disk, disk', now, {})
      /\ QueueOwned(disk')
  BY <1>1, LoadedKept, ConsistentRegistrants DEF TypeOK, Consistent
<1>3. ReceiptsBacked(disk')
  <2> SUFFICES ASSUME NEW id \in DOMAIN disk'.res PROVE Backed(disk', id)
    BY DEF ReceiptsBacked
  <2>1. id \in DOMAIN disk.res /\ disk.res[id] > now /\ disk'.res[id] = disk.res[id]
    BY <1>2 DEF Kept, Swept
  <2>2. /\ id \in DOMAIN disk.payload /\ disk.payload[id].expires > now
        /\ disk.payload[id].token \in disk.devices
    BY <2>1 DEF Restart, LoadAccepts
  <2>3. disk.res[id] <= disk.payload[id].expires
    BY <2>1, <2>2 DEF Consistent, ReceiptsOK, ReceiptsBacked, ReceiptsCut, Overdue, Backed
  <2> QED
    BY <1>2, <2>1, <2>2, <2>3 DEF Kept, Lasts, Backed
<1>4. ReceiptsFresh'
  BY <1>1, <1>2 DEF Kept, Consistent, ReceiptsFresh, history
<1>5. ChainOK' /\ StreamsIssued' /\ ReceiptsOK'
  BY <1>1, <1>3 DEF ChainOK, StreamsIssued, Restart, Forgotten, ReceiptsOK
<1> QED
  BY <1>1, <1>2, <1>4, <1>5, KeptConsistent DEF history, Consistent, HistoryOK

\* What a load cut short does to storage (worker.js:373-458).
LEMMA CutDisk ==
  ASSUME TypeOK, Consistent, LoadCut
  PROVE  /\ IsStore(disk') /\ Kept(disk, disk') /\ Lasts(disk, disk', now) /\ QueueOwned(disk')
         /\ DOMAIN disk'.pairs \subseteq DOMAIN disk.pairs
         /\ \A k \in DOMAIN disk'.idem : disk'.idem[k] = disk.idem[k]
<1>1. CASE disk' = disk
  BY <1>1 DEF TypeOK, Consistent, Kept, Lasts
<1>2. CASE \E n \in DOMAIN LoadOrder :
             \E K \in PartLeft(disk[LoadOrder[n]], Loaded(disk, now)[LoadOrder[n]]) :
               disk' = CutShort(disk, Loaded(disk, now), n, K)
  <2>1. IsStore(disk) /\ now \in Nat /\ QueueOwned(disk) /\ Registrants(disk)
    BY ConsistentRegistrants DEF TypeOK, Consistent
  <2> QED
    BY <1>2, <2>1, CutKept
<1> QED
  BY <1>1, <1>2, CutCases

\* A payload goes before what refers to it, which was over when it went.
LEMMA CutConsistent ==
  ASSUME TypeOK, Consistent, LoadCut PROVE Consistent'
<1>1. /\ mem' = disk' /\ opening' = None /\ stage' = "down" /\ UNCHANGED history
      /\ cutAt' = IF disk'.payload # disk.payload /\ now > cutAt THEN now ELSE cutAt
  BY DEF LoadCut, Forgotten
<1>2. Kept(disk, disk') /\ Lasts(disk, disk', now) /\ QueueOwned(disk') /\ IsStore(disk')
  BY CutDisk
<1>3. ReceiptsCut(disk)'
  <2> SUFFICES ASSUME NEW id \in DOMAIN disk'.res
               PROVE  \/ Backed(disk', id)
                      \/ /\ id \notin DOMAIN disk'.payload /\ disk'.res[id] <= cutAt'
                         /\ id \in DOMAIN issued /\ issued[id].token \in disk.devices
    BY <1>1, <1>2 DEF ReceiptsCut, Overdue, Backed, Kept, history
  <2>1. id \in DOMAIN disk.res /\ disk'.res[id] = disk.res[id] /\ disk.res[id] \in Nat
    BY <1>2 DEF Kept, TypeOK, IsStore, IsMap
  <2>2. cutAt \in Nat /\ now \in Nat /\ cutAt' >= cutAt
    BY <1>1 DEF TypeOK
  <2>3. CASE id \in DOMAIN disk'.payload
    <3>1. id \in DOMAIN disk.payload /\ disk'.payload[id] = disk.payload[id]
      BY <1>2, <2>3 DEF Kept
    <3>2. disk.res[id] <= disk.payload[id].expires
      BY <2>1, <3>1 DEF Consistent, ReceiptsOK, ReceiptsBacked, ReceiptsCut, Overdue, Backed
    <3> QED
      BY <2>1, <2>3, <3>1, <3>2 DEF Backed
  <2>4. CASE id \notin DOMAIN disk'.payload /\ id \in DOMAIN disk.payload
    <3>1. /\ disk.payload[id].token \in disk.devices /\ disk.payload[id].expires \in Nat
          /\ disk.res[id] <= disk.payload[id].expires
      BY <2>1, <2>4 DEF Consistent, PayloadsAccepted, ReceiptsOK, ReceiptsBacked, ReceiptsCut, Overdue, Backed,
                        TypeOK, IsStore, IsMap, Payload
    <3>2. disk.payload[id].expires <= now
      BY <1>2, <2>2, <2>4, <3>1 DEF Lasts
    <3>3. now <= cutAt'
      BY <1>1, <2>2, <2>4
    <3>4. cutAt' \in Nat
      BY <1>1, <2>2
    <3>5. id \in DOMAIN issued /\ issued[id].token \in disk.devices
      BY <2>4 DEF Consistent, PayloadsAccepted, HistoryOK
    <3> QED
      BY <2>1, <2>2, <2>4, <3>1, <3>2, <3>3, <3>4, <3>5
  <2>5. CASE id \notin DOMAIN disk.payload
    <3>1. disk.res[id] <= cutAt /\ id \in DOMAIN issued /\ issued[id].token \in disk.devices
      BY <2>1, <2>5 DEF Consistent, ReceiptsOK, ReceiptsBacked, ReceiptsCut, Overdue, Backed
    <3>2. id \notin DOMAIN disk'.payload /\ cutAt' \in Nat
      BY <1>1, <1>2, <2>2, <2>5 DEF Kept
    <3> QED
      BY <2>1, <2>2, <3>1, <3>2
  <2> QED
    BY <2>3, <2>4, <2>5
<1>4. ReceiptsFresh'
  BY <1>1, <1>2 DEF Kept, Consistent, ReceiptsFresh, history
<1>5. ChainOK' /\ StreamsIssued' /\ ReceiptsOK'
  BY <1>1, <1>3 DEF ChainOK, StreamsIssued, LoadCut, Forgotten, ReceiptsOK
<1> QED
  BY <1>1, <1>2, <1>4, <1>5, KeptConsistent DEF history, Consistent, HistoryOK

-----------------------------------------------------------------------------
(* The mutations *)

\* A mutation runs on memory that is what storage holds.
LEMMA ChainStart ==
  ASSUME Consistent, stage # "written"
  PROVE  mem = disk /\ opening = None
BY DEF Consistent, ChainOK

\* A commit that only takes rows away, and neither a payload nor an owner.
LEMMA CommittedKept ==
  ASSUME Consistent, stage # "written", UNCHANGED <<streams, opening, history>>,
         stage' = "written", Kept(disk, disk'), QueueOwned(disk'), ReceiptsBacked(disk'),
         DOMAIN disk'.payload = DOMAIN disk.payload
  PROVE  Consistent'
<1>1. opening = None
  BY ChainStart
<1>2. ChainOK' /\ StreamsIssued'
  BY <1>1 DEF ChainOK, StreamsIssued, Consistent, Kept, history
<1>3. ReceiptsFresh' /\ ReceiptsOK'
  BY DEF Kept, Consistent, ReceiptsFresh, ReceiptsOK, history
<1> QED
  BY <1>2, <1>3, KeptConsistent DEF history, Consistent, HistoryOK

\* A pairing code is none of the rows the invariant is about.
LEMMA AddPairConsistent ==
  ASSUME TypeOK, Consistent, NEW code \in Code, AddPair(code) PROVE Consistent'
<1>0. ReceiptsBacked(disk) /\ stage' = "written"
  BY BackedUp DEF AddPair, Commit
<1>1. mem = disk
  BY ChainStart DEF AddPair
<1>2. disk' = PairAdded(disk, code, now)
  BY <1>1 DEF AddPair, Commit
<1>3. IsStore(disk') /\ disk' = [disk EXCEPT !.pairs = disk'.pairs]
  BY <1>2, PairAddedRows DEF TypeOK
<1>4. /\ disk'.devices = disk.devices /\ disk'.own = disk.own /\ disk'.idem = disk.idem
      /\ disk'.tickets = disk.tickets /\ disk'.res = disk.res
      /\ disk'.payload = disk.payload /\ disk'.queue = disk.queue
  BY <1>3 DEF TypeOK, IsStore, Rows
<1>5. Kept(disk, disk') /\ QueueOwned(disk') /\ ReceiptsBacked(disk')
  BY <1>0, <1>4 DEF Kept, Consistent, QueueOwned, ReceiptsBacked, Backed
<1> QED
  BY <1>4, <1>5, CommittedKept DEF AddPair, Commit

\* A used ticket is a row less.
LEMMA UseTicketConsistent ==
  ASSUME TypeOK, Consistent, NEW k \in Ticket, UseTicket(k) PROVE Consistent'
<1>0. ReceiptsBacked(disk) /\ stage' = "written"
  BY BackedUp DEF UseTicket, Commit
<1>1. mem = disk
  BY ChainStart DEF UseTicket
<1>2. disk' = TicketUsed(disk, k)
  BY <1>1 DEF UseTicket, Commit
<1>3. IsStore(disk') /\ disk' = [disk EXCEPT !.tickets = Drop(disk.tickets, {k})]
  BY <1>2, TicketUsedRows DEF TypeOK
<1>4. /\ disk'.devices = disk.devices /\ disk'.own = disk.own /\ disk'.idem = disk.idem
      /\ disk'.tickets = Drop(disk.tickets, {k}) /\ disk'.res = disk.res
      /\ disk'.payload = disk.payload /\ disk'.queue = disk.queue
  BY <1>3 DEF TypeOK, IsStore, Rows
<1>5. /\ DOMAIN disk'.tickets \subseteq DOMAIN disk.tickets
      /\ \A l \in DOMAIN disk'.tickets : disk'.tickets[l] = disk.tickets[l]
  BY <1>4 DEF Drop, Restrict
<1>6. Kept(disk, disk') /\ QueueOwned(disk') /\ ReceiptsBacked(disk')
  BY <1>0, <1>4, <1>5 DEF Kept, Consistent, QueueOwned, ReceiptsBacked, Backed
<1> QED
  BY <1>4, <1>6, CommittedKept DEF UseTicket, Commit

\* A queue that only loses commands stays owned.
LEMMA ShorterQueue ==
  ASSUME NEW s, IsStore(s), NEW p, p = [s EXCEPT !.queue = p.queue], NEW d \in DOMAIN s.queue,
         NEW I \in SUBSET s.queue[d].items,
         p.queue = Put(s.queue, d, [last |-> s.queue[d].last, items |-> I])
  PROVE  /\ Kept(s, p) /\ p.payload = s.payload
         /\ QueueOwned(s) => QueueOwned(p)
         /\ ReceiptsBacked(s) => ReceiptsBacked(p)
<1>1. /\ p.devices = s.devices /\ p.own = s.own /\ p.idem = s.idem
      /\ p.tickets = s.tickets /\ p.res = s.res /\ p.payload = s.payload
  BY DEF IsStore, Rows
<1> DEFINE q == [last |-> s.queue[d].last, items |-> I]
<1>2. q.last = s.queue[d].last /\ q.items = I
  OBVIOUS
<1>3. p.queue = Put(s.queue, d, q)
  OBVIOUS
<1> HIDE DEF q
<1>4. /\ DOMAIN p.queue = DOMAIN s.queue
      /\ p.queue[d] = q
      /\ \A e \in DOMAIN s.queue : e # d => p.queue[e] = s.queue[e]
  BY <1>3 DEF Put
<1>5. \A e \in DOMAIN s.queue : /\ p.queue[e].last = s.queue[e].last
                                /\ p.queue[e].items \subseteq s.queue[e].items
  BY <1>2, <1>4
<1>6. Kept(s, p)
  BY <1>1, <1>4, <1>5 DEF Kept
<1>7. QueueOwned(s) => QueueOwned(p)
  BY <1>1, <1>4, <1>5 DEF QueueOwned
<1> QED
  BY <1>1, <1>6, <1>7 DEF ReceiptsBacked, Backed

\* An acknowledgement shortens one queue.
LEMMA AckConsistent ==
  ASSUME TypeOK, Consistent, NEW d \in Device, NEW seq, Ack(d, seq) PROVE Consistent'
<1>0. ReceiptsBacked(disk) /\ stage' = "written"
  BY BackedUp DEF Ack, Commit
<1>1. mem = disk
  BY ChainStart DEF Ack
<1>2. disk' = Acked(disk, d, seq) /\ d \in DOMAIN disk.queue
  BY <1>1 DEF Ack, Commit, CanAck
<1> DEFINE I == {c \in disk.queue[d].items : c.seq > seq}
<1>3. /\ disk' = [disk EXCEPT !.queue = disk'.queue]
      /\ disk'.queue = Put(disk.queue, d, [last |-> disk.queue[d].last, items |-> I])
  BY <1>2, AckedRows DEF TypeOK
<1>4. I \in SUBSET disk.queue[d].items
  OBVIOUS
<1> HIDE DEF I
<1>5. /\ Kept(disk, disk') /\ disk'.payload = disk.payload
      /\ QueueOwned(disk') /\ ReceiptsBacked(disk')
  BY <1>0, <1>2, <1>3, <1>4, ShorterQueue DEF TypeOK, Consistent
<1> QED
  BY <1>5, CommittedKept DEF Ack, Commit

\* So does the destructive poll.
LEMMA LegacyPollConsistent ==
  ASSUME TypeOK, Consistent, NEW d \in Device, LegacyPoll(d) PROVE Consistent'
<1>0. ReceiptsBacked(disk) /\ stage' = "written"
  BY BackedUp DEF LegacyPoll, Commit
<1>1. mem = disk
  BY ChainStart DEF LegacyPoll
<1>2. disk' = LegacyPolled(disk, d, now)
  BY <1>1 DEF LegacyPoll, Commit
<1>3. d \in DOMAIN disk.queue
  BY <1>1 DEF LegacyPoll, CanLegacyPoll, pending, QueueOf, Fresh
<1>4. PICK I \in SUBSET disk.queue[d].items :
        disk'.queue = Put(disk.queue, d, [last |-> disk.queue[d].last, items |-> I])
  <2>1. IsStore(disk)
    BY DEF TypeOK
  <2> QED
    BY <1>2, <1>3, <2>1, LegacyPolledRows
<1>5. disk' = [disk EXCEPT !.queue = disk'.queue]
  BY <1>2, <1>3, LegacyPolledRows DEF TypeOK
<1>6. /\ Kept(disk, disk') /\ disk'.payload = disk.payload
      /\ QueueOwned(disk') /\ ReceiptsBacked(disk')
  BY <1>0, <1>3, <1>4, <1>5, ShorterQueue DEF TypeOK, Consistent
<1> QED
  BY <1>6, CommittedKept DEF LegacyPoll, Commit

\* A device's new ticket replaces its last one (worker.js:984-989).
LEMMA IssueTicketConsistent ==
  ASSUME TypeOK, Consistent, NEW k \in Ticket, NEW d \in Device, IssueTicket(k, d)
  PROVE  Consistent'
<1>0. ReceiptsBacked(disk) /\ stage' = "written"
  BY BackedUp DEF IssueTicket, Commit
<1>1. mem = disk /\ opening = None
  BY ChainStart DEF IssueTicket
<1>2. disk' = TicketIssued(disk, k, d, now) /\ d \in disk.devices
  BY <1>1 DEF IssueTicket, Commit, CanIssueTicket
<1>3. /\ disk' = [disk EXCEPT !.tickets = disk'.tickets]
      /\ DOMAIN disk'.tickets = (DOMAIN disk.tickets \ TicketsOf(disk, d)) \cup {k}
      /\ disk'.tickets[k].token = d
      /\ \A l \in DOMAIN disk.tickets \ TicketsOf(disk, d) :
           l # k => disk'.tickets[l] = disk.tickets[l]
  BY <1>2, TicketIssuedRows DEF TypeOK
<1>4. /\ disk'.devices = disk.devices /\ disk'.own = disk.own /\ disk'.idem = disk.idem
      /\ disk'.res = disk.res /\ disk'.payload = disk.payload /\ disk'.queue = disk.queue
  BY <1>3 DEF TypeOK, IsStore, Rows
<1>5. TicketsOwned'
  BY <1>2, <1>3, <1>4 DEF Consistent, TicketsOwned
<1>6. OneTicketPerDevice'
  BY <1>3 DEF Consistent, OneTicketPerDevice, TicketsOf
<1>7. ChainOK' /\ StreamsIssued'
  BY <1>1, <1>4 DEF IssueTicket, Commit, Consistent, ChainOK, StreamsIssued, history
<1>8. /\ HistoryOK' /\ QueueOwned(disk') /\ OwnersIssued' /\ RequestsIssued' /\ LastKept'
      /\ PayloadsAccepted' /\ ReceiptsBacked(disk') /\ ReceiptsFresh'
  BY <1>0, <1>4 DEF IssueTicket, history, Consistent, HistoryOK, QueueOwned, OwnersIssued,
             RequestsIssued, LastKept, PayloadsAccepted, ReceiptsBacked, Backed, ReceiptsFresh
<1> QED
  BY <1>0, <1>5, <1>6, <1>7, <1>8 DEF Consistent, ReceiptsOK

\* A new device has a token no command was ever issued for.
LEMMA RegisterConsistent ==
  ASSUME TypeOK, Consistent, NEW code \in Code, NEW d \in Device, Register(code, d)
  PROVE  Consistent'
<1>0. ReceiptsBacked(disk) /\ stage' = "written"
  BY BackedUp DEF Register, Commit
<1>1. mem = disk /\ opening = None
  BY ChainStart DEF Register
<1>2. disk' = Registered(disk, code, d) /\ d \notin tokens
  BY <1>1 DEF Register, Commit
<1>3. /\ disk'.devices = disk.devices \cup {d}
      /\ disk' = [disk EXCEPT !.devices = disk'.devices, !.pairs = disk'.pairs]
  BY <1>2, RegisteredRows DEF TypeOK
<1>4. /\ disk'.own = disk.own /\ disk'.idem = disk.idem /\ disk'.tickets = disk.tickets
      /\ disk'.res = disk.res /\ disk'.payload = disk.payload /\ disk'.queue = disk.queue
  BY <1>3 DEF TypeOK, IsStore, Rows
<1>5. \A id \in DOMAIN issued : issued[id].token # d
  BY <1>2 DEF Consistent, HistoryOK
<1>6. tokens' = tokens \cup {d} /\ UNCHANGED <<opening, issued, accepted, taken, streams>>
  BY DEF Register, Commit
<1>7. HistoryOK'
  BY <1>3, <1>6 DEF Consistent, HistoryOK
<1>8. LastKept'
  BY <1>3, <1>4, <1>5, <1>6 DEF Consistent, LastKept
<1>9. ChainOK' /\ StreamsIssued'
  BY <1>1, <1>3, <1>4, <1>5, <1>6 DEF Register, Commit, Consistent, ChainOK, StreamsIssued
<1>10. /\ QueueOwned(disk') /\ OwnersIssued' /\ RequestsIssued' /\ TicketsOwned'
       /\ OneTicketPerDevice' /\ PayloadsAccepted' /\ ReceiptsBacked(disk') /\ ReceiptsFresh'
  BY <1>0, <1>3, <1>4, <1>6 DEF Consistent, QueueOwned, OwnersIssued, RequestsIssued, TicketsOwned,
     OneTicketPerDevice, PayloadsAccepted, ReceiptsBacked, Backed, ReceiptsFresh
<1> QED
  BY <1>0, <1>7, <1>8, <1>9, <1>10 DEF Consistent, ReceiptsOK

\* Revocation takes every row of one device and no other's: the ids it names
\* were all issued for that device (worker.js:501-518).
LEMMA RemoveDeviceConsistent ==
  ASSUME TypeOK, Consistent, NEW d \in Device, RemoveDevice(d) PROVE Consistent'
<1>0. ReceiptsBacked(disk) /\ stage' = "written"
  BY BackedUp DEF RemoveDevice, Commit
<1>1. mem = disk /\ opening = None
  BY ChainStart DEF RemoveDevice
<1>2. disk' = DeviceRemoved(disk, d)
  BY <1>1 DEF RemoveDevice, Commit
<1>20. IsStore(disk)
  BY DEF TypeOK
<1>3. /\ disk'.devices = disk.devices \ {d}
      /\ disk'.queue = Drop(disk.queue, {d})
      /\ disk'.idem = Drop(disk.idem, RequestsOf(disk, d))
      /\ disk'.tickets = Drop(disk.tickets, TicketsOf(disk, d))
      /\ disk'.own = Drop(disk.own, RowsOf(disk, d))
      /\ disk'.res = Drop(disk.res, RowsOf(disk, d))
      /\ disk'.payload = Drop(disk.payload, RowsOf(disk, d))
  BY <1>2, <1>20 DEF DeviceRemoved, IsStore, Rows
<1>4. UNCHANGED <<opening, streams, history>>
  BY DEF RemoveDevice, Commit
<1>5. \A id \in RowsOf(disk, d) : id \in DOMAIN issued /\ issued[id].token = d
  BY DEF RowsOf, RequestsOf, Consistent, OwnersIssued, RequestsIssued, PayloadsAccepted, HistoryOK
<1>6. \A id \in DOMAIN disk.payload : issued[id].token = d => id \in RowsOf(disk, d)
  BY DEF RowsOf, Consistent, PayloadsAccepted
<1>7. \A id \in DOMAIN disk.own : issued[id].token = d => id \in RowsOf(disk, d)
  BY DEF RowsOf, Consistent, OwnersIssued
<1> DEFINE R == RowsOf(disk, d)
<1> HIDE DEF R
<1>8. /\ DOMAIN disk'.queue = DOMAIN disk.queue \ {d}
      /\ \A e \in DOMAIN disk.queue \ {d} : disk'.queue[e] = disk.queue[e]
  BY <1>3 DEF Drop, Restrict
<1>9. /\ DOMAIN disk'.own = DOMAIN disk.own \ R
      /\ \A id \in DOMAIN disk.own \ R : disk'.own[id] = disk.own[id]
      /\ DOMAIN disk'.res = DOMAIN disk.res \ R
      /\ \A id \in DOMAIN disk.res \ R : disk'.res[id] = disk.res[id]
      /\ DOMAIN disk'.payload = DOMAIN disk.payload \ R
      /\ \A id \in DOMAIN disk.payload \ R : disk'.payload[id] = disk.payload[id]
  BY <1>3 DEF Drop, Restrict, R
<1>10. /\ \A k \in DOMAIN disk'.idem : /\ k \in DOMAIN disk.idem /\ k[1] # d
                                       /\ disk'.idem[k] = disk.idem[k]
       /\ \A k \in DOMAIN disk'.tickets : /\ k \in DOMAIN disk.tickets
                                          /\ disk.tickets[k].token # d
                                          /\ disk'.tickets[k] = disk.tickets[k]
  BY <1>3 DEF Drop, Restrict, TicketsOf, RequestsOf
<1>11. /\ \A id \in R : id \in DOMAIN issued /\ issued[id].token = d
       /\ \A id \in DOMAIN disk.payload : issued[id].token = d => id \in R
       /\ \A id \in DOMAIN disk.own : issued[id].token = d => id \in R
  BY <1>5, <1>6, <1>7 DEF R
<1>12. HistoryOK'
  BY <1>3, <1>4 DEF Consistent, HistoryOK, history
<1>13. QueueOwned(disk')
  <2> SUFFICES ASSUME NEW e \in DOMAIN disk'.queue
               PROVE  /\ e \in disk'.devices
                      /\ \A c \in disk'.queue[e].items :
                           /\ c.id \in DOMAIN disk'.own
                           /\ disk'.own[c.id].token = e
                           /\ c.at + QUEUE_KEEP <= disk'.own[c.id].expires
    BY DEF QueueOwned
  <2>1. e \in DOMAIN disk.queue /\ e # d /\ disk'.queue[e] = disk.queue[e]
    BY <1>8
  <2>2. e \in disk'.devices
    BY <1>3, <2>1 DEF Consistent, QueueOwned
  <2> SUFFICES ASSUME NEW c \in disk.queue[e].items
               PROVE  /\ c.id \in DOMAIN disk'.own
                      /\ disk'.own[c.id].token = e
                      /\ c.at + QUEUE_KEEP <= disk'.own[c.id].expires
    BY <2>1, <2>2
  <2>3. /\ c.id \in DOMAIN disk.own /\ disk.own[c.id].token = e
        /\ c.at + QUEUE_KEEP <= disk.own[c.id].expires
    BY <2>1 DEF Consistent, QueueOwned
  <2>4. c.id \notin R
    BY <1>11, <2>1, <2>3 DEF Consistent, OwnersIssued
  <2> QED
    BY <1>9, <2>3, <2>4
<1>14. OwnersIssued'
  BY <1>3, <1>4, <1>9, <1>11 DEF Consistent, OwnersIssued, history
<1>15. RequestsIssued' /\ TicketsOwned' /\ OneTicketPerDevice'
  BY <1>3, <1>4, <1>10 DEF Consistent, RequestsIssued, TicketsOwned, OneTicketPerDevice, history
<1>16. LastKept'
  BY <1>3, <1>4, <1>8 DEF Consistent, LastKept, history
<1>17. PayloadsAccepted'
  BY <1>3, <1>4, <1>9, <1>11 DEF Consistent, PayloadsAccepted, history
<1>18. ReceiptsBacked(disk') /\ ReceiptsFresh'
  BY <1>0, <1>4, <1>9 DEF Consistent, ReceiptsBacked, Backed, ReceiptsFresh, history
<1>19. ChainOK' /\ StreamsIssued'
  BY <1>1, <1>3, <1>4, <1>9, <1>11
     DEF RemoveDevice, Commit, Consistent, ChainOK, StreamsIssued, history
<1> QED
  BY <1>0, <1>12, <1>13, <1>14, <1>15, <1>16, <1>17, <1>18, <1>19 DEF Consistent, ReceiptsOK

\* A new command is owned before it can be delivered and numbered after every
\* command its device was given (worker.js:536-550).
LEMMA EnqueueConsistent ==
  ASSUME TypeOK, Consistent, NEW d \in Device, NEW req \in Request \cup {None}, NEW id \in Cmd,
         Enqueue(d, req, id)
  PROVE  Consistent'
<1>0. ReceiptsBacked(disk) /\ stage' = "written"
  BY BackedUp DEF Enqueue, Commit
<1> DEFINE seq   == nextSeq(disk, d, now)
           cmd   == [id |-> id, seq |-> seq, at |-> now]
           q     == [last |-> seq, items |-> pending(disk, d, now) \cup {cmd}]
           owner == [token |-> d, expires |-> now + OWNER_TTL, done |-> FALSE, consumed |-> FALSE]
           entry == [cmd |-> id, expires |-> now + OWNER_TTL, resultId |-> None]
           rec   == [token |-> d, req |-> req, seq |-> seq, at |-> now]
<1>1. mem = disk /\ opening = None
  BY ChainStart DEF Enqueue
<1>2. /\ disk' = Enqueued(disk, d, req, id, now) /\ d \in disk.devices
      /\ id \notin DOMAIN issued /\ issued' = Put(issued, id, rec)
      /\ UNCHANGED <<opening, streams, tokens, accepted, taken>> /\ d \in tokens
  BY <1>1 DEF Enqueue, Commit, CanEnqueue
<1>3. /\ disk' = [disk EXCEPT !.queue = disk'.queue, !.own = disk'.own, !.idem = disk'.idem]
      /\ disk'.queue = Put(disk.queue, d, q)
      /\ disk'.own = Put(disk.own, id, owner)
      /\ req = None => disk'.idem = disk.idem
      /\ req # None => disk'.idem = Put(disk.idem, <<d, req>>, entry)
  <2> DEFINE idem == IF req = None THEN disk.idem ELSE Put(disk.idem, <<d, req>>, entry)
  <2>1. disk' = [disk EXCEPT !.queue = Put(disk.queue, d, q), !.own = Put(disk.own, id, owner),
                             !.idem = idem]
    BY <1>2 DEF Enqueued, TypeOK, IsStore, Rows
  <2> HIDE DEF q, owner, idem
  <2>2. /\ disk'.queue = Put(disk.queue, d, q) /\ disk'.own = Put(disk.own, id, owner)
        /\ disk'.idem = idem
        /\ disk' = [disk EXCEPT !.queue = disk'.queue, !.own = disk'.own, !.idem = disk'.idem]
    BY <2>1 DEF TypeOK, IsStore, Rows
  <2> QED
    BY <2>2 DEF idem
<1>4. /\ disk'.devices = disk.devices /\ disk'.tickets = disk.tickets
      /\ disk'.res = disk.res /\ disk'.payload = disk.payload
  BY <1>3 DEF TypeOK, IsStore, Rows
<1>5. seq \in Nat /\ seq > QueueOf(disk, d).last
  BY NextSeqGrows DEF TypeOK
<1> HIDE DEF seq
<1>6. /\ q.last = seq /\ q.items = pending(disk, d, now) \cup {cmd}
      /\ cmd.id = id /\ cmd.at = now
      /\ owner.token = d /\ owner.expires = now + OWNER_TTL /\ owner.done = FALSE
      /\ entry.cmd = id /\ rec.token = d /\ rec.seq = seq
  OBVIOUS
<1> HIDE DEF cmd, q, owner, entry, rec
<1>7. /\ DOMAIN disk'.queue = DOMAIN disk.queue \cup {d} /\ disk'.queue[d] = q
      /\ \A e \in DOMAIN disk.queue : e # d => disk'.queue[e] = disk.queue[e]
  BY <1>3 DEF Put
<1>8. /\ DOMAIN disk'.own = DOMAIN disk.own \cup {id} /\ disk'.own[id] = owner
      /\ \A i \in DOMAIN disk.own : i # id => disk'.own[i] = disk.own[i]
  BY <1>3 DEF Put
<1>9. /\ DOMAIN issued' = DOMAIN issued \cup {id} /\ issued'[id] = rec
      /\ \A i \in DOMAIN issued : issued'[i] = issued[i]
  BY <1>2 DEF Put
<1>10. \A k \in DOMAIN disk'.idem :
         \/ k \in DOMAIN disk.idem /\ disk'.idem[k] = disk.idem[k]
         \/ k[1] = d /\ disk'.idem[k].cmd = id
  <2>1. CASE req = None
    BY <1>3, <2>1
  <2>2. CASE req # None
    <3> DEFINE key == <<d, req>>
    <3>1. key[1] = d
      OBVIOUS
    <3> HIDE DEF key
    <3>2. /\ DOMAIN disk'.idem = DOMAIN disk.idem \cup {key} /\ disk'.idem[key] = entry
          /\ \A k \in DOMAIN disk.idem : k # key => disk'.idem[k] = disk.idem[k]
      BY <1>3, <2>2 DEF Put, key
    <3> QED
      BY <1>6, <3>1, <3>2
  <2> QED
    BY <2>1, <2>2
<1>11. id \notin DOMAIN disk.own /\ id \notin DOMAIN accepted
  BY <1>2 DEF Consistent, OwnersIssued, HistoryOK
<1>12. HistoryOK'
  BY <1>2, <1>4, <1>6, <1>9 DEF Consistent, HistoryOK
<1>13. QueueOwned(disk')
  <2> SUFFICES ASSUME NEW e \in DOMAIN disk'.queue
               PROVE  /\ e \in disk'.devices
                      /\ \A c \in disk'.queue[e].items :
                           /\ c.id \in DOMAIN disk'.own
                           /\ disk'.own[c.id].token = e
                           /\ c.at + QUEUE_KEEP <= disk'.own[c.id].expires
    BY DEF QueueOwned
  <2>1. e \in disk'.devices
    BY <1>2, <1>4, <1>7 DEF Consistent, QueueOwned
  <2> SUFFICES ASSUME NEW c \in disk'.queue[e].items
               PROVE  /\ c.id \in DOMAIN disk'.own
                      /\ disk'.own[c.id].token = e
                      /\ c.at + QUEUE_KEEP <= disk'.own[c.id].expires
    BY <2>1
  <2>2. CASE e = d /\ c = cmd
    BY <1>6, <1>8, <2>2, LifetimeAssumption DEF TypeOK, OWNER_TTL
  <2>3. CASE ~(e = d /\ c = cmd)
    <3>1. e \in DOMAIN disk.queue /\ c \in disk.queue[e].items
      BY <1>6, <1>7, <2>3 DEF pending, QueueOf, Fresh
    <3>2. /\ c.id \in DOMAIN disk.own /\ disk.own[c.id].token = e
          /\ c.at + QUEUE_KEEP <= disk.own[c.id].expires
      BY <3>1 DEF Consistent, QueueOwned
    <3> QED
      BY <1>8, <1>11, <3>2
  <2> QED
    BY <2>2, <2>3
<1>14. OwnersIssued'
  BY <1>2, <1>4, <1>6, <1>8, <1>9, <1>11 DEF Consistent, OwnersIssued
<1>15. RequestsIssued'
  BY <1>2, <1>4, <1>6, <1>9, <1>10 DEF Consistent, RequestsIssued
<1>16. LastKept'
  <2> SUFFICES ASSUME NEW i \in DOMAIN issued', issued'[i].token \in disk'.devices
               PROVE  /\ issued'[i].token \in DOMAIN disk'.queue
                      /\ issued'[i].seq <= disk'.queue[issued'[i].token].last
    BY DEF LastKept
  <2>1. CASE i = id
    BY <1>5, <1>6, <1>7, <1>9, <2>1
  <2>2. CASE i # id
    <3>1. /\ i \in DOMAIN issued /\ issued'[i] = issued[i]
          /\ issued[i].token \in DOMAIN disk.queue
          /\ issued[i].seq <= disk.queue[issued[i].token].last
      BY <1>4, <1>9, <2>2 DEF Consistent, LastKept
    <3>2. CASE issued[i].token # d
      BY <1>7, <3>1, <3>2
    <3>3. CASE issued[i].token = d
      <4>1. disk.queue[d].last \in Nat /\ issued[i].seq \in Nat
        BY <3>1, <3>3 DEF TypeOK, IsStore, IsMap, Queue, Issue
      <4>2. QueueOf(disk, d).last = disk.queue[d].last
        BY <3>1, <3>3 DEF QueueOf
      <4> QED
        BY <1>5, <1>6, <1>7, <3>1, <3>3, <4>1, <4>2
    <3> QED
      BY <3>2, <3>3
  <2> QED
    BY <2>1, <2>2
<1>17. TicketsOwned' /\ OneTicketPerDevice'
  BY <1>4 DEF Consistent, TicketsOwned, OneTicketPerDevice
<1>18. PayloadsAccepted'
  BY <1>2, <1>4, <1>9 DEF Consistent, PayloadsAccepted, HistoryOK
<1>19. ReceiptsBacked(disk') /\ ReceiptsFresh'
  BY <1>0, <1>2, <1>4 DEF Consistent, ReceiptsBacked, Backed, ReceiptsFresh
<1>20. ChainOK'
  BY <1>1, <1>2 DEF Enqueue, Commit, Consistent, ChainOK
<1>21. StreamsIssued'
  BY <1>2, <1>4, <1>9 DEF Consistent, StreamsIssued
<1> QED
  BY <1>0, <1>12, <1>13, <1>14, <1>15, <1>16, <1>17, <1>18, <1>19, <1>20, <1>21 DEF Consistent, ReceiptsOK

-----------------------------------------------------------------------------
(* Results and readers *)

\* The first result of a command is stored with its receipt; a command that has
\* one is refused by its owner's done flag (worker.js:614-639).
LEMMA AcceptConsistent ==
  ASSUME TypeOK, Consistent, NEW d \in Device, NEW id \in Cmd, NEW body \in Body,
         AcceptResult(d, id, body)
  PROVE  Consistent'
<1>0. ReceiptsBacked(disk) /\ stage' = "written"
  BY BackedUp DEF AcceptResult, Commit
<1> DEFINE rec == [by |-> d, body |-> stored(disk, body), until |-> now + RESULT_TTL]
<1>1. mem = disk /\ opening = None
  BY ChainStart DEF AcceptResult
<1>2. /\ disk' = Accepted(disk, id, body, now)
      /\ id \in DOMAIN disk.own /\ disk.own[id].token = d /\ ~disk.own[id].done
      /\ d \in disk.devices
      /\ UNCHANGED <<opening, streams, tokens, issued, taken>>
  BY <1>1 DEF AcceptResult, Commit, CanAccept
<1>3. id \notin DOMAIN accepted /\ id \in DOMAIN issued /\ issued[id].token = d
  BY <1>2 DEF Consistent, OwnersIssued
<1>4. accepted' = Put(accepted, id, rec)
  BY <1>1, <1>3 DEF AcceptResult
<1>5. IsStore(disk) /\ now \in Nat /\ now + RESULT_TTL \in Nat
  BY LifetimeAssumption DEF TypeOK
<1>6. /\ disk'.devices = disk.devices /\ disk'.tickets = disk.tickets /\ disk'.queue = disk.queue
      /\ DOMAIN disk'.idem = DOMAIN disk.idem
      /\ \A k \in DOMAIN disk.idem : disk'.idem[k].cmd = disk.idem[k].cmd
  BY <1>2, <1>5, AcceptedRows
<1>7. rec.by = d /\ rec.body = stored(disk, body)
  OBVIOUS
<1> HIDE DEF rec
<1>11. /\ DOMAIN disk'.payload = DOMAIN disk.payload \cup {id}
       /\ disk'.payload[id].body = stored(disk, body) /\ disk'.payload[id].token = d
       /\ disk'.payload[id].expires >= now + RESULT_TTL
       /\ \A i \in DOMAIN disk.payload : i # id => disk'.payload[i] = disk.payload[i]
  BY <1>2, <1>5, AcceptedRows
<1>12. /\ DOMAIN disk'.res = DOMAIN disk.res \cup {id} /\ disk'.res[id] = now + RESULT_TTL
       /\ \A i \in DOMAIN disk.res : i # id => disk'.res[i] = disk.res[i]
  BY <1>2, <1>5, AcceptedRows
<1>13. /\ DOMAIN disk'.own = DOMAIN disk.own /\ disk'.own[id].done
       /\ \A i \in DOMAIN disk.own : /\ disk'.own[i].token = disk.own[i].token
                                     /\ disk'.own[i].expires = disk.own[i].expires
                                     /\ i # id => disk'.own[i] = disk.own[i]
  BY <1>2, <1>5, AcceptedRows
<1>14. /\ DOMAIN accepted' = DOMAIN accepted \cup {id} /\ accepted'[id] = rec
       /\ \A i \in DOMAIN accepted : i # id => accepted'[i] = accepted[i]
  BY <1>4 DEF Put
<1>15. HistoryOK'
  BY <1>2, <1>3, <1>6, <1>7, <1>14 DEF Consistent, HistoryOK
<1>16. \A i \in DOMAIN disk.own : /\ disk'.own[i].token = disk.own[i].token
                                  /\ disk'.own[i].expires = disk.own[i].expires
  BY <1>13
<1>17. QueueOwned(disk')
  BY <1>6, <1>13, <1>16 DEF Consistent, QueueOwned
<1>18. OwnersIssued'
  <2> SUFFICES ASSUME NEW i \in DOMAIN disk.own
               PROVE  /\ disk'.own[i].token \in disk'.devices
                      /\ i \in DOMAIN issued
                      /\ disk'.own[i].token = issued[i].token
                      /\ i \in DOMAIN accepted' => disk'.own[i].done
    BY <1>2, <1>13 DEF OwnersIssued
  <2>1. CASE i = id
    BY <1>2, <1>3, <1>6, <1>13, <1>16, <2>1
  <2>2. CASE i # id
    BY <1>6, <1>13, <1>14, <2>2 DEF Consistent, OwnersIssued
  <2> QED
    BY <2>1, <2>2
<1>19. RequestsIssued' /\ LastKept' /\ TicketsOwned' /\ OneTicketPerDevice'
  BY <1>2, <1>6 DEF Consistent, RequestsIssued, LastKept, TicketsOwned, OneTicketPerDevice
<1>20. PayloadsAccepted'
  BY <1>2, <1>3, <1>6, <1>7, <1>11, <1>14 DEF Consistent, PayloadsAccepted
<1>21. ReceiptsBacked(disk')
  BY <1>0, <1>11, <1>12 DEF ReceiptsBacked, Backed
<1>22. ReceiptsFresh'
  BY <1>2, <1>3, <1>12 DEF Consistent, ReceiptsFresh, HistoryOK
<1>23. ChainOK' /\ StreamsIssued'
  BY <1>1, <1>2, <1>6, <1>11
     DEF AcceptResult, Commit, Consistent, ChainOK, StreamsIssued
<1> QED
  BY <1>0, <1>15, <1>17, <1>18, <1>19, <1>20, <1>21, <1>22, <1>23 DEF Consistent, ReceiptsOK

\* A receipt is consumed once: it is taken out of storage before the reader
\* gets the bytes (worker.js:683-690).
LEMMA ConsumeConsistent ==
  ASSUME TypeOK, Consistent, NEW r \in readers, ConsumeResult(r)
  PROVE  Consistent' /\ r.id \notin taken
<1>0. ReceiptsBacked(disk) /\ stage' = "written"
  BY BackedUp DEF ConsumeResult, Commit
<1>1. mem = disk /\ opening = None
  BY ChainStart DEF ConsumeResult
<1>2. /\ disk' = Consumed(disk, r.id) /\ r.id \in DOMAIN disk.res /\ r.id \in DOMAIN disk.payload
      /\ UNCHANGED <<streams, tokens, issued, accepted>>
      /\ opening' = r.id /\ taken' = taken \cup {r.id} /\ stage' = "written"
  BY <1>1 DEF ConsumeResult, Commit, Readable
<1>3. /\ disk'.devices = disk.devices /\ disk'.tickets = disk.tickets /\ disk'.idem = disk.idem
      /\ disk'.queue = disk.queue /\ disk'.payload = disk.payload
      /\ DOMAIN disk'.res = DOMAIN disk.res \ {r.id}
      /\ \A i \in DOMAIN disk.res : i # r.id => disk'.res[i] = disk.res[i]
      /\ DOMAIN disk'.own = DOMAIN disk.own
      /\ \A i \in DOMAIN disk.own : /\ disk'.own[i].token = disk.own[i].token
                                    /\ disk'.own[i].expires = disk.own[i].expires
                                    /\ disk'.own[i].done = disk.own[i].done
  <2>1. IsStore(disk) /\ disk' = Consumed(disk, r.id)
    BY <1>2 DEF TypeOK
  <2> QED
    BY <2>1, ConsumedRows
<1>6. Kept(disk, disk') /\ QueueOwned(disk') /\ ReceiptsOK'
  BY <1>0, <1>3 DEF Kept, Consistent, QueueOwned, ReceiptsOK, ReceiptsBacked, Backed
<1>7. ReceiptsFresh'
  BY <1>2, <1>3 DEF Consistent, ReceiptsFresh
<1>8. ChainOK' /\ StreamsIssued'
  BY <1>2, <1>3 DEF ChainOK, StreamsIssued, Consistent
<1>9. taken' \subseteq DOMAIN accepted
  BY <1>2 DEF Consistent, HistoryOK, PayloadsAccepted
<1>10. r.id \notin taken
  BY <1>2 DEF Consistent, ReceiptsFresh
<1> QED
  BY <1>2, <1>6, <1>7, <1>8, <1>9, <1>10, KeptConsistent

\* A stream is opened on a stored payload.
LEMMA OpenStreamIssued ==
  ASSUME Consistent, NEW id \in DOMAIN disk.payload, OpenStream(id), UNCHANGED <<disk, issued>>
  PROVE  StreamsIssued'
BY DEF Consistent, StreamsIssued, PayloadsAccepted, HistoryOK, OpenStream

\* Every step keeps the invariant.
LEMMA NextConsistent == TypeOK /\ Consistent /\ [Next]_vars => Consistent'
<1> SUFFICES ASSUME TypeOK, Consistent, [Next]_vars PROVE Consistent'
  OBVIOUS
<1>1. ASSUME NEW r \in readers, ReplayResult(r) PROVE Consistent'
  <2>1. mem = disk /\ r.id \in DOMAIN disk.payload
    BY <1>1, ChainStart DEF ReplayResult, Readable
  <2>2. StreamsIssued'
    BY <1>1, <2>1, OpenStreamIssued DEF ReplayResult, rows, history
  <2>3. ChainOK'
    BY <1>1 DEF ReplayResult, rows, chain, Consistent, ChainOK
  <2> QED
    BY <1>1, <2>2, <2>3, OutsideConsistent DEF ReplayResult, chain
<1>2. CASE Apply
  <2>1. /\ UNCHANGED <<disk, history>> /\ mem' = disk /\ opening' = None
        /\ ReceiptsBacked(disk) /\ stage' = "idle"
    BY <1>2, BackedUp DEF Apply
  <2>2. ChainOK'
    BY <2>1 DEF ChainOK
  <2>3. StreamsIssued'
    <3>1. CASE opening = None
      BY <1>2, <2>1, <3>1 DEF Apply, history, Consistent, StreamsIssued
    <3>2. CASE opening # None
      BY <1>2, <2>1, <3>2, OpenStreamIssued DEF Apply, history, Consistent, ChainOK
    <3> QED
      BY <3>1, <3>2
  <2> QED
    BY <2>1, <2>2, <2>3
       DEF Consistent, history, HistoryOK, QueueOwned, OwnersIssued, RequestsIssued, LastKept,
           TicketsOwned, OneTicketPerDevice, PayloadsAccepted, ReceiptsOK, ReceiptsBacked, Backed,
           ReceiptsFresh
<1>3. CASE Finish
  <2>1. ChainOK' /\ StreamsIssued'
    BY <1>3 DEF Finish, rows, history, Consistent, ChainOK, StreamsIssued
  <2> QED
    BY <1>3, <2>1, OutsideConsistent DEF Finish
<1>4. ASSUME NEW k \in Slot, StreamEnds(k) PROVE Consistent'
  <2>1. ChainOK' /\ StreamsIssued'
    BY <1>4 DEF StreamEnds, rows, chain, history, TypeOK, Consistent, ChainOK, StreamsIssued
  <2> QED
    BY <1>4, <2>1, OutsideConsistent DEF StreamEnds, chain
<1>5. ASSUME UNCHANGED <<rows, chain, streams, history, cutAt>> PROVE Consistent'
  <2>1. ChainOK' /\ StreamsIssued'
    BY <1>5 DEF rows, chain, history, Consistent, ChainOK, StreamsIssued
  <2> QED
    BY <1>5, <2>1, OutsideConsistent DEF chain
<1>6. CASE DeviceStep
  BY <1>6, AcceptConsistent, LegacyPollConsistent, AckConsistent, UseTicketConsistent,
     IssueTicketConsistent, RegisterConsistent DEF DeviceStep
<1>7. CASE DriverStep
  <2>1. ASSUME NEW id \in Cmd, FindResult(id) PROVE Consistent'
    BY <1>5, <2>1 DEF FindResult
  <2>2. ASSUME NEW k \in ReqKey, FindReplay(k) PROVE Consistent'
    BY <1>5, <2>2 DEF FindReplay
  <2>3. ASSUME NEW r \in readers, ReaderLeaves(r) PROVE Consistent'
    BY <1>5, <2>3 DEF ReaderLeaves
  <2> QED
    BY <1>1, <1>7, <2>1, <2>2, <2>3, EnqueueConsistent, ConsumeConsistent, AddPairConsistent,
       RemoveDeviceConsistent DEF DriverStep
<1>8. CASE HubStep
  BY <1>2, <1>3, <1>4, <1>8, PurgeConsistent DEF HubStep
<1>9. CASE Tick
  BY <1>5, <1>9 DEF Tick
<1>10. CASE Restart
  BY <1>10, RestartConsistent
<1>11. CASE LoadCut
  BY <1>11, CutConsistent
<1>12. CASE UNCHANGED vars
  BY <1>5, <1>12 DEF vars
<1> QED
  BY <1>6, <1>7, <1>8, <1>9, <1>10, <1>11, <1>12 DEF Next

-----------------------------------------------------------------------------
(* The theorems *)

\* Rows, chain, streams and histories agree in every state the relay reaches,
\* over every interleaving, failed commit, crash and clock change.
THEOREM AlwaysConsistent == Spec => []Consistent
<1>1. Init => TypeOK /\ Consistent
  BY InitType, InitConsistent
<1>2. (TypeOK /\ Consistent) /\ [Next]_vars => (TypeOK /\ Consistent)'
  BY NextType, NextConsistent
<1> QED
  BY <1>1, <1>2, PTL DEF Spec

\* A command that can still be delivered is owned by the device it is queued for
\* (worker.js:546, :618).
THEOREM DeliverableAlwaysOwned == Spec => []DeliverableIsOwned
<1>1. Consistent => DeliverableIsOwned
  BY DEF Consistent, QueueOwned, DeliverableIsOwned, Fresh
<1> QED
  BY <1>1, AlwaysConsistent, PTL

\* A revoked device leaves no row, and no mutation brings one back
\* (worker.js:501-518).
THEOREM RevokedAlwaysLeavesNothing == Spec => []RevokedLeavesNothing
<1>1. Consistent => RevokedLeavesNothing
  BY DEF Consistent, QueueOwned, OwnersIssued, RequestsIssued, TicketsOwned, PayloadsAccepted,
         ReceiptsOK, ReceiptsBacked, ReceiptsCut, Backed, Overdue, RevokedLeavesNothing
<1> QED
  BY <1>1, AlwaysConsistent, PTL

\* The relay hands out the first body committed for a command, from the device
\* it was enqueued for (worker.js:615-619).
THEOREM FirstResultAlwaysWins == Spec => []FirstResultWins
<1>1. Consistent => FirstResultWins
  BY DEF Consistent, PayloadsAccepted, HistoryOK, FirstResultWins
<1> QED
  BY <1>1, AlwaysConsistent, PTL

\* A stream keeps its payload until it ends or its device is revoked
\* (worker.js:691, :728).
THEOREM StreamAlwaysKeepsPayload == Spec => []StreamKeepsPayload
<1>1. Consistent => StreamKeepsPayload
  BY DEF Consistent, StreamsIssued, StreamKeepsPayload
<1> QED
  BY <1>1, AlwaysConsistent, PTL

\* No device has two live tickets (worker.js:984-989).
THEOREM AlwaysOneTicket == Spec => []OneTicketPerDevice
<1>1. Consistent => OneTicketPerDevice
  BY DEF Consistent
<1> QED
  BY <1>1, AlwaysConsistent, PTL

\* Sequence numbers of a device only grow, whatever the clock, the queue and
\* restarts do (worker.js:540).
THEOREM SeqAlwaysGrows == Spec => SeqGrows
<1> DEFINE Grows == \A id \in DOMAIN issued' \ DOMAIN issued, j \in DOMAIN issued :
                      issued'[id].token = issued[j].token => issued'[id].seq > issued[j].seq
<1>1. ASSUME TypeOK, Consistent, NEW d \in Device, NEW req \in Request \cup {None}, NEW id \in Cmd,
             Enqueue(d, req, id)
      PROVE  Grows
  <2> DEFINE seq == nextSeq(disk, d, now)
             rec == [token |-> d, req |-> req, seq |-> seq, at |-> now]
  <2>1. mem = disk /\ d \in disk.devices
    BY <1>1, ChainStart DEF Enqueue, CanEnqueue
  <2>2. seq \in Nat /\ seq > QueueOf(disk, d).last
    BY <1>1, NextSeqGrows DEF TypeOK
  <2>3. issued' = Put(issued, id, rec)
    BY <1>1, <2>1 DEF Enqueue
  <2>4. rec.token = d /\ rec.seq = seq
    OBVIOUS
  <2> HIDE DEF seq, rec
  <2>5. DOMAIN issued' = DOMAIN issued \cup {id} /\ issued'[id] = rec
    BY <2>3 DEF Put
  <2> SUFFICES ASSUME NEW j \in DOMAIN issued, issued[j].token = d
               PROVE  seq > issued[j].seq
    BY <2>4, <2>5
  <2>6. d \in DOMAIN disk.queue /\ issued[j].seq <= disk.queue[d].last
    BY <1>1, <2>1 DEF Consistent, LastKept
  <2>7. disk.queue[d].last \in Nat /\ issued[j].seq \in Nat
    BY <1>1, <2>6 DEF TypeOK, IsStore, IsMap, Queue, Issue
  <2> QED
    BY <2>2, <2>6, <2>7 DEF QueueOf
<1>2. ASSUME UNCHANGED issued PROVE Grows
  BY <1>2
<1>3. TypeOK /\ Consistent /\ [Next]_vars => [Grows]_vars
  <2> SUFFICES ASSUME TypeOK, Consistent, Next PROVE Grows
    OBVIOUS
  <2> HIDE DEF Grows
  <2>1. CASE DeviceStep
    BY <1>2, <2>1 DEF DeviceStep, AcceptResult, LegacyPoll, Ack, UseTicket, IssueTicket, Register,
                      history
  <2>2. CASE DriverStep
    BY <1>1, <1>2, <2>2 DEF DriverStep, FindResult, FindReplay, ReaderLeaves, ConsumeResult,
                            ReplayResult, AddPair, RemoveDevice, history
  <2>3. CASE HubStep
    BY <1>2, <2>3 DEF HubStep, Purge, Finish, Apply, StreamEnds, history
  <2>4. CASE Tick \/ Restart \/ LoadCut
    BY <1>2, <2>4 DEF Tick, Restart, LoadCut, Forgotten, history
  <2> QED
    BY <2>1, <2>2, <2>3, <2>4 DEF Next
<1> QED
  BY <1>3, TypeCorrect, AlwaysConsistent, PTL DEF Spec, SeqGrows

\* Of all the calls that found a receipt one consumes it (worker.js:684-689).
THEOREM AlwaysConsumeOnce == Spec => ConsumeOnce
<1> DEFINE Once == \A id \in Cmd : opening = None /\ opening' = id => id \notin taken
<1>1. ASSUME TypeOK, Consistent, NEW r \in readers, ConsumeResult(r) PROVE Once
  BY <1>1, ConsumeConsistent DEF ConsumeResult
<1>2. ASSUME opening' = opening \/ opening' = None PROVE Once
  BY <1>2, AtomAssumption
<1>3. TypeOK /\ Consistent /\ [Next]_vars => [Once]_vars
  <2> SUFFICES ASSUME TypeOK, Consistent, Next PROVE Once
    OBVIOUS
  <2> HIDE DEF Once
  <2>1. CASE DeviceStep
    BY <1>2, <2>1 DEF DeviceStep, AcceptResult, LegacyPoll, Ack, UseTicket, IssueTicket, Register
  <2>2. CASE DriverStep
    BY <1>1, <1>2, <2>2 DEF DriverStep, FindResult, FindReplay, ReaderLeaves, Enqueue,
                            ReplayResult, AddPair, RemoveDevice, chain
  <2>3. CASE HubStep
    BY <1>2, <2>3 DEF HubStep, Purge, Finish, Apply, StreamEnds, chain
  <2>4. CASE Tick \/ Restart \/ LoadCut
    BY <1>2, <2>4 DEF Tick, Restart, LoadCut, Forgotten, chain
  <2> QED
    BY <2>1, <2>2, <2>3, <2>4 DEF Next
<1> QED
  BY <1>3, TypeCorrect, AlwaysConsistent, PTL DEF Spec, ConsumeOnce

-----------------------------------------------------------------------------
(* With a clock that is not set back *)

\* Nothing is accepted or issued at the start.
LEMMA InitTimely == Init => Timely
BY DEF Init, EmptyMap, Timely, ResultsLast, RequestsLast, RequestOnce

\* A step that issues and accepts nothing, and takes away only rows that are over
\* or a receipt that was consumed.
LEMMA LastingTimely ==
  ASSUME TypeOK, Timely, Kept(disk, disk'), UNCHANGED <<now, issued, accepted>>,
         taken \subseteq taken',
         \A id \in DOMAIN disk.payload :
           disk.payload[id].token \in disk.devices /\ disk.payload[id].expires > now =>
             id \in DOMAIN disk'.payload,
         \A id \in DOMAIN disk.res : disk.res[id] > now => id \in DOMAIN disk'.res \cup taken',
         \A k \in DOMAIN disk.idem :
           k[1] \in disk.devices /\ disk.idem[k].expires > now => k \in DOMAIN disk'.idem,
         Consistent
  PROVE  Timely'
<1>1. ResultsLast'
  <2> SUFFICES ASSUME NEW id \in DOMAIN accepted, issued[id].token \in disk.devices,
                      now < accepted[id].until
               PROVE  /\ id \in DOMAIN disk'.payload
                      /\ disk'.payload[id].expires >= accepted[id].until
                      /\ \/ id \in taken'
                         \/ id \in DOMAIN disk'.res /\ disk'.res[id] >= accepted[id].until
    <3>1. disk'.devices = disk.devices
      BY DEF Kept
    <3> QED
      BY <3>1 DEF ResultsLast
  <2>1. /\ id \in DOMAIN disk.payload /\ disk.payload[id].expires >= accepted[id].until
        /\ \/ id \in taken
           \/ id \in DOMAIN disk.res /\ disk.res[id] >= accepted[id].until
    BY DEF Timely, ResultsLast
  <2>2. disk.payload[id].token \in disk.devices
    BY <2>1 DEF Consistent, PayloadsAccepted
  <2>3. accepted[id].until \in Nat /\ now \in Nat /\ disk.payload[id].expires \in Nat
    BY <2>1 DEF TypeOK, IsStore, IsMap, Receipt, Payload
  <2>4. id \in DOMAIN disk'.payload /\ disk'.payload[id] = disk.payload[id]
    BY <2>1, <2>2, <2>3 DEF Kept
  <2>5. CASE id \in taken
    BY <2>1, <2>4, <2>5
  <2>6. CASE id \in DOMAIN disk.res /\ disk.res[id] >= accepted[id].until
    <3>1. disk.res[id] \in Nat
      BY <2>6 DEF TypeOK, IsStore, IsMap
    <3>2. id \in DOMAIN disk'.res => disk'.res[id] = disk.res[id]
      BY DEF Kept
    <3> QED
      BY <2>1, <2>3, <2>4, <2>6, <3>1, <3>2
  <2> QED
    BY <2>1, <2>5, <2>6
<1>2. RequestsLast'
  <2> SUFFICES ASSUME NEW id \in DOMAIN issued, issued[id].req # None,
                      issued[id].token \in disk.devices, now < issued[id].at + OWNER_TTL
               PROVE  LET key == <<issued[id].token, issued[id].req>>
                      IN  /\ key \in DOMAIN disk'.idem
                          /\ disk'.idem[key].expires >= issued[id].at + OWNER_TTL
    BY DEF RequestsLast, Kept
  <2> DEFINE key == <<issued[id].token, issued[id].req>>
  <2>1. key[1] = issued[id].token
    OBVIOUS
  <2>2. key \in DOMAIN disk.idem /\ disk.idem[key].expires >= issued[id].at + OWNER_TTL
    BY DEF Timely, RequestsLast
  <2> HIDE DEF key
  <2>3. /\ disk.idem[key].expires \in Nat /\ now \in Nat
        /\ issued[id].at + OWNER_TTL \in Nat
    BY <2>2, LifetimeAssumption DEF TypeOK, IsStore, IsMap, IdemEntry, Issue, OWNER_TTL
  <2>4. key \in DOMAIN disk'.idem /\ disk'.idem[key].expires = disk.idem[key].expires
    BY <2>1, <2>2, <2>3 DEF Kept
  <2> QED
    BY <2>2, <2>4 DEF key
<1>3. RequestOnce' /\ \A id \in DOMAIN issued' : issued'[id].at <= now'
  BY DEF Timely, RequestOnce
<1> QED
  BY <1>1, <1>2, <1>3 DEF Timely

\* A step that leaves results, requests and devices alone, in the same or a later
\* moment.
LEMMA SameTimely ==
  ASSUME TypeOK, Timely, UNCHANGED history, now' \in Nat, now' >= now,
         disk'.devices = disk.devices, disk'.payload = disk.payload,
         disk'.res = disk.res, disk'.idem = disk.idem
  PROVE  Timely'
<1>1. /\ \A id \in DOMAIN accepted : accepted[id].until \in Nat
      /\ \A id \in DOMAIN issued : issued[id].at \in Nat /\ issued[id].at + OWNER_TTL \in Nat
      /\ now \in Nat
  BY LifetimeAssumption DEF TypeOK, IsMap, Receipt, Issue, OWNER_TTL
<1>2. ResultsLast'
  BY <1>1 DEF history, Timely, ResultsLast
<1>3. RequestsLast'
  BY <1>1 DEF history, Timely, RequestsLast
<1>4. RequestOnce' /\ \A id \in DOMAIN issued' : issued'[id].at <= now'
  BY <1>1 DEF history, Timely, RequestOnce
<1> QED
  BY <1>2, <1>3, <1>4 DEF Timely

\* The purge takes away only rows that are over.
LEMMA PurgeTimely ==
  ASSUME TypeOK, Consistent, Timely, Purge PROVE Timely'
<1>1. disk' = Purged(disk, now, pinned)
  BY ChainStart DEF Purge
<1>2. Kept(disk, disk') /\ Lasts(disk, disk', now)
  BY <1>1, PurgedKept, ConsistentRegistrants DEF TypeOK, Consistent
<1> QED
  BY <1>2, LastingTimely DEF Purge, history, Lasts

\* So does a restart.
LEMMA RestartTimely ==
  ASSUME TypeOK, Consistent, Timely, Restart PROVE Timely'
<1>1. disk' = Loaded(disk, now)
  BY DEF Restart
<1>2. Kept(disk, disk') /\ Lasts(disk, disk', now)
  BY <1>1, LoadedKept, ConsistentRegistrants DEF TypeOK, Consistent
<1> QED
  BY <1>2, LastingTimely DEF Restart, Forgotten, history, Lasts

\* So does a load that is cut short.
LEMMA CutTimely ==
  ASSUME TypeOK, Consistent, Timely, LoadCut PROVE Timely'
<1>1. Kept(disk, disk') /\ Lasts(disk, disk', now)
  BY CutDisk
<1> QED
  BY <1>1, LastingTimely DEF LoadCut, Forgotten, history, Lasts

\* Consuming takes away one receipt, which the reader then has.
LEMMA ConsumeTimely ==
  ASSUME TypeOK, Consistent, Timely, NEW r \in readers, ConsumeResult(r) PROVE Timely'
<1>1. /\ disk' = Consumed(disk, r.id) /\ IsStore(disk)
      /\ UNCHANGED <<now, issued, accepted>> /\ taken' = taken \cup {r.id}
  BY ChainStart DEF ConsumeResult, Commit, TypeOK
<1>2. /\ disk'.devices = disk.devices /\ disk'.tickets = disk.tickets /\ disk'.idem = disk.idem
      /\ disk'.queue = disk.queue /\ disk'.payload = disk.payload
      /\ DOMAIN disk'.res = DOMAIN disk.res \ {r.id}
      /\ \A i \in DOMAIN disk.res : i # r.id => disk'.res[i] = disk.res[i]
      /\ DOMAIN disk'.own = DOMAIN disk.own
      /\ \A i \in DOMAIN disk.own : /\ disk'.own[i].token = disk.own[i].token
                                    /\ disk'.own[i].expires = disk.own[i].expires
                                    /\ disk'.own[i].done = disk.own[i].done
  BY <1>1, ConsumedRows
<1>3. Kept(disk, disk')
  BY <1>2 DEF Kept
<1> QED
  BY <1>1, <1>2, <1>3, LastingTimely

\* These commits leave results, requests and devices alone.
LEMMA CommitTimely ==
  ASSUME TypeOK, Consistent, Timely,
         \/ \E code \in Code : AddPair(code)
         \/ \E k \in Ticket : UseTicket(k)
         \/ \E k \in Ticket, d \in Device : IssueTicket(k, d)
         \/ \E d \in Device : LegacyPoll(d)
         \/ \E d \in Device, id \in DOMAIN issued : Ack(d, issued[id].seq)
  PROVE  Timely'
<1> DEFINE Same == /\ disk'.devices = disk.devices /\ disk'.payload = disk.payload
                   /\ disk'.res = disk.res /\ disk'.idem = disk.idem
<1>1. IsStore(disk) /\ now \in Nat
  BY DEF TypeOK
<1>2. mem = disk
  BY ChainStart DEF AddPair, UseTicket, IssueTicket, LegacyPoll, Ack
<1>3. UNCHANGED <<now, history>>
  BY DEF AddPair, UseTicket, IssueTicket, LegacyPoll, Ack, Commit
<1>4. ASSUME NEW code \in Code, AddPair(code) PROVE Same
  BY <1>1, <1>2, <1>4, PairAddedRows DEF AddPair, Commit, IsStore, Rows
<1>5. ASSUME NEW k \in Ticket, UseTicket(k) PROVE Same
  <2>1. disk' = TicketUsed(disk, k)
    BY <1>2, <1>5 DEF UseTicket, Commit
  <2>2. disk' = [disk EXCEPT !.tickets = Drop(disk.tickets, {k})]
    BY <1>1, <2>1, TicketUsedRows
  <2> QED
    BY <1>1, <2>2 DEF IsStore, Rows
<1>6. ASSUME NEW k \in Ticket, NEW d \in Device, IssueTicket(k, d) PROVE Same
  <2>1. disk' = TicketIssued(disk, k, d, now)
    BY <1>2, <1>6 DEF IssueTicket, Commit
  <2>2. disk' = [disk EXCEPT !.tickets = disk'.tickets]
    BY <1>1, <2>1, TicketIssuedRows
  <2> QED
    BY <1>1, <2>2 DEF IsStore, Rows
<1>7. ASSUME NEW d \in Device, LegacyPoll(d) PROVE Same
  <2>1. disk' = LegacyPolled(disk, d, now) /\ d \in DOMAIN disk.queue
    BY <1>2, <1>7 DEF LegacyPoll, Commit, CanLegacyPoll, pending, QueueOf, Fresh
  <2>2. disk' = [disk EXCEPT !.queue = disk'.queue]
    BY <1>1, <2>1, LegacyPolledRows
  <2> QED
    BY <1>1, <2>2 DEF IsStore, Rows
<1>8. ASSUME NEW d \in Device, NEW id \in DOMAIN issued, Ack(d, issued[id].seq) PROVE Same
  <2> DEFINE seq == issued[id].seq
  <2>1. disk' = Acked(disk, d, seq) /\ d \in DOMAIN disk.queue
    BY <1>2, <1>8 DEF Ack, Commit, CanAck
  <2> HIDE DEF seq
  <2> QED
    BY <1>1, <2>1 DEF Acked, IsStore, Rows
<1>9. Same
  BY <1>4, <1>5, <1>6, <1>7, <1>8
<1> QED
  BY <1>1, <1>3, <1>9, SameTimely

\* No command was issued for a new device's token.
LEMMA RegisterTimely ==
  ASSUME TypeOK, Consistent, Timely, NEW code \in Code, NEW d \in Device, Register(code, d)
  PROVE  Timely'
<1>1. disk' = Registered(disk, code, d) /\ d \notin tokens /\ IsStore(disk)
  BY ChainStart DEF Register, Commit, TypeOK
<1>2. disk'.devices = disk.devices \cup {d}
  BY <1>1, RegisteredRows
<1>3. disk'.idem = disk.idem /\ disk'.res = disk.res /\ disk'.payload = disk.payload
  BY <1>1 DEF Registered, IsStore, Rows
<1>4. \A id \in DOMAIN issued : issued[id].token # d
  BY <1>1 DEF Consistent, HistoryOK
<1>5. UNCHANGED <<now, issued, accepted, taken>>
  BY DEF Register, Commit
<1>6. \A id \in DOMAIN issued : issued[id].token \in disk'.devices => issued[id].token \in disk.devices
  BY <1>2, <1>4
<1>7. ResultsLast'
  BY <1>3, <1>5, <1>6 DEF Timely, ResultsLast, Consistent, HistoryOK
<1>8. RequestsLast'
  BY <1>3, <1>5, <1>6 DEF Timely, RequestsLast
<1> QED
  BY <1>5, <1>7, <1>8 DEF Timely, RequestOnce

\* Revocation leaves the other devices' rows.
LEMMA RemoveDeviceTimely ==
  ASSUME TypeOK, Consistent, Timely, NEW d \in Device, RemoveDevice(d) PROVE Timely'
<1>1. disk' = DeviceRemoved(disk, d) /\ IsStore(disk)
  BY ChainStart DEF RemoveDevice, Commit, TypeOK
<1>2. /\ disk'.devices = disk.devices \ {d}
      /\ disk'.idem = Drop(disk.idem, RequestsOf(disk, d))
      /\ disk'.res = Drop(disk.res, RowsOf(disk, d))
      /\ disk'.payload = Drop(disk.payload, RowsOf(disk, d))
  BY <1>1 DEF DeviceRemoved, IsStore, Rows
<1>3. UNCHANGED <<now, issued, accepted, taken>>
  BY DEF RemoveDevice, Commit, history
<1>4. \A id \in RowsOf(disk, d) : issued[id].token = d
  BY DEF RowsOf, RequestsOf, Consistent, OwnersIssued, RequestsIssued, PayloadsAccepted, HistoryOK
<1>5. /\ \A id \in DOMAIN disk.payload : issued[id].token # d =>
           id \in DOMAIN disk'.payload /\ disk'.payload[id] = disk.payload[id]
      /\ \A id \in DOMAIN disk.res : issued[id].token # d =>
           id \in DOMAIN disk'.res /\ disk'.res[id] = disk.res[id]
  BY <1>2, <1>4 DEF Drop, Restrict
<1>6. \A k \in DOMAIN disk.idem : k[1] # d => k \in DOMAIN disk'.idem /\ disk'.idem[k] = disk.idem[k]
  BY <1>2 DEF Drop, Restrict, RequestsOf
<1>7. ResultsLast'
  BY <1>2, <1>3, <1>5 DEF Timely, ResultsLast
<1>8. RequestsLast'
  <2> SUFFICES ASSUME NEW id \in DOMAIN issued, issued[id].req # None,
                      issued[id].token \in disk'.devices, now < issued[id].at + OWNER_TTL
               PROVE  LET key == <<issued[id].token, issued[id].req>>
                      IN  /\ key \in DOMAIN disk'.idem
                          /\ disk'.idem[key].expires >= issued[id].at + OWNER_TTL
    BY <1>3 DEF RequestsLast
  <2> DEFINE key == <<issued[id].token, issued[id].req>>
  <2>1. key[1] # d /\ issued[id].token \in disk.devices
    BY <1>2
  <2>2. key \in DOMAIN disk.idem /\ disk.idem[key].expires >= issued[id].at + OWNER_TTL
    BY <2>1 DEF Timely, RequestsLast
  <2> HIDE DEF key
  <2>3. key \in DOMAIN disk'.idem /\ disk'.idem[key].expires >= issued[id].at + OWNER_TTL
    BY <1>6, <2>1, <2>2
  <2> QED
    BY <2>3 DEF key
<1> QED
  BY <1>3, <1>7, <1>8 DEF Timely, RequestOnce

\* A request_id whose command is not over is remembered, so it enqueues nothing
\* (worker.js:529-535).
LEMMA EnqueueTimely ==
  ASSUME TypeOK, Consistent, Timely, NEW d \in Device, NEW req \in Request \cup {None},
         NEW id \in Cmd, Enqueue(d, req, id)
  PROVE  Timely'
<1> DEFINE rec   == [token |-> d, req |-> req, seq |-> nextSeq(mem, d, now), at |-> now]
           entry == [cmd |-> id, expires |-> now + OWNER_TTL, resultId |-> None]
           key   == <<d, req>>
           idem  == IF req = None THEN disk.idem ELSE Put(disk.idem, key, entry)
<1>1. mem = disk /\ IsStore(disk) /\ now \in Nat /\ now + OWNER_TTL \in Nat
  BY ChainStart, LifetimeAssumption DEF Enqueue, TypeOK, OWNER_TTL
<1>2. /\ disk' = Enqueued(disk, d, req, id, now) /\ d \in disk.devices
      /\ ~PriorRequest(disk, d, req) /\ id \notin DOMAIN issued
      /\ issued' = Put(issued, id, rec) /\ UNCHANGED <<now, tokens, accepted, taken>>
  BY <1>1 DEF Enqueue, Commit, CanEnqueue
<1>3. /\ rec.token = d /\ rec.req = req /\ rec.at = now /\ entry.expires = now + OWNER_TTL
  OBVIOUS
<1> HIDE DEF rec, entry
<1>4. /\ disk'.devices = disk.devices /\ disk'.res = disk.res /\ disk'.payload = disk.payload
      /\ disk'.idem = idem
  BY <1>1, <1>2 DEF Enqueued, IsStore, Rows, entry
<1>5. /\ DOMAIN issued' = DOMAIN issued \cup {id} /\ issued'[id] = rec
      /\ \A i \in DOMAIN issued : issued'[i] = issued[i]
  BY <1>2 DEF Put
<1>6. req # None => key \notin DOMAIN disk.idem
  BY <1>2 DEF PriorRequest
<1>7. /\ \A k \in DOMAIN disk.idem : k \in DOMAIN disk'.idem /\ disk'.idem[k] = disk.idem[k]
      /\ req # None => key \in DOMAIN disk'.idem /\ disk'.idem[key] = entry
  <2> HIDE DEF key
  <2>1. CASE req = None
    BY <1>4, <2>1
  <2>2. CASE req # None
    BY <1>4, <1>6, <2>2 DEF Put
  <2> QED
    BY <2>1, <2>2
<1>8. ResultsLast'
  BY <1>2, <1>4, <1>5 DEF Timely, ResultsLast, Consistent, HistoryOK
<1>9. RequestsLast'
  <2> SUFFICES ASSUME NEW i \in DOMAIN issued', issued'[i].req # None,
                      issued'[i].token \in disk'.devices, now < issued'[i].at + OWNER_TTL
               PROVE  LET k == <<issued'[i].token, issued'[i].req>>
                      IN  /\ k \in DOMAIN disk'.idem
                          /\ disk'.idem[k].expires >= issued'[i].at + OWNER_TTL
    BY <1>2 DEF RequestsLast
  <2>1. CASE i = id
    BY <1>1, <1>3, <1>5, <1>7, <2>1
  <2>2. CASE i # id
    <3> DEFINE k == <<issued[i].token, issued[i].req>>
    <3>1. i \in DOMAIN issued /\ issued'[i] = issued[i]
      BY <1>5, <2>2
    <3>2. k \in DOMAIN disk.idem /\ disk.idem[k].expires >= issued[i].at + OWNER_TTL
      BY <1>4, <3>1 DEF Timely, RequestsLast
    <3>3. k \in DOMAIN disk'.idem /\ disk'.idem[k].expires >= issued[i].at + OWNER_TTL
      BY <1>7, <3>2
    <3> QED
      BY <3>1, <3>3
  <2> QED
    BY <2>1, <2>2
<1>10. ASSUME NEW j \in DOMAIN issued, issued[j].req = req, issued[j].token = d, req # None
       PROVE  issued[j].at + OWNER_TTL <= now
  <2>1. issued[j].at + OWNER_TTL \in Nat
    BY LifetimeAssumption DEF TypeOK, IsMap, Issue, OWNER_TTL
  <2> SUFFICES ASSUME now < issued[j].at + OWNER_TTL PROVE FALSE
    BY <1>1, <2>1
  <2>2. <<issued[j].token, issued[j].req>> \in DOMAIN disk.idem
    BY <1>2, <1>10 DEF Timely, RequestsLast
  <2> QED
    BY <1>6, <1>10, <2>2
<1>11. RequestOnce'
  BY <1>3, <1>5, <1>10 DEF Timely, RequestOnce
<1>12. \A i \in DOMAIN issued' : issued'[i].at <= now'
  BY <1>1, <1>2, <1>3, <1>5 DEF Timely
<1> QED
  BY <1>8, <1>9, <1>11, <1>12 DEF Timely

\* The payload outlives the receipt's promise (worker.js:626-633).
LEMMA AcceptTimely ==
  ASSUME TypeOK, Consistent, Timely, NEW d \in Device, NEW id \in Cmd, NEW body \in Body,
         AcceptResult(d, id, body)
  PROVE  Timely'
<1> DEFINE rec == [by |-> d, body |-> stored(mem, body), until |-> now + RESULT_TTL]
<1>1. mem = disk /\ IsStore(disk) /\ now \in Nat /\ now + RESULT_TTL \in Nat
  BY ChainStart, LifetimeAssumption DEF AcceptResult, TypeOK
<1>2. /\ disk' = Accepted(disk, id, body, now) /\ id \in DOMAIN disk.own /\ ~disk.own[id].done
      /\ UNCHANGED <<now, tokens, issued, taken>>
  BY <1>1 DEF AcceptResult, Commit, CanAccept
<1>3. id \notin DOMAIN accepted
  BY <1>2 DEF Consistent, OwnersIssued
<1>4. accepted' = Put(accepted, id, rec)
  BY <1>3 DEF AcceptResult
<1>5. rec.until = now + RESULT_TTL
  OBVIOUS
<1> HIDE DEF rec
<1>6. /\ DOMAIN accepted' = DOMAIN accepted \cup {id} /\ accepted'[id] = rec
      /\ \A i \in DOMAIN accepted : accepted'[i] = accepted[i]
  BY <1>3, <1>4 DEF Put
<1>7. /\ disk'.devices = disk.devices
      /\ DOMAIN disk'.payload = DOMAIN disk.payload \cup {id}
      /\ disk'.payload[id].expires >= now + RESULT_TTL
      /\ \A i \in DOMAIN disk.payload : i # id => disk'.payload[i] = disk.payload[i]
  BY <1>1, <1>2, AcceptedRows
<1>8. /\ DOMAIN disk'.res = DOMAIN disk.res \cup {id} /\ disk'.res[id] = now + RESULT_TTL
      /\ \A i \in DOMAIN disk.res : i # id => disk'.res[i] = disk.res[i]
  BY <1>1, <1>2, AcceptedRows
<1>9. /\ DOMAIN disk'.idem = DOMAIN disk.idem
      /\ \A k \in DOMAIN disk.idem : disk'.idem[k].expires = disk.idem[k].expires
  BY <1>1, <1>2, AcceptedRows
<1>10. ResultsLast'
  <2> SUFFICES ASSUME NEW i \in DOMAIN accepted', issued[i].token \in disk.devices,
                      now < accepted'[i].until
               PROVE  /\ i \in DOMAIN disk'.payload
                      /\ disk'.payload[i].expires >= accepted'[i].until
                      /\ \/ i \in taken
                         \/ i \in DOMAIN disk'.res /\ disk'.res[i] >= accepted'[i].until
    BY <1>2, <1>7 DEF ResultsLast
  <2>1. CASE i = id
    BY <1>1, <1>5, <1>6, <1>7, <1>8, <2>1
  <2>2. CASE i # id
    BY <1>6, <1>7, <1>8, <2>2 DEF Timely, ResultsLast
  <2> QED
    BY <2>1, <2>2
<1>11. RequestsLast'
  BY <1>2, <1>7, <1>9 DEF Timely, RequestsLast
<1> QED
  BY <1>2, <1>10, <1>11 DEF Timely, RequestOnce

\* Every step keeps it when the clock only advances.
LEMMA NextTimely ==
  ASSUME ~ClockSteps
  PROVE  TypeOK /\ Consistent /\ Timely /\ [Next]_vars => Timely'
<1> SUFFICES ASSUME TypeOK, Consistent, Timely, [Next]_vars PROVE Timely'
  OBVIOUS
<1>1. now \in Nat
  BY DEF TypeOK
<1>2. ASSUME UNCHANGED <<now, disk, history>> PROVE Timely'
  BY <1>1, <1>2, SameTimely
<1>3. CASE DeviceStep
  BY <1>3, AcceptTimely, RegisterTimely, CommitTimely DEF DeviceStep
<1>4. CASE DriverStep
  <2>1. ASSUME \/ \E id \in Cmd : FindResult(id)
               \/ \E k \in ReqKey : FindReplay(k)
               \/ \E r \in readers : ReaderLeaves(r) \/ ReplayResult(r)
        PROVE  Timely'
    BY <1>2, <2>1 DEF FindResult, FindReplay, ReaderLeaves, ReplayResult, rows
  <2> QED
    BY <1>4, <2>1, EnqueueTimely, ConsumeTimely, RemoveDeviceTimely, CommitTimely DEF DriverStep
<1>5. CASE HubStep
  <2>1. ASSUME Finish \/ Apply \/ \E k \in Slot : StreamEnds(k) PROVE Timely'
    BY <1>2, <2>1 DEF Finish, Apply, StreamEnds, rows
  <2> QED
    BY <1>5, <2>1, PurgeTimely DEF HubStep
<1>6. CASE Tick
  BY <1>1, <1>6, SameTimely DEF Tick, rows
<1>7. CASE Restart
  BY <1>7, RestartTimely
<1>8. CASE LoadCut
  BY <1>8, CutTimely
<1>9. CASE UNCHANGED vars
  BY <1>2, <1>9 DEF vars, rows
<1> QED
  BY <1>3, <1>4, <1>5, <1>6, <1>7, <1>8, <1>9 DEF Next

\* Results and requests keep their promised lifetimes in every state.
THEOREM AlwaysTimely ==
  ASSUME ~ClockSteps
  PROVE  Spec => []Timely
<1>1. TypeOK /\ Consistent /\ Timely /\ [Next]_vars => Timely'
  BY NextTimely
<1> QED
  BY <1>1, InitTimely, TypeCorrect, AlwaysConsistent, PTL DEF Spec

\* An acknowledged result stays readable for its lifetime, over every retry, purge,
\* failed commit and crash (worker.js:630-637).
THEOREM AckedAlwaysDurable ==
  ASSUME ~ClockSteps
  PROVE  Spec => []AckedResultDurable
<1>1. Timely /\ Consistent => AckedResultDurable
  BY DEF Timely, ResultsLast, Consistent, OwnersIssued, AckedResultDurable
<1> QED
  BY <1>1, AlwaysTimely, AlwaysConsistent, PTL

\* A request_id enqueues one command per ownership lifetime (worker.js:531-536).
THEOREM RequestAlwaysOnce ==
  ASSUME ~ClockSteps
  PROVE  Spec => []RequestOnce
<1>1. Timely => RequestOnce
  BY DEF Timely
<1> QED
  BY <1>1, AlwaysTimely, PTL

-----------------------------------------------------------------------------
(* What load() accepts *)

\* A table with no more than n rows.
Within(S, n) == IsFiniteSet(S) /\ Cardinality(S) <= n

\* No table is over its cap, whether or not its rows are over.
Capped(s) ==
  /\ Within(s.devices, DEVICE_MAX) /\ Within(DOMAIN s.pairs, PAIR_MAX)
  /\ Within(DOMAIN s.tickets, TICKET_MAX)
  /\ Within(DOMAIN s.own, OWNER_MAX) /\ Within(DOMAIN s.idem, IDEM_MAX)
  /\ Within(DOMAIN s.payload, RESULT_MAX)
  /\ Within(bytesOf(s, DOMAIN s.payload), RESULT_TOTAL_BYTES)
  /\ \A d \in DOMAIN s.queue : Within(s.queue[d].items, QUEUE_MAX)

\* A replay reference is to the result of its request, which lives as long.
RepliesBacked(s) ==
  \A k \in DOMAIN s.idem : s.idem[k].resultId # None =>
    /\ s.idem[k].resultId = s.idem[k].cmd
    /\ s.idem[k].cmd \in DOMAIN s.payload
    /\ s.idem[k].expires <= s.payload[s.idem[k].cmd].expires

\* No table of p has a row that s has not.
NoMore(s, p) ==
  /\ p.devices \subseteq s.devices /\ DOMAIN p.pairs \subseteq DOMAIN s.pairs
  /\ DOMAIN p.tickets \subseteq DOMAIN s.tickets
  /\ DOMAIN p.own \subseteq DOMAIN s.own /\ DOMAIN p.idem \subseteq DOMAIN s.idem
  /\ DOMAIN p.payload \subseteq DOMAIN s.payload
  /\ \A id \in DOMAIN p.payload : p.payload[id].body = s.payload[id].body
  /\ \A d \in DOMAIN p.queue : d \in DOMAIN s.queue /\ p.queue[d].items \subseteq s.queue[d].items

\* A part of a table is within its cap.
LEMMA WithinPart ==
  ASSUME NEW S, NEW n \in Nat, Within(S, n), NEW T, T \subseteq S
  PROVE  Within(T, n)
<1>1. IsFiniteSet(T) /\ Cardinality(T) <= Cardinality(S)
  BY FS_Subset DEF Within
<1>2. Cardinality(T) \in Nat /\ Cardinality(S) \in Nat
  BY <1>1, FS_CardinalityType DEF Within
<1> QED
  BY <1>1, <1>2 DEF Within

\* A row is only added below the cap.
LEMMA WithinOneMore ==
  ASSUME NEW S, NEW n \in Nat, IsFiniteSet(S), Cardinality(S) < n, NEW x
  PROVE  Within(S \cup {x}, n)
<1>1. Cardinality(S) \in Nat
  BY FS_CardinalityType
<1>2. /\ IsFiniteSet(S \cup {x})
      /\ Cardinality(S \cup {x}) = IF x \in S THEN Cardinality(S) ELSE Cardinality(S) + 1
  BY FS_AddElement
<1>3. Cardinality(S \cup {x}) \in Nat
  BY <1>2, FS_CardinalityType
<1> QED
  BY <1>1, <1>2, <1>3 DEF Within

\* Bytes are a sum: what two sets of commands take together is no more than the
\* sum of what each takes.
LEMMA BytesOfOneMore ==
  ASSUME NEW s, NEW p, NEW id, DOMAIN p.payload = DOMAIN s.payload \cup {id},
         \A i \in DOMAIN s.payload : i # id => p.payload[i].body = s.payload[i].body,
         Size[p.payload[id].body] \in Nat, NEW n \in Nat,
         IsFiniteSet(bytesOf(s, DOMAIN s.payload)), payloadBytes(s) + Size[p.payload[id].body] <= n
  PROVE  Within(bytesOf(p, DOMAIN p.payload), n)
<1> DEFINE old == bytesOf(s, DOMAIN s.payload)
           size == Size[p.payload[id].body]
           new == {id} \X (1 .. size)
<1>1. bytesOf(p, DOMAIN p.payload) \subseteq old \cup new
  BY DEF bytesOf
<1>2. IsFiniteSet(new) /\ Cardinality(new) = size
  <2>1. IsFiniteSet({id}) /\ Cardinality({id}) = 1
    BY FS_Singleton
  <2>2. size \in Nat
    OBVIOUS
  <2> HIDE DEF size
  <2>3. 1 \in Int /\ size \in Int /\ (IF 1 > size THEN 0 ELSE size - 1 + 1) = size
    BY <2>2
  <2>4. IsFiniteSet(1 .. size) /\ Cardinality(1 .. size) = size
    BY <2>3, FS_Interval
  <2>5. IsFiniteSet({id} \X (1 .. size)) /\ Cardinality({id} \X (1 .. size)) = 1 * size
    BY <2>1, <2>4, FS_Product
  <2> QED
    BY <2>2, <2>5
<1> HIDE DEF old, new, size
<1>3. /\ IsFiniteSet(old \cup new) /\ IsFiniteSet(old \cap new)
      /\ Cardinality(old \cup new) = Cardinality(old) + Cardinality(new) - Cardinality(old \cap new)
  BY <1>2, FS_Union, FS_Intersection DEF old
<1>4. /\ Cardinality(old) \in Nat /\ Cardinality(new) \in Nat
      /\ Cardinality(old \cap new) \in Nat /\ Cardinality(old \cup new) \in Nat
  BY <1>2, <1>3, FS_CardinalityType DEF old
<1>5. Within(old \cup new, n)
  BY <1>2, <1>3, <1>4 DEF Within, payloadBytes, old, size
<1> QED
  BY <1>1, <1>5, WithinPart

\* A store with fewer rows is capped.
LEMMA FewerCapped ==
  ASSUME NEW s, NEW p, Capped(s), NoMore(s, p)
  PROVE  Capped(p)
<1>1. bytesOf(p, DOMAIN p.payload) \subseteq bytesOf(s, DOMAIN s.payload)
  BY DEF bytesOf, NoMore
<1>2. /\ Within(p.devices, DEVICE_MAX) /\ Within(DOMAIN p.pairs, PAIR_MAX)
      /\ Within(DOMAIN p.tickets, TICKET_MAX)
      /\ Within(DOMAIN p.own, OWNER_MAX) /\ Within(DOMAIN p.idem, IDEM_MAX)
  BY WithinPart, CapAssumption DEF Capped, NoMore
<1>3. Within(DOMAIN p.payload, RESULT_MAX) /\ Within(bytesOf(p, DOMAIN p.payload), RESULT_TOTAL_BYTES)
  BY <1>1, WithinPart, CapAssumption DEF Capped, NoMore
<1>4. \A d \in DOMAIN p.queue : Within(p.queue[d].items, QUEUE_MAX)
  BY WithinPart, CapAssumption DEF Capped, NoMore
<1> QED
  BY <1>2, <1>3, <1>4 DEF Capped

\* Storage that load() accepts at any time, if its receipts have their payloads.
Loadable(s) == Capped(s) /\ RepliesBacked(s)

\* A load cut short may have left replay references that it was to delete too.
RepliesCut(s) ==
  \A k \in DOMAIN s.idem : s.idem[k].resultId # None =>
    /\ s.idem[k].resultId = s.idem[k].cmd
    /\ s.idem[k].cmd \in DOMAIN s.payload => s.idem[k].expires <= s.payload[s.idem[k].cmd].expires
    /\ s.idem[k].cmd \notin DOMAIN s.payload => s.idem[k].expires <= cutAt

DiskLoadable == IF stage = "down" THEN Capped(disk) /\ RepliesCut(disk) ELSE Loadable(disk)

\* A step that takes rows away but neither a payload nor a reference stays loadable.
LEMMA FewerLoadable ==
  ASSUME NEW s, NEW p, Loadable(s), NoMore(s, p), p.payload = s.payload, p.idem = s.idem
  PROVE  Loadable(p)
BY FewerCapped DEF Loadable, RepliesBacked

\* The purge takes a payload only with the reference to it (worker.js:723-746).
LEMMA PurgedLoadable ==
  ASSUME NEW s, IsStore(s), Loadable(s), Registrants(s), NEW t \in Nat, NEW pin
  PROVE  Loadable(Purged(s, t, pin))
<1> DEFINE p == Purged(s, t, pin)
<1>1. /\ p.devices = s.devices
      /\ p.own = Drop(s.own, ownersGone(s, t))
      /\ p.idem = Drop(s.idem, idemGone(s, t))
      /\ p.payload = Drop(s.payload, payloadsGone(s, t, pin))
      /\ p.tickets = Drop(s.tickets, ticketsGone(s, t))
      /\ p.pairs = Drop(s.pairs, pairsGone(s, t))
      /\ DOMAIN p.queue = DOMAIN s.queue
      /\ \A d \in DOMAIN s.queue :
           p.queue[d] = [last |-> s.queue[d].last, items |-> Fresh(s.queue[d].items, t)]
  <2> HIDE DEF p
  <2>1. p = Purged(s, t, pin)
    BY DEF p
  <2> QED
    BY <2>1, PurgedRows
<1> HIDE DEF p
<1>2. /\ DOMAIN p.own \subseteq DOMAIN s.own /\ DOMAIN p.tickets \subseteq DOMAIN s.tickets
      /\ DOMAIN p.pairs \subseteq DOMAIN s.pairs
      /\ DOMAIN p.idem = DOMAIN s.idem \ idemGone(s, t)
      /\ \A k \in DOMAIN p.idem : p.idem[k] = s.idem[k]
      /\ DOMAIN p.payload = DOMAIN s.payload \ payloadsGone(s, t, pin)
      /\ \A id \in DOMAIN p.payload : p.payload[id] = s.payload[id]
  BY <1>1 DEF Drop, Restrict
<1>3. \A d \in DOMAIN s.queue : p.queue[d].items \subseteq s.queue[d].items
  <2> TAKE d \in DOMAIN s.queue
  <2>1. p.queue[d] = [last |-> s.queue[d].last, items |-> Fresh(s.queue[d].items, t)]
    BY <1>1
  <2> QED
    BY ONLY <2>1 DEF Fresh
<1>4. Capped(p)
  <2>1. NoMore(s, p)
    BY <1>1, <1>2, <1>3 DEF NoMore
  <2> QED
    BY <2>1, FewerCapped DEF Loadable
<1>5. RepliesBacked(p)
  <2> SUFFICES ASSUME NEW k \in DOMAIN s.idem, k \notin idemGone(s, t), s.idem[k].resultId # None
               PROVE  /\ s.idem[k].resultId = s.idem[k].cmd
                      /\ s.idem[k].cmd \in DOMAIN s.payload \ payloadsGone(s, t, pin)
                      /\ s.idem[k].expires <= s.payload[s.idem[k].cmd].expires
    BY <1>2 DEF RepliesBacked
  <2>1. /\ s.idem[k].resultId = s.idem[k].cmd
        /\ s.idem[k].cmd \in DOMAIN s.payload
        /\ s.idem[k].expires <= s.payload[s.idem[k].cmd].expires
    BY DEF Loadable, RepliesBacked
  <2>2. s.idem[k].expires \in Nat /\ s.payload[s.idem[k].cmd].expires \in Nat
    BY <2>1 DEF IsStore, IsMap, IdemEntry, Payload
  <2>3. s.payload[s.idem[k].cmd].expires > t /\ s.payload[s.idem[k].cmd].token \in s.devices
    BY <2>1, <2>2 DEF idemGone, Registrants
  <2> QED
    BY <2>1, <2>2, <2>3 DEF payloadsGone
<1> QED
  BY <1>4, <1>5 DEF Loadable, p

\* What is kept is no more.
LEMMA KeptNoMore ==
  ASSUME NEW s, NEW p, Kept(s, p), DOMAIN p.pairs \subseteq DOMAIN s.pairs
  PROVE  NoMore(s, p)
BY DEF Kept, NoMore

\* A load that comes to its end leaves no reference without its payload, whatever
\* the loads before it left: it refuses what it cannot mend (worker.js:374-460).
LEMMA RestartLoadable ==
  ASSUME TypeOK, Consistent, DiskLoadable, Restart
  PROVE  DiskLoadable'
<1>1. /\ IsStore(disk) /\ now \in Nat /\ QueueOwned(disk) /\ Registrants(disk)
      /\ disk' = Loaded(disk, now) /\ LoadAccepts(disk, now) /\ stage' = "idle"
  BY ConsistentRegistrants DEF TypeOK, Consistent, Restart
<1>2. Kept(disk, disk') /\ Lasts(disk, disk', now) /\ Swept(disk, disk', now, {})
  BY <1>1, LoadedKept
<1>3. Capped(disk')
  BY <1>2, FewerCapped, KeptNoMore DEF DiskLoadable, Loadable, Swept
<1>4. RepliesBacked(disk')
  <2> SUFFICES ASSUME NEW k \in DOMAIN disk'.idem, disk'.idem[k].resultId # None
               PROVE  /\ disk'.idem[k].resultId = disk'.idem[k].cmd
                      /\ disk'.idem[k].cmd \in DOMAIN disk'.payload
                      /\ disk'.idem[k].expires <= disk'.payload[disk'.idem[k].cmd].expires
    BY DEF RepliesBacked
  <2>1. /\ k \in DOMAIN disk.idem /\ disk'.idem[k] = disk.idem[k]
        /\ k[1] \in disk.devices /\ disk.idem[k].expires > now
    BY <1>2 DEF Kept, Swept
  <2> DEFINE id == disk.idem[k].cmd
  <2>2. disk.idem[k].resultId = id
    BY <2>1 DEF DiskLoadable, Loadable, RepliesBacked, RepliesCut
  <2>3. id \in DOMAIN disk.payload /\ disk.payload[id].expires > now /\ disk.payload[id].token \in disk.devices
    BY <1>1, <2>1, <2>2 DEF LoadAccepts
  <2>4. disk.idem[k].expires <= disk.payload[id].expires
    BY <2>1, <2>3 DEF DiskLoadable, Loadable, RepliesBacked, RepliesCut
  <2>5. id \in DOMAIN disk'.payload /\ disk'.payload[id] = disk.payload[id]
    BY <1>2, <2>3 DEF Kept, Lasts
  <2> QED
    BY <2>1, <2>2, <2>4, <2>5
<1> QED
  BY <1>1, <1>3, <1>4 DEF DiskLoadable, Loadable

\* A load cut short leaves a reference without its payload only if both were over.
LEMMA CutLoadable ==
  ASSUME TypeOK, Consistent, DiskLoadable, LoadCut
  PROVE  DiskLoadable'
<1>1. /\ Kept(disk, disk') /\ Lasts(disk, disk', now) /\ DOMAIN disk'.pairs \subseteq DOMAIN disk.pairs
      /\ \A k \in DOMAIN disk'.idem : disk'.idem[k] = disk.idem[k]
  BY CutDisk
<1>2. Capped(disk')
  BY <1>1, FewerCapped, KeptNoMore DEF DiskLoadable, Loadable
<1>3. /\ stage' = "down" /\ cutAt \in Nat /\ now \in Nat
      /\ cutAt' = IF disk'.payload # disk.payload /\ now > cutAt THEN now ELSE cutAt
  BY DEF LoadCut, TypeOK
<1>4. RepliesCut(disk)'
  <2> SUFFICES ASSUME NEW k \in DOMAIN disk'.idem, disk'.idem[k].resultId # None
               PROVE  LET id == disk'.idem[k].cmd
                      IN  /\ disk'.idem[k].resultId = id
                          /\ id \in DOMAIN disk'.payload => disk'.idem[k].expires <= disk'.payload[id].expires
                          /\ id \notin DOMAIN disk'.payload => disk'.idem[k].expires <= cutAt'
    BY DEF RepliesCut
  <2> DEFINE id == disk.idem[k].cmd
             until == disk.idem[k].expires
  <2>1. k \in DOMAIN disk.idem /\ disk'.idem[k] = disk.idem[k] /\ until \in Nat
    BY <1>1 DEF Kept, TypeOK, IsStore, IsMap, IdemEntry
  <2>2. /\ disk.idem[k].resultId = id
        /\ id \in DOMAIN disk.payload => until <= disk.payload[id].expires
        /\ id \notin DOMAIN disk.payload => until <= cutAt
    BY <2>1 DEF DiskLoadable, Loadable, RepliesBacked, RepliesCut
  <2>3. ASSUME id \in DOMAIN disk'.payload PROVE until <= disk'.payload[id].expires
    BY <1>1, <2>2, <2>3 DEF Kept
  <2>4. ASSUME id \notin DOMAIN disk'.payload PROVE until <= cutAt'
    <3>1. CASE id \in DOMAIN disk.payload
      <4>1. disk.payload[id].token \in disk.devices /\ disk.payload[id].expires \in Nat
        BY <3>1 DEF Consistent, PayloadsAccepted, TypeOK, IsStore, IsMap, Payload
      <4>2. disk.payload[id].expires <= now
        BY <1>1, <1>3, <2>4, <3>1, <4>1 DEF Lasts
      <4>3. now <= cutAt' /\ cutAt' \in Nat
        BY <1>3, <2>4, <3>1
      <4> QED
        BY <1>3, <2>1, <2>2, <3>1, <4>1, <4>2, <4>3
    <3>2. CASE id \notin DOMAIN disk.payload
      BY <1>3, <2>1, <2>2, <3>2
    <3> QED
      BY <3>1, <3>2
  <2> QED
    BY <2>1, <2>2, <2>3, <2>4
<1> QED
  BY <1>2, <1>3, <1>4 DEF DiskLoadable

\* A pairing code is added below the cap (worker.js:1001).
LEMMA AddPairLoadable ==
  ASSUME TypeOK, Consistent, Loadable(disk), NEW code \in Code, AddPair(code)
  PROVE  Loadable(disk')
<1>1. mem = disk
  BY ChainStart DEF AddPair
<1>2. disk' = [disk EXCEPT !.pairs = Put(disk.pairs, code, now + PAIR_TTL)]
  BY <1>1 DEF AddPair, Commit, PairAdded
<1>3. /\ disk'.devices = disk.devices /\ disk'.own = disk.own /\ disk'.idem = disk.idem
      /\ disk'.tickets = disk.tickets /\ disk'.payload = disk.payload /\ disk'.queue = disk.queue
      /\ DOMAIN disk'.pairs = DOMAIN disk.pairs \cup {code}
  BY <1>2, PutMap DEF TypeOK, IsStore, Rows
<1>4. Within(DOMAIN disk'.pairs, PAIR_MAX)
  <2>1. IsFiniteSet(DOMAIN disk.pairs) /\ Cardinality(DOMAIN disk.pairs) < PAIR_MAX
    BY <1>1 DEF AddPair, Loadable, Capped, Within
  <2>2. PAIR_MAX \in Nat
    BY CapAssumption
  <2>3. Within(DOMAIN disk.pairs \cup {code}, PAIR_MAX)
    BY ONLY <2>1, <2>2, WithinOneMore
  <2> QED
    BY <1>3, <2>3
<1> QED
  BY <1>3, <1>4 DEF Loadable, Capped, RepliesBacked, bytesOf

\* A device is registered below the cap (worker.js:1096).
LEMMA RegisterLoadable ==
  ASSUME TypeOK, Consistent, Loadable(disk), NEW code \in Code, NEW d \in Device, Register(code, d)
  PROVE  Loadable(disk')
<1>1. mem = disk
  BY ChainStart DEF Register
<1>2. disk' = [disk EXCEPT !.pairs = Drop(disk.pairs, {code}), !.devices = disk.devices \cup {d}]
  BY <1>1 DEF Register, Commit, Registered
<1>3. /\ disk'.devices = disk.devices \cup {d} /\ disk'.own = disk.own /\ disk'.idem = disk.idem
      /\ disk'.tickets = disk.tickets /\ disk'.payload = disk.payload /\ disk'.queue = disk.queue
      /\ disk'.pairs = Drop(disk.pairs, {code})
  BY <1>2 DEF TypeOK, IsStore, Rows
<1>4. DOMAIN disk'.pairs \subseteq DOMAIN disk.pairs
  BY <1>3 DEF Drop, Restrict
<1>5. Within(disk'.devices, DEVICE_MAX)
  <2>1. IsFiniteSet(disk.devices) /\ Cardinality(disk.devices) < DEVICE_MAX
    BY <1>1 DEF Register, CanRegister, Loadable, Capped, Within
  <2>2. DEVICE_MAX \in Nat
    BY CapAssumption
  <2>3. Within(disk.devices \cup {d}, DEVICE_MAX)
    BY ONLY <2>1, <2>2, WithinOneMore
  <2> QED
    BY <1>3, <2>3
<1>6. Within(DOMAIN disk'.pairs, PAIR_MAX)
  BY <1>4, WithinPart, CapAssumption DEF Loadable, Capped
<1> QED
  BY <1>3, <1>5, <1>6 DEF Loadable, Capped, RepliesBacked, bytesOf

\* A new ticket counts without those it replaces (worker.js:983-987).
LEMMA IssueTicketLoadable ==
  ASSUME TypeOK, Consistent, Loadable(disk), NEW k \in Ticket, NEW d \in Device, IssueTicket(k, d)
  PROVE  Loadable(disk')
<1> DEFINE rest == DOMAIN disk.tickets \ TicketsOf(disk, d)
<1>1. mem = disk
  BY ChainStart DEF IssueTicket
<1>2. disk' = TicketIssued(disk, k, d, now) /\ Cardinality(rest) < TICKET_MAX
  BY <1>1 DEF IssueTicket, Commit, CanIssueTicket
<1>3. disk' = [disk EXCEPT !.tickets = disk'.tickets] /\ DOMAIN disk'.tickets = rest \cup {k}
  BY <1>2, TicketIssuedRows DEF TypeOK
<1>4. /\ disk'.devices = disk.devices /\ disk'.own = disk.own /\ disk'.idem = disk.idem
      /\ disk'.pairs = disk.pairs /\ disk'.payload = disk.payload /\ disk'.queue = disk.queue
  BY <1>3 DEF TypeOK, IsStore, Rows
<1>5. IsFiniteSet(rest)
  BY FS_Subset DEF Loadable, Capped, Within
<1> HIDE DEF rest
<1>6. Within(DOMAIN disk'.tickets, TICKET_MAX)
  <2>1. TICKET_MAX \in Nat
    BY CapAssumption
  <2>2. Cardinality(rest) < TICKET_MAX
    BY <1>2
  <2>3. Within(rest \cup {k}, TICKET_MAX)
    BY ONLY <1>5, <2>1, <2>2, WithinOneMore
  <2> QED
    BY <1>3, <2>3
<1> QED
  BY <1>4, <1>6 DEF Loadable, Capped, RepliesBacked, bytesOf

\* Consumption, acknowledgement, the destructive poll and a used ticket take rows
\* away, but no payload and no reference.
LEMMA TakingLoadable ==
  ASSUME TypeOK, Consistent, Loadable(disk),
         \/ \E k \in Ticket : UseTicket(k)
         \/ \E d \in Device : LegacyPoll(d)
         \/ \E d \in Device, id \in DOMAIN issued : Ack(d, issued[id].seq)
         \/ \E r \in readers : ConsumeResult(r)
  PROVE  Loadable(disk')
<1> DEFINE Less == NoMore(disk, disk') /\ disk'.payload = disk.payload /\ disk'.idem = disk.idem
<1>1. IsStore(disk) /\ mem = disk
  BY ChainStart DEF UseTicket, LegacyPoll, Ack, ConsumeResult, TypeOK
<1>2. ASSUME NEW k \in Ticket, UseTicket(k) PROVE Less
  <2>1. disk' = [disk EXCEPT !.tickets = Drop(disk.tickets, {k})]
    BY <1>1, <1>2 DEF UseTicket, Commit, TicketUsed
  <2>2. DOMAIN Drop(disk.tickets, {k}) \subseteq DOMAIN disk.tickets
    BY DEF Drop, Restrict
  <2> QED
    BY <1>1, <2>1, <2>2 DEF NoMore, IsStore, Rows
<1>3. ASSUME NEW d \in DOMAIN disk.queue, NEW I \in SUBSET disk.queue[d].items,
             disk' = [disk EXCEPT !.queue = Put(disk.queue, d, [last |-> disk.queue[d].last, items |-> I])]
      PROVE  Less
  <2> DEFINE q == [last |-> disk.queue[d].last, items |-> I]
  <2>1. q.items \subseteq disk.queue[d].items /\ disk' = [disk EXCEPT !.queue = Put(disk.queue, d, q)]
    BY <1>3
  <2> HIDE DEF q
  <2>2. /\ disk'.devices = disk.devices /\ disk'.own = disk.own /\ disk'.idem = disk.idem
        /\ disk'.pairs = disk.pairs /\ disk'.payload = disk.payload /\ disk'.tickets = disk.tickets
        /\ disk'.queue = Put(disk.queue, d, q)
    BY <1>1, <2>1 DEF IsStore, Rows
  <2>3. \A e \in DOMAIN disk'.queue : e \in DOMAIN disk.queue /\ disk'.queue[e].items \subseteq disk.queue[e].items
    BY <2>1, <2>2 DEF Put
  <2> QED
    BY <2>2, <2>3 DEF NoMore
<1>4. ASSUME NEW d \in Device, LegacyPoll(d) PROVE Less
  <2>1. d \in DOMAIN disk.queue /\ pending(disk, d, now) \subseteq disk.queue[d].items
    BY <1>1, <1>4 DEF LegacyPoll, CanLegacyPoll, pending, QueueOf, Fresh
  <2> DEFINE I == pending(disk, d, now) \ {Oldest(pending(disk, d, now))}
  <2>2. disk' = [disk EXCEPT !.queue = Put(disk.queue, d, [last |-> disk.queue[d].last, items |-> I])]
    BY <1>1, <1>4 DEF LegacyPoll, Commit, LegacyPolled
  <2>3. I \in SUBSET disk.queue[d].items
    BY <2>1
  <2> HIDE DEF I
  <2> QED
    BY <1>3, <2>1, <2>2, <2>3
<1>5. ASSUME NEW d \in Device, NEW id \in DOMAIN issued, Ack(d, issued[id].seq) PROVE Less
  <2> DEFINE seq == issued[id].seq
             I == {c \in disk.queue[d].items : c.seq > seq}
  <2>1. d \in DOMAIN disk.queue
    BY <1>1, <1>5 DEF Ack, CanAck
  <2>2. disk' = [disk EXCEPT !.queue = Put(disk.queue, d, [last |-> disk.queue[d].last, items |-> I])]
    BY <1>1, <1>5 DEF Ack, Commit, Acked
  <2>3. I \in SUBSET disk.queue[d].items
    OBVIOUS
  <2> HIDE DEF I
  <2> QED
    BY <1>3, <2>1, <2>2, <2>3
<1>6. ASSUME NEW r \in readers, ConsumeResult(r) PROVE Less
  <2>1. disk' = Consumed(disk, r.id)
    BY <1>1, <1>6 DEF ConsumeResult, Commit
  <2>2. /\ disk'.devices = disk.devices /\ disk'.tickets = disk.tickets /\ disk'.queue = disk.queue
        /\ disk'.idem = disk.idem /\ disk'.payload = disk.payload /\ DOMAIN disk'.own = DOMAIN disk.own
    BY <1>1, <2>1, ConsumedRows
  <2>3. disk'.pairs = disk.pairs
    BY <1>1, <2>1 DEF Consumed, IsStore, Rows
  <2> QED
    BY <2>2, <2>3 DEF NoMore
<1>7. Less
  BY <1>2, <1>4, <1>5, <1>6
<1> QED
  BY <1>7, FewerLoadable

\* A revocation takes a payload only with the request that refers to it
\* (worker.js:501-518).
LEMMA RemoveDeviceLoadable ==
  ASSUME TypeOK, Consistent, Loadable(disk), NEW d \in Device, RemoveDevice(d)
  PROVE  Loadable(disk')
<1>1. mem = disk /\ IsStore(disk)
  BY ChainStart DEF RemoveDevice, TypeOK
<1>2. disk' = DeviceRemoved(disk, d)
  BY <1>1 DEF RemoveDevice, Commit
<1>3. /\ disk'.devices = disk.devices \ {d}
      /\ disk'.queue = Drop(disk.queue, {d})
      /\ disk'.idem = Drop(disk.idem, RequestsOf(disk, d))
      /\ disk'.tickets = Drop(disk.tickets, TicketsOf(disk, d))
      /\ disk'.own = Drop(disk.own, RowsOf(disk, d))
      /\ disk'.payload = Drop(disk.payload, RowsOf(disk, d))
      /\ disk'.pairs = disk.pairs
  BY <1>1, <1>2 DEF DeviceRemoved, IsStore, Rows
<1>4. /\ DOMAIN disk'.tickets \subseteq DOMAIN disk.tickets /\ DOMAIN disk'.own \subseteq DOMAIN disk.own
      /\ DOMAIN disk'.queue \subseteq DOMAIN disk.queue
      /\ \A e \in DOMAIN disk'.queue : disk'.queue[e] = disk.queue[e]
      /\ DOMAIN disk'.idem = DOMAIN disk.idem \ RequestsOf(disk, d)
      /\ \A k \in DOMAIN disk'.idem : disk'.idem[k] = disk.idem[k]
      /\ DOMAIN disk'.payload = DOMAIN disk.payload \ RowsOf(disk, d)
      /\ \A id \in DOMAIN disk'.payload : disk'.payload[id] = disk.payload[id]
  BY <1>3 DEF Drop, Restrict
<1>5. Capped(disk')
  <2>1. NoMore(disk, disk')
    BY <1>3, <1>4 DEF NoMore
  <2> QED
    BY <2>1, FewerCapped DEF Loadable
<1>6. \A id \in RowsOf(disk, d) : issued[id].token = d
  BY DEF RowsOf, RequestsOf, Consistent, OwnersIssued, RequestsIssued, PayloadsAccepted, HistoryOK
<1>7. RepliesBacked(disk')
  BY <1>4, <1>6 DEF RepliesBacked, Loadable, RequestsOf, Consistent, RequestsIssued
<1> QED
  BY <1>5, <1>7 DEF Loadable

\* A command is enqueued below the caps of its queue, the owners and the requests
\* (worker.js:536-539).
LEMMA EnqueueLoadable ==
  ASSUME TypeOK, Consistent, Loadable(disk), NEW d \in Device, NEW req \in Request \cup {None},
         NEW id \in Cmd, Enqueue(d, req, id)
  PROVE  Loadable(disk')
<1> DEFINE cmd   == [id |-> id, seq |-> nextSeq(disk, d, now), at |-> now]
           live  == pending(disk, d, now)
           q     == [last |-> nextSeq(disk, d, now), items |-> live \cup {cmd}]
           own   == [token |-> d, expires |-> now + OWNER_TTL, done |-> FALSE, consumed |-> FALSE]
           entry == [cmd |-> id, expires |-> now + OWNER_TTL, resultId |-> None]
           key   == <<d, req>>
           idem  == IF req = None THEN disk.idem ELSE Put(disk.idem, key, entry)
<1>1. mem = disk /\ IsStore(disk)
  BY ChainStart DEF Enqueue, TypeOK
<1>2. disk' = Enqueued(disk, d, req, id, now) /\ CanEnqueue(disk, d, req, now)
  BY <1>1 DEF Enqueue, Commit
<1>3. disk' = [disk EXCEPT !.queue = Put(disk.queue, d, q), !.own = Put(disk.own, id, own), !.idem = idem]
  BY <1>2 DEF Enqueued
<1>4. q.items = live \cup {cmd} /\ entry.resultId = None
  OBVIOUS
<1>5. /\ Cardinality(live) < QUEUE_MAX /\ Cardinality(DOMAIN disk.own) < OWNER_MAX
      /\ req # None => Cardinality(DOMAIN disk.idem) < IDEM_MAX
  BY <1>2 DEF CanEnqueue
<1>6. IsFiniteSet(live)
  <2>1. CASE d \in DOMAIN disk.queue
    <3>1. IsFiniteSet(disk.queue[d].items) /\ live \subseteq disk.queue[d].items
      BY <2>1 DEF Loadable, Capped, Within, pending, QueueOf, Fresh
    <3> QED
      BY <3>1, FS_Subset
  <2>2. CASE d \notin DOMAIN disk.queue
    <3>1. live = {}
      BY <2>2 DEF pending, QueueOf, Fresh
    <3> QED
      BY <3>1, FS_EmptySet
  <2> QED
    BY <2>1, <2>2
<1> HIDE DEF live, cmd, q, own, entry, key, idem
<1>7. /\ disk'.devices = disk.devices /\ disk'.pairs = disk.pairs /\ disk'.tickets = disk.tickets
      /\ disk'.payload = disk.payload /\ disk'.queue = Put(disk.queue, d, q)
      /\ disk'.own = Put(disk.own, id, own) /\ disk'.idem = idem
  BY <1>1, <1>3 DEF IsStore, Rows
<1>8. Within(DOMAIN disk'.own, OWNER_MAX)
  <2>1. DOMAIN disk'.own = DOMAIN disk.own \cup {id}
    BY <1>7 DEF Put
  <2>2. IsFiniteSet(DOMAIN disk.own) /\ Cardinality(DOMAIN disk.own) < OWNER_MAX
    BY <1>5 DEF Loadable, Capped, Within
  <2>3. OWNER_MAX \in Nat
    BY CapAssumption
  <2>4. Within(DOMAIN disk.own \cup {id}, OWNER_MAX)
    BY ONLY <2>2, <2>3, WithinOneMore
  <2> QED
    BY <2>1, <2>4
<1>9. \A e \in DOMAIN disk'.queue : Within(disk'.queue[e].items, QUEUE_MAX)
  <2>1. Within(q.items, QUEUE_MAX)
    <3>1. QUEUE_MAX \in Nat /\ Cardinality(live) < QUEUE_MAX
      BY <1>5, CapAssumption
    <3>2. Within(live \cup {cmd}, QUEUE_MAX)
      BY ONLY <1>6, <3>1, WithinOneMore
    <3> QED
      BY <1>4, <3>2
  <2>2. \A e \in DOMAIN disk'.queue :
          disk'.queue[e] = q \/ (e \in DOMAIN disk.queue /\ disk'.queue[e] = disk.queue[e])
    BY <1>7 DEF Put
  <2> QED
    BY <2>1, <2>2 DEF Loadable, Capped
<1>10. /\ Within(DOMAIN disk'.idem, IDEM_MAX)
       /\ \A k \in DOMAIN disk'.idem :
            disk'.idem[k] = entry \/ (k \in DOMAIN disk.idem /\ disk'.idem[k] = disk.idem[k])
  <2>1. CASE req = None
    BY <1>7, <2>1 DEF idem, Loadable, Capped
  <2>2. CASE req # None
    <3>1. disk'.idem = Put(disk.idem, key, entry)
      BY <1>7, <2>2 DEF idem
    <3>2. /\ DOMAIN disk'.idem = DOMAIN disk.idem \cup {key}
          /\ \A k \in DOMAIN disk'.idem :
               disk'.idem[k] = entry \/ (k \in DOMAIN disk.idem /\ disk'.idem[k] = disk.idem[k])
      BY <3>1 DEF Put
    <3>3. Within(DOMAIN disk'.idem, IDEM_MAX)
      <4>1. IsFiniteSet(DOMAIN disk.idem) /\ Cardinality(DOMAIN disk.idem) < IDEM_MAX
        BY <1>5, <2>2 DEF Loadable, Capped, Within
      <4>2. IDEM_MAX \in Nat
        BY CapAssumption
      <4>3. Within(DOMAIN disk.idem \cup {key}, IDEM_MAX)
        BY ONLY <4>1, <4>2, WithinOneMore
      <4> QED
        BY <3>2, <4>3
    <3> QED
      BY <3>2, <3>3
  <2> QED
    BY <2>1, <2>2
<1>11. Capped(disk')
  BY <1>7, <1>8, <1>9, <1>10 DEF Loadable, Capped, bytesOf
<1>12. RepliesBacked(disk')
  <2> SUFFICES ASSUME NEW k \in DOMAIN disk'.idem, disk'.idem[k].resultId # None
               PROVE  /\ disk'.idem[k].resultId = disk'.idem[k].cmd
                      /\ disk'.idem[k].cmd \in DOMAIN disk.payload
                      /\ disk'.idem[k].expires <= disk.payload[disk'.idem[k].cmd].expires
    BY <1>7 DEF RepliesBacked
  <2>1. k \in DOMAIN disk.idem /\ disk'.idem[k] = disk.idem[k]
    BY <1>4, <1>10
  <2> QED
    BY <2>1 DEF Loadable, RepliesBacked
<1> QED
  BY <1>11, <1>12 DEF Loadable

\* An accepted result is referred to by the request it answers, no longer than it
\* is kept (worker.js:626-637).
LEMMA AcceptedReply ==
  ASSUME NEW s, IsStore(s), NEW id \in DOMAIN s.own, NEW body \in Body, NEW t \in Nat,
         NEW p, p = Accepted(s, id, body, t)
  PROVE  /\ p.pairs = s.pairs
         /\ \A k \in DOMAIN s.idem :
              \/ p.idem[k] = s.idem[k]
              \/ /\ p.idem[k].resultId = id /\ p.idem[k].cmd = id
                 /\ p.idem[k].expires <= p.payload[id].expires
<1> DEFINE owner   == s.own[id]
           primary == t + RESULT_TTL
           keep    == IF hasKey(s, id) /\ s.idem[keyOf(s, id)].expires > primary
                      THEN s.idem[keyOf(s, id)].expires ELSE primary
           row     == [body |-> stored(s, body), expires |-> keep, token |-> owner.token]
           done    == [owner EXCEPT !.done = TRUE]
           entry   == [s.idem[keyOf(s, id)] EXCEPT !.resultId = id]
           idem    == IF hasKey(s, id) THEN Put(s.idem, keyOf(s, id), entry) ELSE s.idem
<1>1. p = [s EXCEPT !.payload = Put(s.payload, id, row), !.res = Put(s.res, id, primary),
                    !.own = Put(s.own, id, done), !.idem = idem]
  BY DEF Accepted, IsStore, Rows
<1>2. primary \in Nat
  BY LifetimeAssumption
<1>3. ASSUME hasKey(s, id)
      PROVE  /\ keyOf(s, id) \in DOMAIN s.idem /\ s.idem[keyOf(s, id)].cmd = id
             /\ s.idem[keyOf(s, id)] \in IdemEntry
  BY <1>3 DEF hasKey, keyOf, IsStore, IsMap
<1>4. ASSUME hasKey(s, id)
      PROVE  entry.resultId = id /\ entry.cmd = id /\ entry.expires <= keep
  <2> DEFINE e == s.idem[keyOf(s, id)]
  <2>1. e \in IdemEntry /\ e.cmd = id
    BY <1>3, <1>4
  <2>2. keep = IF e.expires > primary THEN e.expires ELSE primary
    BY <1>4
  <2> HIDE DEF primary, keep, e
  <2>3. e.expires \in Nat /\ e.expires <= keep
    BY <1>2, <2>1, <2>2 DEF IdemEntry
  <2>4. entry = [e EXCEPT !.resultId = id]
    BY DEF e
  <2> HIDE DEF entry
  <2> QED
    BY <2>1, <2>3, <2>4 DEF IdemEntry
<1>5. row.expires = keep
  OBVIOUS
<1> HIDE DEF primary, keep, row, done, entry, idem
<1>6. p.pairs = s.pairs /\ p.idem = idem /\ p.payload = Put(s.payload, id, row)
  BY <1>1 DEF IsStore, Rows
<1>7. p.payload[id].expires = keep
  BY <1>5, <1>6 DEF Put
<1>8. ASSUME NEW k \in DOMAIN s.idem, idem[k] # s.idem[k]
      PROVE  idem[k] = entry /\ hasKey(s, id)
  BY <1>8 DEF idem, Put
<1> QED
  BY <1>4, <1>6, <1>7, <1>8

\* A result is accepted below the caps, once per command (worker.js:611-637).
LEMMA AcceptLoadable ==
  ASSUME TypeOK, Consistent, Loadable(disk), NEW d \in Device, NEW id \in Cmd, NEW body \in Body,
         AcceptResult(d, id, body)
  PROVE  Loadable(disk')
<1>1. mem = disk /\ IsStore(disk) /\ now \in Nat
  BY ChainStart DEF AcceptResult, TypeOK
<1>2. disk' = Accepted(disk, id, body, now) /\ CanAccept(disk, d, id, body)
  BY <1>1 DEF AcceptResult, Commit
<1>3. /\ disk'.devices = disk.devices /\ disk'.tickets = disk.tickets /\ disk'.queue = disk.queue
      /\ DOMAIN disk'.own = DOMAIN disk.own /\ DOMAIN disk'.idem = DOMAIN disk.idem
      /\ DOMAIN disk'.payload = DOMAIN disk.payload \cup {id}
      /\ disk'.payload[id].body = stored(disk, body)
      /\ \A i \in DOMAIN disk.payload : i # id => disk'.payload[i] = disk.payload[i]
  BY <1>1, <1>2, AcceptedRows DEF CanAccept
<1>4. /\ disk'.pairs = disk.pairs
      /\ \A k \in DOMAIN disk.idem :
           \/ disk'.idem[k] = disk.idem[k]
           \/ /\ disk'.idem[k].resultId = id /\ disk'.idem[k].cmd = id
              /\ disk'.idem[k].expires <= disk'.payload[id].expires
  BY <1>1, <1>2, AcceptedReply DEF CanAccept
<1>5. id \notin DOMAIN disk.payload
  BY <1>2 DEF CanAccept, Consistent, OwnersIssued, PayloadsAccepted
<1>6. Within(DOMAIN disk'.payload, RESULT_MAX)
  <2>1. IsFiniteSet(DOMAIN disk.payload) /\ Cardinality(DOMAIN disk.payload) < RESULT_MAX
    BY <1>2 DEF CanAccept, Loadable, Capped, Within
  <2>2. RESULT_MAX \in Nat
    BY CapAssumption
  <2>3. Within(DOMAIN disk.payload \cup {id}, RESULT_MAX)
    BY ONLY <2>1, <2>2, WithinOneMore
  <2> QED
    BY <1>3, <2>3
<1>7. Within(bytesOf(disk', DOMAIN disk'.payload), RESULT_TOTAL_BYTES)
  <2>1. Size[disk'.payload[id].body] \in Nat
    BY <1>3, StoredType, AtomAssumption DEF Content
  <2>2. /\ IsFiniteSet(bytesOf(disk, DOMAIN disk.payload))
        /\ payloadBytes(disk) + Size[disk'.payload[id].body] <= RESULT_TOTAL_BYTES
    BY <1>2, <1>3 DEF CanAccept, Loadable, Capped, Within
  <2>3. \A i \in DOMAIN disk.payload : i # id => disk'.payload[i].body = disk.payload[i].body
    BY <1>3
  <2>4. RESULT_TOTAL_BYTES \in Nat
    BY CapAssumption
  <2>5. DOMAIN disk'.payload = DOMAIN disk.payload \cup {id}
    BY <1>3
  <2> QED
    BY ONLY <2>1, <2>2, <2>3, <2>4, <2>5, BytesOfOneMore
<1>8. Capped(disk')
  BY <1>3, <1>4, <1>6, <1>7 DEF Loadable, Capped
<1>9. RepliesBacked(disk')
  BY <1>3, <1>4, <1>5 DEF Loadable, RepliesBacked
<1> QED
  BY <1>8, <1>9 DEF Loadable

\* A relay with the imported devices is loadable (worker.js:462-481).
LEMMA InitLoadable == Init => Loadable(disk)
<1> SUFFICES ASSUME Init PROVE Loadable(disk)
  OBVIOUS
<1>1. PICK D \in SUBSET Device : /\ IsFiniteSet(D) /\ Cardinality(D) <= DEVICE_MAX
                                 /\ disk = Imported(D)
  BY DEF Init
<1>2. /\ disk.devices = D /\ disk.pairs = EmptyMap /\ disk.tickets = EmptyMap
      /\ disk.queue = EmptyMap /\ disk.own = EmptyMap /\ disk.idem = EmptyMap
      /\ disk.payload = EmptyMap
  BY <1>1 DEF Imported
<1>3. DOMAIN EmptyMap = {} /\ bytesOf(disk, {}) = {}
  BY DEF EmptyMap, bytesOf
<1>4. ASSUME NEW n \in Nat PROVE Within({}, n)
  <2>1. IsFiniteSet({}) /\ Cardinality({}) = 0
    BY FS_EmptySet
  <2> QED
    BY <2>1 DEF Within
<1>5. Capped(disk)
  BY <1>1, <1>2, <1>3, <1>4, CapAssumption DEF Capped, Within
<1>6. RepliesBacked(disk)
  BY <1>2, <1>3 DEF RepliesBacked
<1> QED
  BY <1>5, <1>6 DEF Loadable

\* A commit is of a relay that is not down.
LEMMA CommitLoadable ==
  ASSUME TypeOK, Consistent, DiskLoadable,
         \/ DeviceStep
         \/ \E d \in Device, req \in Request \cup {None}, id \in Cmd : Enqueue(d, req, id)
         \/ \E r \in readers : ConsumeResult(r)
         \/ \E code \in Code : AddPair(code)
         \/ \E d \in Device : RemoveDevice(d)
  PROVE  DiskLoadable'
<1>1. stage # "down" /\ stage' # "down"
  BY DEF DeviceStep, AcceptResult, LegacyPoll, Ack, UseTicket, IssueTicket, Register, Enqueue,
         ConsumeResult, AddPair, RemoveDevice, Commit
<1>2. Loadable(disk)
  BY <1>1 DEF DiskLoadable
<1>3. Loadable(disk')
  <2>1. CASE DeviceStep
    BY <1>2, <2>1, AcceptLoadable, IssueTicketLoadable, RegisterLoadable, TakingLoadable DEF DeviceStep
  <2>2. CASE \E d \in Device, req \in Request \cup {None}, id \in Cmd : Enqueue(d, req, id)
    BY <1>2, <2>2, EnqueueLoadable
  <2>3. CASE \E r \in readers : ConsumeResult(r)
    BY <1>2, <2>3, TakingLoadable
  <2>4. CASE \E code \in Code : AddPair(code)
    BY <1>2, <2>4, AddPairLoadable
  <2>5. CASE \E d \in Device : RemoveDevice(d)
    BY <1>2, <2>5, RemoveDeviceLoadable
  <2> QED
    BY <2>1, <2>2, <2>3, <2>4, <2>5
<1> QED
  BY <1>1, <1>3 DEF DiskLoadable

\* Every step of the relay keeps its storage loadable.
LEMMA NextLoadable == TypeOK /\ Consistent /\ DiskLoadable /\ [Next]_vars => DiskLoadable'
<1> SUFFICES ASSUME TypeOK, Consistent, DiskLoadable, [Next]_vars PROVE DiskLoadable'
  OBVIOUS
<1>1. ASSUME UNCHANGED <<disk, cutAt>>, stage' = "down" <=> stage = "down"
      PROVE  DiskLoadable'
  BY <1>1 DEF DiskLoadable, RepliesCut
<1>2. CASE DeviceStep
  BY <1>2, CommitLoadable
<1>3. CASE DriverStep
  <2>1. CASE \/ \E id \in Cmd : FindResult(id)
             \/ \E k \in ReqKey : FindReplay(k)
             \/ \E r \in readers : ReaderLeaves(r) \/ ReplayResult(r)
    BY <1>1, <2>1 DEF FindResult, FindReplay, ReaderLeaves, ReplayResult, rows, chain
  <2> QED
    BY <1>3, <2>1, CommitLoadable DEF DriverStep
<1>4. CASE HubStep
  <2>1. CASE Purge
    <3>1. /\ disk' = Purged(disk, now, pinned) /\ IsStore(disk) /\ now \in Nat
          /\ stage = "idle" /\ stage' = "purged"
      BY <2>1, ChainStart DEF Purge, TypeOK
    <3>2. Loadable(disk')
      BY <3>1, ConsistentRegistrants, PurgedLoadable DEF DiskLoadable
    <3> QED
      BY <3>1, <3>2 DEF DiskLoadable
  <2>2. CASE Finish \/ Apply \/ \E k \in Slot : StreamEnds(k)
    BY <1>1, <2>2 DEF Finish, Apply, StreamEnds, rows, chain
  <2> QED
    BY <1>4, <2>1, <2>2 DEF HubStep
<1>5. CASE Tick
  BY <1>1, <1>5 DEF Tick, rows, chain
<1>6. CASE Restart
  BY <1>6, RestartLoadable
<1>7. CASE LoadCut
  BY <1>7, CutLoadable
<1>8. CASE UNCHANGED vars
  BY <1>1, <1>8 DEF vars, rows, chain
<1> QED
  BY <1>2, <1>3, <1>4, <1>5, <1>6, <1>7, <1>8 DEF Next

\* Whatever load() counts is a part of a table that is within its cap, and what
\* it looks for outlives the reference to it.
LEMMA LoadableAccepts ==
  ASSUME NEW s, IsStore(s), Capped(s), Registrants(s), NEW t \in Nat,
         \A id \in DOMAIN s.res : s.res[id] > t => Backed(s, id),
         \A k \in DOMAIN s.idem : s.idem[k].resultId # None /\ s.idem[k].expires > t =>
           /\ s.idem[k].resultId \in DOMAIN s.payload
           /\ s.idem[k].expires <= s.payload[s.idem[k].resultId].expires
  PROVE  LoadAccepts(s, t)
<1> DEFINE live   == {id \in DOMAIN s.payload : s.payload[id].expires > t /\ s.payload[id].token \in s.devices}
           owners == {id \in DOMAIN s.own : s.own[id].expires > t /\ s.own[id].token \in s.devices}
           keys   == {k \in DOMAIN s.idem : s.idem[k].expires > t /\ k[1] \in s.devices}
           ticks  == {k \in DOMAIN s.tickets : s.tickets[k].expires > t /\ s.tickets[k].token \in s.devices}
           fresh  == {c \in DOMAIN s.pairs : s.pairs[c] > t}
<1>1. /\ live \subseteq DOMAIN s.payload /\ owners \subseteq DOMAIN s.own /\ keys \subseteq DOMAIN s.idem
      /\ ticks \subseteq DOMAIN s.tickets /\ fresh \subseteq DOMAIN s.pairs
  OBVIOUS
<1>2. bytesOf(s, live) \subseteq bytesOf(s, DOMAIN s.payload)
  BY DEF bytesOf
<1>3. \A id \in DOMAIN s.res : s.res[id] > t => id \in live
  BY DEF Backed, Registrants, IsStore, IsMap, Payload
<1>4. \A k \in keys : s.idem[k].resultId # None => s.idem[k].resultId \in live
  BY DEF Registrants, IsStore, IsMap, Payload, IdemEntry
<1> HIDE DEF live, owners, keys, ticks, fresh
<1>5. /\ Within(s.devices, DEVICE_MAX) /\ Within(fresh, PAIR_MAX) /\ Within(owners, OWNER_MAX)
      /\ Within(live, RESULT_MAX) /\ Within(bytesOf(s, live), RESULT_TOTAL_BYTES)
      /\ Within(keys, IDEM_MAX) /\ Within(ticks, TICKET_MAX)
  BY <1>1, <1>2, WithinPart, CapAssumption DEF Capped
<1>6. \A d \in DOMAIN s.queue \cap s.devices : Within(Fresh(s.queue[d].items, t), QUEUE_MAX)
  <2> TAKE d \in DOMAIN s.queue \cap s.devices
  <2>1. Fresh(s.queue[d].items, t) \subseteq s.queue[d].items
    BY DEF Fresh
  <2> QED
    BY <2>1, WithinPart, CapAssumption DEF Capped
<1>7. /\ Cardinality(s.devices) <= DEVICE_MAX
      /\ Cardinality(fresh) <= PAIR_MAX
      /\ \A d \in DOMAIN s.queue \cap s.devices : Cardinality(Fresh(s.queue[d].items, t)) <= QUEUE_MAX
      /\ Cardinality(owners) <= OWNER_MAX
      /\ Cardinality(live) <= RESULT_MAX
      /\ Cardinality(bytesOf(s, live)) <= RESULT_TOTAL_BYTES
      /\ Cardinality(keys) <= IDEM_MAX
      /\ Cardinality(ticks) <= TICKET_MAX
  BY <1>5, <1>6 DEF Within
<1> QED
  BY <1>3, <1>4, <1>7 DEF LoadAccepts, live, owners, keys, ticks, fresh

\* A row that lacks its payload was over when a load cut short deleted that.
LEMMA DiskAccepts ==
  ASSUME TypeOK, Consistent, DiskLoadable, stage = "down" => now >= cutAt
  PROVE  LoadAccepts(disk, now)
<1>1. IsStore(disk) /\ now \in Nat /\ cutAt \in Nat /\ Capped(disk) /\ Registrants(disk)
  BY ConsistentRegistrants DEF TypeOK, DiskLoadable, Loadable
<1>2. ASSUME NEW id \in DOMAIN disk.res, disk.res[id] > now PROVE Backed(disk, id)
  <2>1. disk.res[id] \in Nat
    BY <1>1 DEF IsStore, IsMap
  <2>2. CASE stage # "down"
    BY <2>2, BackedUp DEF ReceiptsBacked
  <2>3. CASE stage = "down"
    <3>1. Backed(disk, id) \/ disk.res[id] <= cutAt
      BY <2>3 DEF Consistent, ReceiptsOK, ReceiptsCut, Overdue
    <3> QED
      BY <1>1, <1>2, <2>1, <2>3, <3>1
  <2> QED
    BY <2>2, <2>3
<1>3. ASSUME NEW k \in DOMAIN disk.idem, disk.idem[k].resultId # None, disk.idem[k].expires > now
      PROVE  /\ disk.idem[k].resultId \in DOMAIN disk.payload
             /\ disk.idem[k].expires <= disk.payload[disk.idem[k].resultId].expires
  <2>1. disk.idem[k].expires \in Nat
    BY <1>1 DEF IsStore, IsMap, IdemEntry
  <2>2. CASE stage # "down"
    BY <1>3, <2>2 DEF DiskLoadable, Loadable, RepliesBacked
  <2>3. CASE stage = "down"
    BY <1>1, <1>3, <2>1, <2>3 DEF DiskLoadable, RepliesCut
  <2> QED
    BY <2>2, <2>3
<1> QED
  BY <1>1, <1>2, <1>3, LoadableAccepts

\* In every state storage is loadable, but for what a load cut short has left.
LEMMA AlwaysLoadable == Spec => []DiskLoadable
<1>1. Init => DiskLoadable
  BY InitLoadable DEF Init, DiskLoadable
<1>2. TypeOK /\ Consistent /\ DiskLoadable /\ [Next]_vars => DiskLoadable'
  BY NextLoadable
<1> QED
  BY <1>1, <1>2, TypeCorrect, AlwaysConsistent, PTL DEF Spec

\* The rows that commits, purges, restarts and loads cut short leave are rows that
\* load() (worker.js:361-460) accepts, with any number of devices, commands,
\* payloads and sizes, and with the clock set back too: but after a load that
\* deleted payloads was cut short, only once the clock reads again what it did.
THEOREM RestartAlwaysAccepts == Spec => []RestartAccepts
<1>1. TypeOK /\ Consistent /\ DiskLoadable => RestartAccepts
  <2> SUFFICES ASSUME TypeOK, Consistent, DiskLoadable, ~(now < cutAt)
               PROVE  LoadAccepts(disk, now)
    BY DEF RestartAccepts
  <2>1. now >= cutAt
    BY DEF TypeOK
  <2> QED
    BY <2>1, DiskAccepts
<1> QED
  BY <1>1, TypeCorrect, AlwaysConsistent, AlwaysLoadable, PTL

\* A load cut short deleted payloads at the present clock reading or an earlier one.
CutPast == cutAt <= now

\* If the clock is never set back, load() accepts the rows in every state, also
\* when the loads before it were cut short: a relay never locks itself out
\* (worker.js:398, :409, :420).
THEOREM LoadAlwaysAccepts ==
  ASSUME ~ClockSteps
  PROVE  Spec => []LoadNeverRefuses
<1>1. Init => CutPast
  BY DEF Init, CutPast
<1>2. TypeOK /\ CutPast /\ [Next]_vars => CutPast'
  <2> SUFFICES ASSUME TypeOK, CutPast, [Next]_vars PROVE CutPast'
    OBVIOUS
  <2>1. now \in Nat /\ cutAt \in Nat /\ cutAt <= now
    BY DEF TypeOK, CutPast
  <2>2. ASSUME UNCHANGED <<now, cutAt>> PROVE CutPast'
    BY <2>1, <2>2 DEF CutPast
  <2>3. CASE DeviceStep
    BY <2>2, <2>3 DEF DeviceStep, AcceptResult, LegacyPoll, Ack, UseTicket, IssueTicket, Register, Commit
  <2>4. CASE DriverStep
    BY <2>2, <2>4 DEF DriverStep, Enqueue, FindResult, FindReplay, ReaderLeaves, ConsumeResult,
                      ReplayResult, AddPair, RemoveDevice, Commit
  <2>5. CASE HubStep
    BY <2>2, <2>5 DEF HubStep, Purge, Finish, Apply, StreamEnds
  <2>6. CASE Tick
    BY <2>1, <2>6 DEF Tick, CutPast
  <2>7. CASE Restart \/ LoadCut
    BY <2>1, <2>7 DEF Restart, LoadCut, Forgotten, CutPast
  <2>8. CASE UNCHANGED vars
    BY <2>2, <2>8 DEF vars
  <2> QED
    BY <2>3, <2>4, <2>5, <2>6, <2>7, <2>8 DEF Next
<1>3. TypeOK /\ Consistent /\ DiskLoadable /\ CutPast => LoadNeverRefuses
  BY DiskAccepts DEF TypeOK, CutPast, LoadNeverRefuses
<1> QED
  BY <1>1, <1>2, <1>3, TypeCorrect, AlwaysConsistent, AlwaysLoadable, PTL DEF Spec
=============================================================================
