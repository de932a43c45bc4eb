--------------------------- MODULE RelayHubRefinement ---------------------------
(***************************************************************************)
(* RelayHub implements ResultLedger, for every value of the constants:     *)
(* each step of the relay is one step of the ledger, or none.              *)
(***************************************************************************)
EXTENDS RelayHubLedger, RelayHubProofs

\* The rows the ledger sees only go away, and keep what they say.
Fewer ==
  /\ DOMAIN disk'.own \subseteq DOMAIN disk.own
  /\ \A id \in DOMAIN disk'.own : disk'.own[id].done = disk.own[id].done
  /\ DOMAIN disk'.res \subseteq DOMAIN disk.res
  /\ DOMAIN disk'.payload \subseteq DOMAIN disk.payload
  /\ \A id \in DOMAIN disk'.payload : disk'.payload[id] = disk.payload[id]

\* What is unread has its receipt and its payload, also when the object is down.
LEMMA UnreadBacked ==
  /\ Consistent => unread = DOMAIN disk.res \cap DOMAIN disk.payload
  /\ Consistent' => unread' = DOMAIN disk'.res \cap DOMAIN disk'.payload
<1>1. Consistent => unread = DOMAIN disk.res \cap DOMAIN disk.payload
  BY DEF unread, Consistent, ReceiptsOK, ReceiptsBacked, Backed
<1>2. Consistent' => unread' = DOMAIN disk'.res \cap DOMAIN disk'.payload
  BY DEF unread, Consistent, ReceiptsOK, ReceiptsBacked, Backed
<1> QED
  BY <1>1, <1>2

\* A step that only takes rows away forgets: a receipt never stays without its
\* payload, or its reader would be given nothing.
LEMMA FewerForgets ==
  ASSUME Fewer, Consistent, Consistent', UNCHANGED <<issued, taken>>, opening' \in {opening, None}
  PROVE  Ledger!Forget
<1>1. owed' \subseteq owed
  BY DEF Fewer, owed
<1>2. ASSUME NEW c \in Cmd, answer'[c] # answer[c]
      PROVE  answer'[c] = None /\ c \notin unread'
  <2>1. c \notin DOMAIN disk'.payload
    BY <1>2 DEF Fewer, answer
  <2> QED
    BY <2>1, UnreadBacked DEF answer
<1>3. DOMAIN answer' = Cmd
  BY DEF answer
<1>4. unread' \subseteq unread
  BY UnreadBacked DEF Fewer
<1> QED
  BY <1>1, <1>2, <1>3, <1>4 DEF Ledger!Forget

\* A step on other rows is none of the ledger's.
LEMMA OthersForget ==
  ASSUME disk'.own = disk.own, disk'.res = disk.res, disk'.payload = disk.payload,
         Consistent, Consistent', UNCHANGED <<issued, taken, opening>>
  PROVE  Ledger!Forget
BY FewerForgets DEF Fewer

\* An enqueue opens a line: its id was never enqueued before (worker.js:538).
LEMMA EnqueueOffers ==
  ASSUME TypeOK, Consistent, NEW d \in Device, NEW req \in Request \cup {None}, NEW id \in Cmd,
         Enqueue(d, req, id), Consistent'
  PROVE  Ledger!Offer(id)
<1>1. mem = disk
  BY ChainStart DEF Enqueue
<1>2. disk' = Enqueued(disk, d, req, id, now)
  BY <1>1 DEF Enqueue, Commit
<1> DEFINE row == [token |-> d, expires |-> now + OWNER_TTL, done |-> FALSE, consumed |-> FALSE]
<1>3. disk'.own = Put(disk.own, id, row) /\ disk'.res = disk.res /\ disk'.payload = disk.payload
  BY <1>2 DEF Enqueued, TypeOK, IsStore, Rows
<1>4. row.done = FALSE
  OBVIOUS
<1> HIDE DEF row
<1>5. /\ DOMAIN disk'.own = DOMAIN disk.own \cup {id} /\ ~disk'.own[id].done
      /\ \A i \in DOMAIN disk.own : i # id => disk'.own[i] = disk.own[i]
  BY <1>3, <1>4 DEF Put
<1>6. owed' = owed \cup {id}
  BY <1>5 DEF owed
<1>7. answer' = answer /\ unread' = unread
  BY <1>3, UnreadBacked DEF answer
<1>8. DOMAIN issued' = DOMAIN issued \cup {id} /\ id \notin DOMAIN issued /\ UNCHANGED <<taken, opening>>
  BY PutMap DEF Enqueue
<1> QED
  BY <1>6, <1>7, <1>8 DEF Ledger!Offer

\* A result is written on a line that is owed one and has none.
LEMMA AcceptAnswers ==
  ASSUME TypeOK, Consistent, NEW d \in Device, NEW id \in Cmd, NEW body \in Body,
         AcceptResult(d, id, body), Consistent'
  PROVE  \E a \in Content : Ledger!Answer(id, a)
<1>1. mem = disk
  BY ChainStart DEF AcceptResult
<1>2. /\ disk' = Accepted(disk, id, body, now)
      /\ id \in DOMAIN disk.own /\ ~disk.own[id].done
      /\ UNCHANGED <<issued, taken, opening>>
  BY <1>1 DEF AcceptResult, Commit, CanAccept
<1>3. id \notin DOMAIN accepted
  BY <1>2 DEF Consistent, OwnersIssued
<1>4. id \notin DOMAIN disk.payload /\ id \notin taken
  BY <1>3 DEF Consistent, PayloadsAccepted, HistoryOK
<1>5. IsStore(disk) /\ now \in Nat
  BY DEF TypeOK
<1>6. /\ DOMAIN disk'.res = DOMAIN disk.res \cup {id}
      /\ DOMAIN disk'.own = DOMAIN disk.own /\ disk'.own[id].done
      /\ \A i \in DOMAIN disk.own : i # id => disk'.own[i] = disk.own[i]
      /\ DOMAIN disk'.payload = DOMAIN disk.payload \cup {id}
      /\ disk'.payload[id].body = stored(disk, body)
      /\ \A i \in DOMAIN disk.payload : i # id => disk'.payload[i] = disk.payload[i]
  BY <1>2, <1>5, AcceptedRows
<1>7. stored(disk, body) \in Content
  BY DEF stored, Content
<1>8. owed' = owed \ {id} /\ id \in owed
  BY <1>2, <1>6 DEF owed
<1>9. answer' = [answer EXCEPT ![id] = stored(disk, body)] /\ answer[id] = None
  BY <1>4, <1>6 DEF answer
<1>10. unread' = unread \cup {id}
  BY <1>6, UnreadBacked
<1> QED
  BY <1>2, <1>4, <1>7, <1>8, <1>9, <1>10 DEF Ledger!Answer

\* The primary reader reads a line that has an answer it was not given before.
LEMMA ConsumeReads ==
  ASSUME TypeOK, Consistent, NEW r \in readers, ConsumeResult(r), Consistent'
  PROVE  r.id \in Cmd /\ Ledger!Read(r.id)
<1>1. mem = disk /\ opening = None
  BY ChainStart DEF ConsumeResult
<1>2. /\ disk' = Consumed(disk, r.id) /\ r.id \in DOMAIN disk.res /\ r.id \in DOMAIN disk.payload
      /\ UNCHANGED issued /\ taken' = taken \cup {r.id} /\ opening' = r.id
  BY <1>1 DEF ConsumeResult, Commit, Readable
<1>3. r.id \notin taken
  BY ConsumeConsistent
<1>4. r.id \in Cmd
  BY DEF TypeOK, Reader
<1>5. /\ disk'.payload = disk.payload
      /\ DOMAIN disk'.res = DOMAIN disk.res \ {r.id}
      /\ DOMAIN disk'.own = DOMAIN disk.own
      /\ \A i \in DOMAIN disk.own : disk'.own[i].done = disk.own[i].done
  <2>1. IsStore(disk) /\ disk' = Consumed(disk, r.id)
    BY <1>2 DEF TypeOK
  <2> QED
    BY <2>1, ConsumedRows
<1>6. owed' = owed /\ answer' = answer
  BY <1>5 DEF owed, answer
<1>7. disk.payload[r.id] \in Payload
  BY <1>2 DEF TypeOK, IsStore, IsMap
<1>8. answer[r.id] # None
  BY <1>2, <1>4, <1>7, AtomAssumption DEF answer, Payload, Content
<1>9. unread' = unread \ {r.id} /\ r.id \in unread
  BY <1>2, <1>5, UnreadBacked
<1> QED
  BY <1>1, <1>2, <1>3, <1>4, <1>6, <1>8, <1>9 DEF Ledger!Read

\* A revoked device takes its lines with it.
LEMMA RemoveForgets ==
  ASSUME TypeOK, Consistent, NEW d \in Device, RemoveDevice(d), Consistent'
  PROVE  Ledger!Forget
<1>1. disk' = DeviceRemoved(disk, d) /\ UNCHANGED <<issued, taken, opening>>
  BY ChainStart DEF RemoveDevice, Commit, history
<1>2. /\ disk'.own = Drop(disk.own, RowsOf(disk, d))
      /\ disk'.res = Drop(disk.res, RowsOf(disk, d))
      /\ disk'.payload = Drop(disk.payload, RowsOf(disk, d))
  BY <1>1 DEF DeviceRemoved, TypeOK, IsStore, Rows
<1>3. Fewer
  BY <1>2 DEF Fewer, Drop, Restrict
<1> QED
  BY <1>1, <1>3, FewerForgets

\* A purge, a crash and the rows a reload drops, complete or cut short, are forgetting.
LEMMA LossForgets ==
  ASSUME TypeOK, Consistent, Purge \/ Restart \/ LoadCut, Consistent'
  PROVE  Ledger!Forget
<1>1. Kept(disk, disk')
  <2>1. CASE Purge
    BY <2>1, PurgedKept, ConsistentRegistrants DEF Purge, TypeOK, Consistent, ChainOK
  <2>2. CASE Restart
    BY <2>2, LoadedKept, ConsistentRegistrants DEF Restart, TypeOK, Consistent
  <2>3. CASE LoadCut
    BY <2>3, CutDisk
  <2> QED
    BY <2>1, <2>2, <2>3
<1>2. Fewer /\ UNCHANGED <<issued, taken>> /\ opening' \in {opening, None}
  BY <1>1 DEF Fewer, Kept, Purge, Restart, LoadCut, Forgotten, history
<1> QED
  BY <1>2, FewerForgets

\* Pairing, tickets, acknowledgements and polls touch no line.
LEMMA OtherRows ==
  ASSUME TypeOK, Consistent, Consistent',
         \/ \E code \in Code : AddPair(code) \/ \E d \in Device : Register(code, d)
         \/ \E k \in Ticket : UseTicket(k) \/ \E d \in Device : IssueTicket(k, d)
         \/ \E d \in Device : LegacyPoll(d) \/ \E seq \in Nat : Ack(d, seq)
  PROVE  Ledger!Forget
<1>1. mem = disk
  BY ChainStart DEF AddPair, Register, UseTicket, IssueTicket, LegacyPoll, Ack
<1>2. UNCHANGED <<issued, taken, opening>>
  BY DEF AddPair, Register, UseTicket, IssueTicket, LegacyPoll, Ack, history
<1>3. disk'.own = disk.own /\ disk'.res = disk.res /\ disk'.payload = disk.payload
  <2>1. DOMAIN disk = Rows
    BY DEF TypeOK, IsStore
  <2>2. CASE \E code \in Code : AddPair(code) \/ \E d \in Device : Register(code, d)
    BY <1>1, <2>1, <2>2 DEF AddPair, Register, Commit, PairAdded, Registered, Rows
  <2>3. CASE \E k \in Ticket : UseTicket(k) \/ \E d \in Device : IssueTicket(k, d)
    BY <1>1, <2>1, <2>3 DEF UseTicket, IssueTicket, Commit, TicketUsed, TicketIssued, Rows
  <2>4. CASE \E d \in Device : LegacyPoll(d) \/ \E seq \in Nat : Ack(d, seq)
    BY <1>1, <2>1, <2>4 DEF LegacyPoll, Ack, Commit, LegacyPolled, Acked, Rows
  <2> QED
    BY <2>2, <2>3, <2>4
<1> QED
  BY <1>2, <1>3, OthersForget

\* Readers, streams, time and the memory of the object are not in the ledger,
\* but for the end of a consumption.
LEMMA Unseen ==
  ASSUME UNCHANGED <<disk, history>>, opening' \in {opening, None}, Consistent, Consistent'
  PROVE  [Ledger!Handed]_Ledger!vars
<1>1. owed' = owed /\ answer' = answer /\ unread' = unread
  BY UnreadBacked DEF owed, answer
<1> QED
  BY <1>1 DEF history, Ledger!vars, Ledger!Handed

\* Every step of the relay is a step of the ledger or none.
LEMMA NextLedger ==
  ASSUME TypeOK, Consistent, [Next]_vars, Consistent'
  PROVE  [Ledger!Next]_Ledger!vars
<1>1. CASE DeviceStep
  <2>1. ASSUME NEW d \in Device, NEW id \in Cmd, NEW body \in Body, AcceptResult(d, id, body)
        PROVE  Ledger!Next
    BY <2>1, AcceptAnswers DEF Ledger!Next
  <2>2. ASSUME NEW d \in Device, NEW id \in DOMAIN issued, Ack(d, issued[id].seq)
        PROVE  Ledger!Next
    <3>1. issued[id].seq \in Nat
      BY DEF TypeOK, IsMap, Issue
    <3> QED
      BY <2>2, <3>1, OtherRows DEF Ledger!Next
  <2> QED
    BY <1>1, <2>1, <2>2, OtherRows DEF DeviceStep, Ledger!Next
<1>2. CASE DriverStep
  <2>1. ASSUME NEW d \in Device, NEW req \in Request \cup {None}, NEW id \in Cmd, Enqueue(d, req, id)
        PROVE  Ledger!Next
    BY <2>1, EnqueueOffers DEF Ledger!Next
  <2>2. ASSUME NEW r \in readers, ConsumeResult(r)
        PROVE  Ledger!Next
    BY <2>2, ConsumeReads DEF Ledger!Next
  <2>3. ASSUME NEW code \in Code, AddPair(code)
        PROVE  Ledger!Next
    BY <2>3, OtherRows DEF Ledger!Next
  <2>4. ASSUME NEW d \in Device, RemoveDevice(d)
        PROVE  Ledger!Next
    BY <2>4, RemoveForgets DEF Ledger!Next
  <2>5. ASSUME \/ \E id \in Cmd : FindResult(id)
               \/ \E k \in ReqKey : FindReplay(k)
               \/ \E r \in readers : ReaderLeaves(r) \/ ReplayResult(r)
        PROVE  [Ledger!Handed]_Ledger!vars
    BY <2>5, Unseen DEF FindResult, FindReplay, ReaderLeaves, ReplayResult, rows, chain
  <2> QED
    BY <1>2, <2>1, <2>2, <2>3, <2>4, <2>5 DEF DriverStep, Ledger!Next
<1>3. CASE HubStep
  <2>1. ASSUME Finish \/ Apply \/ \E k \in Slot : StreamEnds(k)
        PROVE  [Ledger!Handed]_Ledger!vars
    BY <2>1, Unseen DEF Finish, Apply, StreamEnds, rows, chain
  <2> QED
    BY <1>3, <2>1, LossForgets DEF HubStep, Ledger!Next
<1>4. CASE Tick
  BY <1>4, Unseen DEF Tick, rows, chain, Ledger!Next
<1>5. CASE Restart
  BY <1>5, LossForgets DEF Ledger!Next
<1>6. CASE LoadCut
  BY <1>6, LossForgets DEF Ledger!Next
<1>7. CASE UNCHANGED vars
  BY <1>7, Unseen DEF vars, rows, chain, Ledger!Next
<1> QED
  BY <1>1, <1>2, <1>3, <1>4, <1>5, <1>6, <1>7 DEF Next

\* A fresh relay is an empty ledger.
LEMMA InitLedger == Init => Ledger!Init
<1> SUFFICES ASSUME Init PROVE Ledger!Init
  OBVIOUS
<1>1. disk.own = EmptyMap /\ disk.res = EmptyMap /\ disk.payload = EmptyMap /\ issued = EmptyMap /\ taken = {} /\ opening = None
  BY DEF Init, Imported
<1>2. DOMAIN EmptyMap = {}
  BY DEF EmptyMap
<1> QED
  BY <1>1, <1>2 DEF Ledger!Init, owed, answer, unread

\* The relay implements the ledger: an answer is written at most once and read
\* at most once by its primary reader, and what was forgotten stays so, over
\* every interleaving of requests, commits, purges, revocations and crashes
\* (worker.js:361-460, :611-639, :684-690).
THEOREM RelayIsLedger == Spec => WriteOnceReadOnce
<1>1. Init => Ledger!Init
  BY InitLedger
<1>2. TypeOK /\ Consistent /\ [Next]_vars => [Ledger!Next]_Ledger!vars
  BY NextConsistent, NextLedger
<1> QED
  BY <1>1, <1>2, TypeCorrect, AlwaysConsistent, PTL DEF Spec, Ledger!Spec, WriteOnceReadOnce
=============================================================================
