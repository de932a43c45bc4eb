---------------------------- MODULE DeliveryProofs ----------------------------
(***************************************************************************)
(* Theorems about Delivery for any devices and any bounds on commands,     *)
(* control changes, worker deaths, broken connections, and with or without *)
(* storage that fails.                                                     *)
(*                                                                         *)
(* The invariants come in layers, each proved with those before it: types; *)
(* to whom things on their way belong (Owned, Session, Epochs); what the   *)
(* cursor says of what was started and what the worker has heard (Ahead,   *)
(* Heard, Fresh); and that nothing owed is overtaken (KeptInQueue, Spared, *)
(* NoGap).  OneChange is of the runs with at most one change of the        *)
(* controls; Counted and UnderWay are what the refinement of CommandCourse *)
(* needs beyond the rest.                                                  *)
(***************************************************************************)
EXTENDS DeliveryCourse, FiniteSetTheorems, SequenceTheorems, TLAPS

-----------------------------------------------------------------------------
(* The inductive invariant *)

\* What is known of the constants.
Bounds == MaxCmd \in Nat /\ MaxControl \in Nat /\ MaxKills \in Nat /\ MaxDrops \in Nat /\ None \notin Device

RelayTypes ==
  /\ queue \in [Device -> SUBSET Cmd]
  /\ issuedTo \in Seq(Device) /\ Len(issuedTo) <= MaxCmd
  /\ stale \subseteq Cmd /\ revoked \subseteq Device

WireTypes ==
  /\ server \in [token : Device \cup {None}, st : {"closed", "new", "hello", "ready"}]
  /\ server.st # "closed" => server.token \in Device
  /\ down \in Seq(Cmd \cup {Welcome})
  /\ acks \subseteq [token : Device, seq : 0 .. MaxCmd]

StorageTypes ==
  /\ enabled \in BOOLEAN /\ token \in Device \cup {None}
  /\ cursor \in [Device -> 0 .. MaxCmd]
  /\ changes \in Seq(SUBSET {"pause", "resume", "settings"}) /\ leaving \in BOOLEAN

LinkTypes ==
  /\ epoch \in Nat /\ accepting \in BOOLEAN
  /\ link \in [phase : {"none", "ticket", "open", "live", "poll", "reply", "handling"},
               token : Device \cup {None}, after : 0 .. MaxCmd, epoch : Nat, cmd : 0 .. MaxCmd]
  /\ link.phase # "none" => link.token \in Device

\* What the work chain holds, and the takeAndRun in progress.
Job == [id : Cmd, epoch : Nat, origin : Device]

Taking ==
  [pc : {"idle", "reading", "read", "saving", "saved", "running"}, id : 0 .. MaxCmd, epoch : Nat,
   origin : Device \cup {None}, token : Device \cup {None}, on : BOOLEAN, cursor : 0 .. MaxCmd]

WorkTypes ==
  /\ jobs \in Seq(Job)
  /\ cur \in Taking
  /\ cur.pc # "idle" => cur.id \in Cmd /\ cur.origin \in Device

HistoryTypes ==
  /\ delivered \subseteq Cmd /\ taken \subseteq Cmd /\ starts \in [Cmd -> Nat]
  /\ answered \subseteq Cmd /\ killed \subseteq Cmd /\ passedOver \subseteq Cmd /\ paired \subseteq Device
  /\ used \in [control : 0 .. MaxControl, kills : 0 .. MaxKills, drops : 0 .. MaxDrops]

\* TypeOK, and that a socket, a session and a command under way have a device.
Types == RelayTypes /\ WireTypes /\ StorageTypes /\ LinkTypes /\ WorkTypes /\ HistoryTypes

\* A command on its way belongs to the device it travels to.
OwnedQueue == \A d \in Device : \A c \in queue[d] : c \in Issued /\ issuedTo[c] = d

OwnedMessages ==
  /\ \A i \in DOMAIN down : down[i] # Welcome => down[i] \in Issued /\ issuedTo[down[i]] = link.token
  /\ link.phase = "reply" /\ link.cmd # 0 => link.cmd \in Issued /\ issuedTo[link.cmd] = link.token

OwnedWork ==
  /\ \A i \in DOMAIN jobs : jobs[i].id \in Issued /\ jobs[i].origin = issuedTo[jobs[i].id]
  /\ cur.pc # "idle" => cur.id \in Issued /\ cur.origin = issuedTo[cur.id]

Owned == OwnedQueue /\ OwnedMessages /\ OwnedWork

\* The two ends of a socket agree until the relay closes its own; nothing is
\* welcomed before its hello was served.
Session ==
  /\ server.st # "closed" => link.phase \in {"open", "live"} /\ server.token = link.token
  /\ link.phase \notin {"open", "live"} => down = <<>>
  /\ server.st \in {"new", "hello"} => link.phase = "open" /\ \A i \in DOMAIN down : down[i] # Welcome

\* No work is of a later epoch, and a socket does not outlive its epoch.
Epochs ==
  /\ link.epoch <= epoch /\ cur.epoch <= epoch
  /\ \A i \in DOMAIN jobs : jobs[i].epoch <= epoch
  /\ link.phase \in {"open", "live"} => link.epoch = epoch /\ accepting

\* What has been started is behind the cursor, what is about to be is ahead of it.
Ahead ==
  /\ cur.pc \in {"read", "saving"} /\ cur.token # None => cur.cursor = cursor[cur.token]
  /\ cur.pc \in {"saving", "saved"} => cur.on /\ cur.token = cur.origin
  /\ cur.pc = "saving" => cur.id > cur.cursor
  /\ cur.pc = "saved" => cursor[cur.token] = cur.id
  /\ \A j \in Cmd : starts[j] > 0 =>
       /\ j \in Issued /\ j <= cursor[issuedTo[j]]
       /\ cur.pc = "saved" /\ issuedTo[j] = cur.token => j < cur.id

\* What the state just read said is still so, or its change is yet to be heard.
Heard ==
  cur.pc \in {"read", "saving", "saved"} /\ cur.epoch = epoch =>
    /\ cur.on => enabled \/ pendingChange("pause")
    /\ token = cur.token \/ pendingChange("settings")

\* What the worker holds of the present epoch it received since the last change
\* it heard of.
Fresh ==
  /\ \A i \in DOMAIN jobs : jobs[i].epoch = epoch => jobs[i].id \in delivered
  /\ cur.pc # "idle" /\ cur.epoch = epoch => cur.id \in delivered

\* Not taken, and neither old nor passed over, of a device the relay knows.
owed(d) == {c \in Issued : issuedTo[c] = d /\ d \notin revoked} \ (taken \cup stale \cup passedOver)

\* Nothing owed is at or before n.
Behind(d, n) == n <= Len(issuedTo) /\ \A c \in owed(d) : n < c

KeptInQueue == \A d \in Device : owed(d) \subseteq queue[d]

\* What moves a cursor, acknowledges or answers a poll stays behind what is owed.
Spared ==
  /\ \A d \in Device : Behind(d, cursor[d])
  /\ \A a \in acks : Behind(a.token, a.seq)
  /\ link.phase \in {"ticket", "open", "poll"} => Behind(link.token, link.after)
  /\ link.phase = "reply" /\ link.cmd # 0 => \A c \in owed(link.token) : link.cmd <= c

\* The message comes after the welcome, so it counts.
counts(i) == link.phase = "live" \/ \E j \in 1 .. i - 1 : down[j] = Welcome

\* The worker comes to c before it comes to job k.
beforeJob(c, k) ==
  \/ cur.pc \in {"reading", "read", "saving"} /\ cur.epoch = epoch /\ cur.id = c
  \/ \E i \in 1 .. k - 1 : jobs[i].id = c /\ jobs[i].epoch = epoch

\* ... before it comes to message k.
beforeMessage(c, k) ==
  \/ beforeJob(c, Len(jobs) + 1)
  \/ \E i \in 1 .. k - 1 : down[i] = c /\ counts(i)

\* Nothing owed is overtaken: by the command being taken, by one in the chain,
\* by one on the socket.
CurFirst ==
  cur.pc = "saving" \/ (cur.pc \in {"reading", "read"} /\ cur.epoch = epoch) =>
    \A c \in owed(cur.origin) : cur.id <= c

JobsGapless ==
  \A k \in DOMAIN jobs : jobs[k].epoch = epoch =>
    \A c \in owed(jobs[k].origin) : c < jobs[k].id => beforeJob(c, k)

MessagesGapless ==
  \A k \in DOMAIN down : down[k] # Welcome /\ counts(k) =>
    \A c \in owed(link.token) : c < down[k] => beforeMessage(c, k)

\* After the welcome everything owed is on its way.
AllSent ==
  server.st = "ready" =>
    /\ counts(Len(down) + 1)
    /\ \A c \in owed(link.token) : beforeMessage(c, Len(down) + 1)

NoGap == CurFirst /\ JobsGapless /\ MessagesGapless /\ AllSent

-----------------------------------------------------------------------------
(* The constants, the order of a queue, the empty job *)

\* The assumption on the constants, spelt out.
LEMMA BoundsHold == Bounds
  BY DeliveryAssumption DEF Bounds

\* inOrder lists a finite set of numbers from the smallest to the largest.
LEMMA InOrder ==
  ASSUME NEW S \in SUBSET Cmd
  PROVE  /\ inOrder(S) \in Seq(S)
         /\ \A c \in S : \E i \in 1 .. Len(inOrder(S)) : inOrder(S)[i] = c
         /\ \A i, j \in 1 .. Len(inOrder(S)) : i < j <=> inOrder(S)[i] < inOrder(S)[j]
<1>a. S \in SUBSET Nat
  BY BoundsHold DEF Bounds, Cmd
<1>b. IsFiniteSet(S)
  <2>1. IsFiniteSet(Cmd)
    BY BoundsHold, FS_Interval DEF Bounds, Cmd
  <2> QED
    BY <2>1, FS_Subset
<1> DEFINE n == Cardinality(S)
           upTo(c) == {x \in S : x <= c}
           rank == [c \in S |-> Cardinality(upTo(c))]
<1>1. n \in Nat
  BY <1>b, FS_CardinalityType
<1>2. \A c \in S : IsFiniteSet(upTo(c)) /\ Cardinality(upTo(c)) \in 1 .. n
  <2> TAKE c \in S
  <2>1. IsFiniteSet(upTo(c)) /\ Cardinality(upTo(c)) <= n
    BY <1>b, FS_Subset
  <2>2. Cardinality(upTo(c)) \in Nat
    BY <2>1, FS_CardinalityType
  <2>3. c \in upTo(c)
    BY <1>a
  <2>4. Cardinality(upTo(c)) # 0
    BY <2>1, <2>3, FS_EmptySet
  <2> QED
    BY <1>1, <2>1, <2>2, <2>4
<1>3. \A c, e \in S : c < e => rank[c] < rank[e]
  <2> SUFFICES ASSUME NEW c \in S, NEW e \in S, c < e PROVE rank[c] < rank[e]
    OBVIOUS
  <2>1. IsFiniteSet(upTo(e)) /\ upTo(c) \in SUBSET upTo(e) /\ e \in upTo(e) /\ e \notin upTo(c)
    <3>1. S \subseteq Nat /\ c \in Nat /\ e \in Nat /\ c < e
      BY <1>a
    <3>2. e \in upTo(e) /\ e \notin upTo(c)
      BY <3>1
    <3>3. \A x \in S : x <= c => x <= e
      BY <3>1
    <3> QED
      BY <1>2, <3>2, <3>3
  <2>2. Cardinality(upTo(c)) <= Cardinality(upTo(e)) /\ Cardinality(upTo(c)) # Cardinality(upTo(e))
    BY <2>1, FS_Subset
  <2>3. Cardinality(upTo(c)) \in 1 .. n /\ Cardinality(upTo(e)) \in 1 .. n
    BY <1>2
  <2> QED
    BY <1>1, <2>2, <2>3
<1>4. rank \in [S -> 1 .. n]
  BY <1>2
<1>5. \A c, e \in S : rank[c] = rank[e] => c = e
  <2> SUFFICES ASSUME NEW c \in S, NEW e \in S, rank[c] = rank[e], c # e PROVE FALSE
    OBVIOUS
  <2>1. c < e \/ e < c
    BY <1>a
  <2>2. rank[c] \in 1 .. n /\ rank[e] \in 1 .. n
    BY <1>4
  <2> QED
    BY <1>1, <1>3, <2>1, <2>2
<1>6. \A i \in 1 .. n : \E c \in S : rank[c] = i
  <2>1. rank \in Injection(S, 1 .. n)
    BY <1>4, <1>5 DEF Injection, IsInjective
  <2>2. IsFiniteSet(1 .. n) /\ Cardinality(1 .. n) = n
    BY <1>1, FS_Interval
  <2>3. rank \in Surjection(S, 1 .. n)
    BY <2>1, <2>2, FS_Injection
  <2> QED
    BY <2>3 DEF Surjection
<1> DEFINE s == inOrder(S)
<1>7. s = [i \in 1 .. n |-> CHOOSE c \in S : Cardinality(upTo(c)) = i]
  BY DEF inOrder
<1>8. \A i \in 1 .. n : s[i] \in S /\ rank[s[i]] = i
  <2> TAKE i \in 1 .. n
  <2>1. \E c \in S : Cardinality(upTo(c)) = i
    BY <1>6
  <2>2. s[i] = CHOOSE c \in S : Cardinality(upTo(c)) = i
    BY <1>7
  <2>3. s[i] \in S /\ Cardinality(upTo(s[i])) = i
    BY <2>1, <2>2
  <2> QED
    BY <2>3
<1> HIDE DEF s
<1>9. s \in Seq(S) /\ Len(s) = n
  <2>1. s \in [1 .. n -> S]
    BY <1>7, <1>8
  <2> QED
    BY <1>1, <2>1
<1>10. \A c \in S : \E i \in 1 .. n : s[i] = c
  <2> TAKE c \in S
  <2>1. rank[c] \in 1 .. n
    BY <1>4
  <2> HIDE DEF rank
  <2>2. s[rank[c]] = c
    BY <1>5, <1>8, <2>1
  <2> QED
    BY <2>1, <2>2
<1>11. \A i, j \in 1 .. n : i < j <=> s[i] < s[j]
  <2> TAKE i, j \in 1 .. n
  <2>1. s[i] \in S /\ s[j] \in S /\ rank[s[i]] = i /\ rank[s[j]] = j
    BY <1>8
  <2>2. s[i] < s[j] => i < j
    BY <1>3, <2>1
  <2>3. s[j] < s[i] => j < i
    BY <1>3, <2>1
  <2>4. s[i] \in Nat /\ s[j] \in Nat
    BY <1>a, <2>1
  <2>5. i < j => s[i] < s[j]
    BY <1>1, <2>1, <2>3, <2>4
  <2> QED
    BY <2>2, <2>5
<1> QED
  BY <1>9, <1>10, <1>11 DEF s

\* The first of them is the least.
LEMMA FirstInOrder ==
  ASSUME NEW S \in SUBSET Cmd, S # {}
  PROVE  inOrder(S)[1] \in S /\ \A c \in S : inOrder(S)[1] <= c
<1> DEFINE s == inOrder(S)
<1>1. /\ s \in Seq(S)
      /\ \A c \in S : \E i \in 1 .. Len(s) : s[i] = c
      /\ \A i, j \in 1 .. Len(s) : i < j <=> s[i] < s[j]
  BY InOrder
<1> HIDE DEF s
<1>2. 1 \in 1 .. Len(s)
  BY <1>1
<1>3. \A c \in S : s[1] <= c
  <2> TAKE c \in S
  <2>1. PICK i \in 1 .. Len(s) : s[i] = c
    BY <1>1
  <2>2. s[1] \in Cmd /\ c \in Cmd
    BY <1>1, <1>2
  <2>3. s[i] < s[1] <=> i < 1
    BY <1>1, <1>2
  <2>4. ~(s[i] < s[1])
    BY <2>3
  <2> QED
    BY <2>1, <2>2, <2>4, BoundsHold DEF Bounds, Cmd
<1> QED
  BY <1>1, <1>2, <1>3 DEF s

\* No work is well-typed work.
LEMMA NoJobType == NoJob \in Taking /\ NoJob.pc = "idle"
  BY BoundsHold DEF Bounds, Taking, NoJob

-----------------------------------------------------------------------------
(* Types *)

\* Types depend on the variables they speak of.
LEMMA TypesStay ==
  ASSUME Types
  PROVE  /\ UNCHANGED relay => RelayTypes'
         /\ UNCHANGED <<server, down, acks>> => WireTypes'
         /\ UNCHANGED storage => StorageTypes'
         /\ UNCHANGED <<epoch, accepting, link>> => LinkTypes'
         /\ UNCHANGED <<jobs, cur>> => WorkTypes'
         /\ UNCHANGED history => HistoryTypes'
<1>1. UNCHANGED relay => RelayTypes'
  BY DEF Types, RelayTypes, relay
<1>2. UNCHANGED <<server, down, acks>> => WireTypes'
  BY DEF Types, WireTypes
<1>3. UNCHANGED storage => StorageTypes'
  BY DEF Types, StorageTypes, storage
<1>4. UNCHANGED <<epoch, accepting, link>> => LinkTypes'
  BY DEF Types, LinkTypes
<1>5. UNCHANGED <<jobs, cur>> => WorkTypes'
  BY DEF Types, WorkTypes
<1>6. UNCHANGED history => HistoryTypes'
  BY DEF Types, HistoryTypes, history
<1> QED
  BY <1>1, <1>2, <1>3, <1>4, <1>5, <1>6

\* Types hold after Enqueue: the new number is at most MaxCmd and its device is one.
LEMMA EnqueueTypes ==
  ASSUME Types, NEW d \in Device, Enqueue(d)
  PROVE  Types'
<1>1. RelayTypes'
  BY DEF Types, RelayTypes, Enqueue, Cmd
<1>2. WireTypes'
  BY DEF Types, WireTypes, Enqueue, Cmd
<1>3. StorageTypes' /\ LinkTypes' /\ WorkTypes' /\ HistoryTypes'
  BY TypesStay DEF Enqueue, relay, storage, worker, history
<1> QED
  BY <1>1, <1>2, <1>3 DEF Types

\* Types hold after Expire: a queue only shrinks.
LEMMA ExpireTypes ==
  ASSUME Types, NEW d \in Device, Expire(d)
  PROVE  Types'
<1>1. RelayTypes'
  BY DEF Types, RelayTypes, Expire
<1>2. WireTypes' /\ StorageTypes' /\ LinkTypes' /\ WorkTypes' /\ HistoryTypes'
  BY TypesStay DEF Expire, relay, storage, worker, history
<1> QED
  BY <1>1, <1>2 DEF Types

\* Types hold after Age: what grows old was issued.
LEMMA AgeTypes ==
  ASSUME Types, NEW id \in Cmd, Age(id)
  PROVE  Types'
<1>1. RelayTypes'
  BY DEF Types, RelayTypes, Age
<1>2. WireTypes' /\ StorageTypes' /\ LinkTypes' /\ WorkTypes' /\ HistoryTypes'
  BY TypesStay DEF Age, relay, storage, worker, history
<1> QED
  BY <1>1, <1>2 DEF Types

\* Types hold after ReceiveAck: a queue and the acknowledgements only shrink.
LEMMA ReceiveAckTypes ==
  ASSUME Types, NEW a \in acks, ReceiveAck(a)
  PROVE  Types'
<1>1. RelayTypes'
  BY DEF Types, RelayTypes, ReceiveAck, unacked
<1>2. WireTypes'
  BY DEF Types, WireTypes, ReceiveAck
<1>3. StorageTypes' /\ LinkTypes' /\ WorkTypes' /\ HistoryTypes'
  BY TypesStay DEF ReceiveAck, worker
<1> QED
  BY <1>1, <1>2, <1>3 DEF Types

\* Types hold after ServeHello: the queue shrinks, the socket's state moves on.
LEMMA ServeHelloTypes ==
  ASSUME Types, ServeHello
  PROVE  Types'
<1>1. RelayTypes'
  BY DEF Types, RelayTypes, ServeHello, unacked
<1>2. WireTypes'
  BY DEF Types, WireTypes, ServeHello
<1>3. StorageTypes' /\ LinkTypes' /\ WorkTypes' /\ HistoryTypes'
  BY TypesStay DEF ServeHello, worker
<1> QED
  BY <1>1, <1>2, <1>3 DEF Types

\* Types hold after ServeWelcome: the welcome and the queue in order are messages.
LEMMA ServeWelcomeTypes ==
  ASSUME Types, ServeWelcome
  PROVE  Types'
<1>1. WireTypes'
  <2>1. queue[server.token] \in SUBSET Cmd
    BY DEF Types, RelayTypes, WireTypes, ServeWelcome
  <2>2. inOrder(queue[server.token]) \in Seq(Cmd \cup {Welcome})
    BY <2>1, InOrder
  <2>3. down' \in Seq(Cmd \cup {Welcome})
    <3>1. <<Welcome>> \in Seq(Cmd \cup {Welcome})
      OBVIOUS
    <3> QED
      BY <2>2, <3>1, ConcatProperties DEF Types, WireTypes, ServeWelcome
  <2>4. server' = [server EXCEPT !.st = "ready"] /\ acks' = acks
    BY DEF ServeWelcome
  <2>5. server.token \in Device
    BY DEF Types, WireTypes, ServeWelcome
  <2> QED
    BY <2>3, <2>4, <2>5 DEF Types, WireTypes
<1>2. RelayTypes' /\ StorageTypes' /\ LinkTypes' /\ WorkTypes' /\ HistoryTypes'
  BY TypesStay DEF ServeWelcome, relay, storage, worker, history
<1> QED
  BY <1>1, <1>2 DEF Types

\* Types hold after ServePoll: the answer is a command of the queue, or none.
LEMMA ServePollTypes ==
  ASSUME Types, ServePoll
  PROVE  Types'
<1>1. RelayTypes'
  BY DEF Types, RelayTypes, ServePoll, unacked
<1>2. LinkTypes'
  <2> DEFINE q == queue'[link.token]
             n == IF q = {} THEN 0 ELSE inOrder(q)[1]
  <2>1. queue' \in [Device -> SUBSET Cmd] /\ link.token \in Device
    BY <1>1 DEF RelayTypes, Types, LinkTypes, ServePoll
  <2>2. q \in SUBSET Cmd
    BY <2>1
  <2>3. n \in 0 .. MaxCmd
    BY <2>2, FirstInOrder, BoundsHold DEF Bounds, Cmd
  <2>4. link' = [link EXCEPT !.phase = "reply", !.cmd = n]
    BY DEF ServePoll
  <2>5. UNCHANGED <<epoch, accepting>>
    BY DEF ServePoll
  <2> HIDE DEF n
  <2> QED
    BY <2>1, <2>3, <2>4, <2>5 DEF Types, LinkTypes
<1>3. WireTypes' /\ StorageTypes' /\ WorkTypes' /\ HistoryTypes'
  BY TypesStay DEF ServePoll
<1> QED
  BY <1>1, <1>2, <1>3 DEF Types

\* Types hold after Connect: the session is for the token that was read.
LEMMA ConnectTypes ==
  ASSUME Types, Connect
  PROVE  Types'
<1>1. LinkTypes'
  <2>1. \/ link' = NoLink
        \/ token # None /\ link' = [phase |-> "ticket", token |-> token, after |-> cursor[token], epoch |-> epoch, cmd |-> 0]
    BY DEF Connect, NoLink
  <2>2. token # None => token \in Device /\ cursor[token] \in 0 .. MaxCmd
    BY DEF Types, StorageTypes
  <2>3. epoch' = epoch /\ epoch \in Nat
    BY DEF Types, LinkTypes, Connect
  <2>4. accepting' \in BOOLEAN
    BY DEF Types, LinkTypes, StorageTypes, Connect
  <2>5. NoLink = [phase |-> "none", token |-> None, after |-> 0, epoch |-> 0, cmd |-> 0]
    BY DEF NoLink
  <2> QED
    BY <2>5, <2>1, <2>2, <2>3, <2>4, BoundsHold DEF Bounds, LinkTypes
<1>2. RelayTypes' /\ WireTypes' /\ StorageTypes' /\ WorkTypes' /\ HistoryTypes'
  BY TypesStay DEF Connect
<1> QED
  BY <1>1, <1>2 DEF Types

\* Types hold after OpenSocket: the relay's end is for the device of the ticket.
LEMMA OpenSocketTypes ==
  ASSUME Types, OpenSocket
  PROVE  Types'
<1>1. WireTypes'
  <2>1. \/ server' = [token |-> link.token, st |-> "new"]
        \/ server' = NoServer
    BY DEF OpenSocket, disconnected
  <2>2. acks' = acks /\ down' = <<>>
    BY DEF OpenSocket, disconnected
  <2>3. down' \in Seq(Cmd \cup {Welcome})
    BY <2>2
  <2>4. link.token \in Device
    BY DEF Types, LinkTypes, OpenSocket
  <2> QED
    BY <2>4, <2>1, <2>2, <2>3 DEF Types, WireTypes, LinkTypes, NoServer
<1>2. LinkTypes'
  BY BoundsHold DEF Types, Bounds, LinkTypes, OpenSocket, disconnected, NoLink
<1>3. RelayTypes' /\ StorageTypes' /\ WorkTypes' /\ HistoryTypes'
  BY TypesStay DEF OpenSocket
<1> QED
  BY <1>1, <1>2, <1>3 DEF Types

\* Types hold after StartPoll: the poll is for the token that was read.
LEMMA StartPollTypes ==
  ASSUME Types, StartPoll
  PROVE  Types'
<1>1. LinkTypes'
  <2>1. \/ link' = NoLink
        \/ token # None /\ link' = [phase |-> "poll", token |-> token, after |-> cursor[token], epoch |-> epoch, cmd |-> 0]
    BY DEF StartPoll, NoLink
  <2>2. token # None => token \in Device /\ cursor[token] \in 0 .. MaxCmd
    BY DEF Types, StorageTypes
  <2>3. epoch' = epoch /\ epoch \in Nat
    BY DEF Types, LinkTypes, StartPoll
  <2>4. accepting' \in BOOLEAN
    BY DEF Types, LinkTypes, StorageTypes, StartPoll
  <2>5. NoLink = [phase |-> "none", token |-> None, after |-> 0, epoch |-> 0, cmd |-> 0]
    BY DEF NoLink
  <2> QED
    BY <2>5, <2>1, <2>2, <2>3, <2>4, BoundsHold DEF Bounds, LinkTypes
<1>2. RelayTypes' /\ WireTypes' /\ StorageTypes' /\ WorkTypes' /\ HistoryTypes'
  BY TypesStay DEF StartPoll
<1> QED
  BY <1>1, <1>2 DEF Types

\* Types hold after Hear: what is scheduled is a command for the session's device.
LEMMA HearTypes ==
  ASSUME Types, Hear
  PROVE  Types'
<1>1. WireTypes'
  BY DEF Types, WireTypes, Hear
<1>2. LinkTypes'
  BY DEF Types, LinkTypes, Hear
<1>3. WorkTypes'
  <2> DEFINE j == [id |-> Head(down), epoch |-> link.epoch, origin |-> link.token]
  <2>1. jobs' = jobs \/ (Head(down) # Welcome /\ jobs' = Append(jobs, j))
    BY DEF Hear, receive
  <2>2. Head(down) \in Cmd \cup {Welcome}
    BY DEF Types, WireTypes, Hear
  <2>3. Head(down) # Welcome => j \in Job
    BY <2>2 DEF Types, LinkTypes, Hear, Job
  <2>4. cur' = cur
    BY DEF Hear
  <2> HIDE DEF j
  <2> QED
    BY AppendProperties, <2>1, <2>3, <2>4 DEF Types, WorkTypes
<1>5. HistoryTypes'
  <2>1. delivered' \subseteq delivered \cup ({Head(down)} \ {0})
    BY DEF Hear, receive, Welcome
  <2>2. UNCHANGED <<taken, starts, answered, killed, passedOver, paired, used>>
    BY DEF Hear
  <2>3. {Head(down)} \ {0} \subseteq Cmd
    BY BoundsHold DEF Types, WireTypes, LinkTypes, Hear, Welcome, Bounds, Cmd
  <2> QED
    BY <2>1, <2>2, <2>3 DEF Types, HistoryTypes
<1>4. RelayTypes' /\ StorageTypes'
  BY TypesStay DEF Hear, relay, storage, worker, history
<1> QED
  BY <1>1, <1>2, <1>3, <1>4, <1>5 DEF Types

\* Types hold after PollAnswer: what is scheduled is the command of the answer.
LEMMA PollAnswerTypes ==
  ASSUME Types, PollAnswer
  PROVE  Types'
<1>1. LinkTypes'
  BY BoundsHold DEF Types, Bounds, LinkTypes, PollAnswer, NoLink, relay
<1>2. WorkTypes'
  <2> DEFINE j == [id |-> link.cmd, epoch |-> link.epoch, origin |-> link.token]
  <2>1. jobs' = jobs \/ (link.cmd # 0 /\ jobs' = Append(jobs, j))
    BY DEF PollAnswer, receive
  <2>2. link.cmd # 0 => j \in Job
    BY BoundsHold DEF Bounds, Types, LinkTypes, PollAnswer, Cmd, Job
  <2>3. cur' = cur
    BY DEF PollAnswer
  <2> HIDE DEF j
  <2> QED
    BY AppendProperties, <2>1, <2>2, <2>3 DEF Types, WorkTypes
<1>4. HistoryTypes'
  <2>1. delivered' \subseteq delivered \cup ({link.cmd} \ {0})
    BY DEF PollAnswer, receive, Welcome
  <2>2. UNCHANGED <<taken, starts, answered, killed, passedOver, paired, used>>
    BY DEF PollAnswer
  <2>3. {link.cmd} \ {0} \subseteq Cmd
    BY BoundsHold DEF Types, WireTypes, LinkTypes, PollAnswer, Welcome, Bounds, Cmd
  <2> QED
    BY <2>1, <2>2, <2>3 DEF Types, HistoryTypes
<1>3. RelayTypes' /\ WireTypes' /\ StorageTypes'
  BY TypesStay DEF PollAnswer
<1> QED
  BY <1>1, <1>2, <1>3, <1>4 DEF Types

\* Types hold after PollHandled: the poll ends.
LEMMA PollHandledTypes ==
  ASSUME Types, PollHandled
  PROVE  Types'
<1>1. LinkTypes'
  BY BoundsHold DEF Types, Bounds, LinkTypes, PollHandled, NoLink
<1>2. RelayTypes' /\ WireTypes' /\ StorageTypes' /\ WorkTypes' /\ HistoryTypes'
  BY TypesStay DEF PollHandled
<1> QED
  BY <1>1, <1>2 DEF Types

\* Types hold after Disconnect: one drop more, within the bound.
LEMMA DisconnectTypes ==
  ASSUME Types, Disconnect
  PROVE  Types'
<1>1. WireTypes'
  BY DEF Types, WireTypes, Disconnect, disconnected, NoServer
<1>2. LinkTypes'
  BY BoundsHold DEF Types, Bounds, LinkTypes, Disconnect, disconnected, NoLink
<1>3. HistoryTypes'
  BY BoundsHold DEF Types, Bounds, HistoryTypes, Disconnect
<1>4. RelayTypes' /\ StorageTypes' /\ WorkTypes'
  BY TypesStay DEF Disconnect
<1> QED
  BY <1>1, <1>2, <1>3, <1>4 DEF Types

\* Types hold after Begin: the first of the chain is taken up.
LEMMA BeginTypes ==
  ASSUME Types, Begin
  PROVE  Types'
<1>1. WorkTypes'
  <2> DEFINE j == Head(jobs)
  <2>1. j \in Job /\ jobs' \in Seq(Job)
    BY HeadTailProperties DEF Types, WorkTypes, Begin
  <2>2. j.id \in Cmd /\ j.epoch \in Nat /\ j.origin \in Device
    BY <2>1 DEF Job
  <2>3. CASE cur' = [NoJob EXCEPT !.pc = "reading", !.id = j.id, !.epoch = j.epoch, !.origin = j.origin]
    <3> HIDE DEF j
    <3>1. j.id \in 0 .. MaxCmd
      BY <2>2, BoundsHold DEF Bounds, Cmd
    <3> QED
      BY <2>1, <2>2, <2>3, <3>1, NoJobType DEF WorkTypes, Taking
  <2>4. CASE cur' = NoJob
    BY <2>1, <2>4, NoJobType DEF WorkTypes
  <2> QED
    BY <2>3, <2>4 DEF Begin
<1>2. HistoryTypes'
  <2>1. Head(jobs).id \in Cmd
    <3>1. Head(jobs) \in Job
      BY HeadTailProperties DEF Types, WorkTypes, Begin
    <3> QED
      BY <3>1 DEF Job
  <2>2. passedOver' \subseteq passedOver \cup {Head(jobs).id}
    BY DEF Begin
  <2>3. UNCHANGED <<delivered, taken, starts, answered, killed, paired, used>>
    BY DEF Begin
  <2> QED
    BY <2>1, <2>2, <2>3 DEF Types, HistoryTypes
<1>3. RelayTypes' /\ WireTypes' /\ StorageTypes' /\ LinkTypes'
  BY TypesStay DEF Begin, onlyCur
<1> QED
  BY <1>1, <1>2, <1>3 DEF Types

\* Types hold after ReadState: the state read has the types of storage.
LEMMA ReadStateTypes ==
  ASSUME Types, ReadState
  PROVE  Types'
<1>1. WorkTypes'
  <2> DEFINE n == IF token = None THEN 0 ELSE cursor[token]
  <2>1. n \in 0 .. MaxCmd /\ enabled \in BOOLEAN /\ token \in Device \cup {None}
    BY BoundsHold DEF Bounds, Types, StorageTypes
  <2>2. cur' = [cur EXCEPT !.pc = "read", !.token = token, !.on = enabled, !.cursor = n]
    BY DEF ReadState
  <2>3. jobs' = jobs /\ cur.pc = "reading"
    BY DEF ReadState
  <2> HIDE DEF n
  <2> QED
    BY <2>1, <2>2, <2>3 DEF Types, WorkTypes, Taking
<1>2. RelayTypes' /\ WireTypes' /\ StorageTypes' /\ LinkTypes' /\ HistoryTypes'
  BY TypesStay DEF ReadState, onlyCur
<1> QED
  BY <1>1, <1>2 DEF Types

\* Types hold after Decide: a command is passed over or goes on.
LEMMA DecideTypes ==
  ASSUME Types, Decide
  PROVE  Types'
<1>1. WorkTypes'
  BY BoundsHold DEF Types, Bounds, WorkTypes, Decide, onlyCur, NoJob, Taking
<1>2. HistoryTypes'
  BY DEF Types, HistoryTypes, WorkTypes, Decide
<1>3. RelayTypes' /\ WireTypes' /\ StorageTypes' /\ LinkTypes'
  BY TypesStay DEF Decide, onlyCur
<1> QED
  BY <1>1, <1>2, <1>3 DEF Types

\* Types hold after SaveCursor: the cursor is the number of a command.
LEMMA SaveCursorTypes ==
  ASSUME Types, SaveCursor
  PROVE  Types'
<1>1. StorageTypes'
  BY DEF Types, StorageTypes, WorkTypes, Taking, SaveCursor
<1>2. WorkTypes'
  BY DEF Types, WorkTypes, SaveCursor, Taking
<1>3. HistoryTypes'
  BY DEF Types, HistoryTypes, WorkTypes, SaveCursor
<1>4. RelayTypes' /\ WireTypes' /\ LinkTypes'
  BY TypesStay DEF SaveCursor, relay, storage, worker, history
<1> QED
  BY <1>1, <1>2, <1>3, <1>4 DEF Types

\* Types hold after StorageError: the command under way is passed over.
LEMMA StorageErrorTypes ==
  ASSUME Types, StorageError
  PROVE  Types'
<1>1. WorkTypes'
  BY BoundsHold DEF Types, Bounds, WorkTypes, StorageError, NoJob, Taking
<1>2. HistoryTypes'
  BY DEF Types, HistoryTypes, WorkTypes, StorageError
<1>3. RelayTypes' /\ WireTypes' /\ StorageTypes' /\ LinkTypes'
  BY TypesStay DEF StorageError, onlyCur
<1> QED
  BY <1>1, <1>2, <1>3 DEF Types

\* Types hold after StartOrAnswer: an acknowledgement carries the command under way.
LEMMA StartOrAnswerTypes ==
  ASSUME Types, StartOrAnswer
  PROVE  Types'
<1>1. WireTypes'
  <2>1. acks' \subseteq acks \cup {[token |-> cur.token, seq |-> cur.id]}
    BY DEF StartOrAnswer, sendAck
  <2>2. acks' = acks \/ (link.phase = "live" /\ link.token = cur.token)
    BY DEF StartOrAnswer, sendAck
  <2>3. UNCHANGED <<server, down>>
    BY DEF StartOrAnswer, onlyCur
  <2>4. cur.id \in 0 .. MaxCmd /\ (link.phase = "live" => link.token \in Device)
    BY DEF Types, WorkTypes, LinkTypes, Taking
  <2>5. acks' \subseteq [token : Device, seq : 0 .. MaxCmd]
    BY <2>1, <2>2, <2>4 DEF Types, WireTypes
  <2> QED
    BY <2>3, <2>5 DEF Types, WireTypes
<1>2. WorkTypes'
  <2>1. jobs' = jobs /\ cur.pc = "saved"
    BY DEF StartOrAnswer
  <2>2. CASE cur' = [cur EXCEPT !.pc = "running"]
    BY <2>1, <2>2 DEF Types, WorkTypes, Taking
  <2>3. CASE cur' = NoJob
    BY <2>1, <2>3, NoJobType DEF Types, WorkTypes
  <2> QED
    BY <2>2, <2>3 DEF StartOrAnswer
<1>3. HistoryTypes'
  <2>1. cur.id \in Cmd
    BY DEF Types, WorkTypes, StartOrAnswer
  <2>2. starts' = starts \/ starts' = [starts EXCEPT ![cur.id] = @ + 1]
    BY DEF StartOrAnswer
  <2>3. answered' = answered \/ answered' = answered \cup {cur.id}
    BY DEF StartOrAnswer
  <2>4. UNCHANGED <<delivered, taken, killed, passedOver, paired, used>>
    BY DEF StartOrAnswer
  <2> QED
    BY <2>1, <2>2, <2>3, <2>4 DEF Types, HistoryTypes
<1>4. RelayTypes' /\ StorageTypes' /\ LinkTypes'
  BY TypesStay DEF StartOrAnswer, onlyCur
<1> QED
  BY <1>1, <1>2, <1>3, <1>4 DEF Types

\* Types hold after Answer: the command under way is answered.
LEMMA AnswerTypes ==
  ASSUME Types, Answer
  PROVE  Types'
<1>1. WorkTypes'
  BY BoundsHold DEF Types, Bounds, WorkTypes, Answer, NoJob, Taking
<1>2. HistoryTypes'
  BY DEF Types, HistoryTypes, WorkTypes, Answer
<1>3. RelayTypes' /\ WireTypes' /\ StorageTypes' /\ LinkTypes'
  BY TypesStay DEF Answer, onlyCur
<1> QED
  BY <1>1, <1>2, <1>3 DEF Types

\* Types hold after Toggle: one control change more, within the bound.
LEMMA ToggleTypes ==
  ASSUME Types, Toggle
  PROVE  Types'
<1>1. StorageTypes'
  BY DEF Types, StorageTypes, Toggle, changeStorage
<1>2. HistoryTypes'
  BY BoundsHold DEF Types, Bounds, HistoryTypes, Toggle, changeStorage, countControl, Cmd
<1>3. RelayTypes' /\ WireTypes' /\ LinkTypes' /\ WorkTypes'
  BY TypesStay DEF Toggle, worker, changeStorage
<1> QED
  BY <1>1, <1>2, <1>3 DEF Types

\* Types hold after ChangePolicy: one control change more, within the bound.
LEMMA ChangePolicyTypes ==
  ASSUME Types, ChangePolicy
  PROVE  Types'
<1>1. StorageTypes'
  BY DEF Types, StorageTypes, ChangePolicy, changeStorage
<1>2. HistoryTypes'
  BY BoundsHold DEF Types, Bounds, HistoryTypes, ChangePolicy, changeStorage, countControl
<1>3. RelayTypes' /\ WireTypes' /\ LinkTypes' /\ WorkTypes'
  BY TypesStay DEF ChangePolicy, worker, changeStorage
<1> QED
  BY <1>1, <1>2, <1>3 DEF Types

\* Types hold after Register: the new token is a device.
LEMMA RegisterTypes ==
  ASSUME Types, NEW d \in Device, Register(d)
  PROVE  Types'
<1>1. StorageTypes'
  BY DEF Types, StorageTypes, Register, changeStorage
<1>2. HistoryTypes'
  <2>1. used' \in [control : 0 .. MaxControl, kills : 0 .. MaxKills, drops : 0 .. MaxDrops]
    BY BoundsHold DEF Types, Bounds, HistoryTypes, Register, countControl
  <2>2. UNCHANGED <<delivered, taken, starts, answered, killed, passedOver>> /\ paired' \subseteq Device
    BY DEF Types, HistoryTypes, Register, changeStorage
  <2> QED
    BY <2>1, <2>2 DEF Types, HistoryTypes
<1>3. RelayTypes' /\ WireTypes' /\ LinkTypes' /\ WorkTypes'
  BY TypesStay DEF Register, worker, changeStorage
<1> QED
  BY <1>1, <1>2, <1>3 DEF Types

\* Types hold after Unregister: the extension is disabled.
LEMMA UnregisterTypes ==
  ASSUME Types, Unregister
  PROVE  Types'
<1>1. StorageTypes'
  <2>1. changes' = changes \/ changes' = Append(changes, {"pause"})
    BY DEF Unregister, changeStorage
  <2>2. changes' \in Seq(SUBSET {"pause", "resume", "settings"})
    BY <2>1 DEF Types, StorageTypes
  <2> QED
    BY <2>2 DEF Types, StorageTypes, Unregister, changeStorage
<1>2. HistoryTypes'
  <2>1. used' \in [control : 0 .. MaxControl, kills : 0 .. MaxKills, drops : 0 .. MaxDrops]
    BY BoundsHold DEF Types, Bounds, HistoryTypes, Unregister, countControl
  <2>2. UNCHANGED <<delivered, taken, starts, answered, killed, passedOver>> /\ paired' \subseteq Device
    BY DEF Types, HistoryTypes, Unregister, changeStorage
  <2> QED
    BY <2>1, <2>2 DEF Types, HistoryTypes
<1>3. RelayTypes' /\ WireTypes' /\ LinkTypes' /\ WorkTypes'
  BY TypesStay DEF Unregister, worker, changeStorage
<1> QED
  BY <1>1, <1>2, <1>3 DEF Types

\* Types hold after RemoveToken: there may be no token.
LEMMA RemoveTokenTypes ==
  ASSUME Types, RemoveToken
  PROVE  Types'
<1>1. StorageTypes'
  <2>1. changes' = changes \/ changes' = Append(changes, {"settings"})
    BY DEF RemoveToken, changeStorage
  <2>2. changes' \in Seq(SUBSET {"pause", "resume", "settings"})
    BY <2>1 DEF Types, StorageTypes
  <2> QED
    BY <2>2 DEF Types, StorageTypes, RemoveToken, changeStorage
<1>2. HistoryTypes'
  <2>1. used' \in [control : 0 .. MaxControl, kills : 0 .. MaxKills, drops : 0 .. MaxDrops]
    BY BoundsHold DEF Types, Bounds, HistoryTypes, RemoveToken, countControl
  <2>2. UNCHANGED <<delivered, taken, starts, answered, killed, passedOver>> /\ paired' \subseteq Device
    BY DEF Types, HistoryTypes, RemoveToken, changeStorage
  <2> QED
    BY <2>1, <2>2 DEF Types, HistoryTypes
<1>3. RelayTypes' /\ WireTypes' /\ LinkTypes' /\ WorkTypes'
  BY TypesStay DEF RemoveToken, worker, changeStorage
<1> QED
  BY <1>1, <1>2, <1>3 DEF Types

\* Types hold after Revoke: one queue is empty, and a socket may be closed.
LEMMA RevokeTypes ==
  ASSUME Types, NEW d \in Device, Revoke(d)
  PROVE  Types'
<1>1. RelayTypes'
  BY DEF Types, RelayTypes, Revoke
<1>2. WireTypes'
  BY DEF Types, WireTypes, Revoke, NoServer
<1>3. HistoryTypes'
  <2>1. used' \in [control : 0 .. MaxControl, kills : 0 .. MaxKills, drops : 0 .. MaxDrops]
    BY BoundsHold DEF Types, Bounds, HistoryTypes, Revoke
  <2> QED
    BY <2>1 DEF Types, HistoryTypes, Revoke
<1>4. StorageTypes' /\ LinkTypes' /\ WorkTypes'
  BY TypesStay DEF Revoke, worker
<1> QED
  BY <1>1, <1>2, <1>3, <1>4 DEF Types

\* Types hold after HearClose: there is no connection.
LEMMA HearCloseTypes ==
  ASSUME Types, HearClose
  PROVE  Types'
<1>1. WireTypes'
  BY EmptySeq DEF Types, WireTypes, HearClose, disconnected, NoServer
<1>2. LinkTypes'
  BY BoundsHold DEF Types, Bounds, LinkTypes, HearClose, disconnected, NoLink
<1>3. RelayTypes' /\ StorageTypes' /\ WorkTypes' /\ HistoryTypes'
  BY TypesStay DEF HearClose
<1> QED
  BY <1>1, <1>2, <1>3 DEF Types

\* Types hold after OnChanged: one event fewer, one epoch more.
LEMMA OnChangedTypes ==
  ASSUME Types, OnChanged
  PROVE  Types'
<1>1. StorageTypes'
  BY DEF Types, StorageTypes, OnChanged
<1>2. WireTypes'
  <2>1. \/ server' = server /\ down' = down
        \/ server' = NoServer /\ down' = <<>>
    BY DEF OnChanged, disconnected
  <2>2. acks' = acks /\ <<>> \in Seq(Cmd \cup {Welcome})
    BY EmptySeq DEF OnChanged
  <2>3. NoServer = [token |-> None, st |-> "closed"]
    BY DEF NoServer
  <2>4. CASE server' = server /\ down' = down
    BY <2>2, <2>4 DEF Types, WireTypes
  <2>5. CASE server' = NoServer /\ down' = <<>>
    BY <2>2, <2>3, <2>5 DEF Types, WireTypes
  <2> QED
    BY <2>1, <2>4, <2>5
<1>3. LinkTypes'
  <2>1. accepting' \in BOOLEAN
    BY Zenon DEF Types, LinkTypes, OnChanged
  <2>2. epoch' \in Nat
    BY DEF Types, LinkTypes, OnChanged
  <2>3. link' = link \/ link' = [phase |-> "none", token |-> None, after |-> 0, epoch |-> 0, cmd |-> 0]
    BY DEF OnChanged, disconnected, NoLink
  <2> QED
    BY <2>1, <2>2, <2>3, BoundsHold DEF Bounds, Types, LinkTypes, NoLink
<1>4. RelayTypes' /\ WorkTypes'
  BY TypesStay DEF OnChanged
<1>5. HistoryTypes'
  BY DEF Types, HistoryTypes, OnChanged
<1> QED
  BY <1>1, <1>2, <1>3, <1>4, <1>5 DEF Types

\* Types hold after Kill: memory is as at the start.
LEMMA KillTypes ==
  ASSUME Types, Kill
  PROVE  Types'
<1>1. WireTypes'
  BY DEF Types, WireTypes, Kill, disconnected, NoServer
<1>2. StorageTypes'
  <2>1. changes' \in Seq(SUBSET {"pause", "resume", "settings"})
    BY EmptySeq DEF Types, StorageTypes, Kill
  <2>2. UNCHANGED <<enabled, token, cursor, leaving>>
    BY DEF Kill
  <2> QED
    BY <2>1, <2>2 DEF Types, StorageTypes
<1>3. LinkTypes'
  BY BoundsHold DEF Types, Bounds, LinkTypes, Kill, disconnected, NoLink
<1>4. WorkTypes'
  BY BoundsHold DEF Types, Bounds, WorkTypes, Kill, NoJob, Taking
<1>5. HistoryTypes'
  <2>1. killed' \subseteq Cmd
    BY DEF Types, WorkTypes, HistoryTypes, Kill
  <2>2. used' \in [control : 0 .. MaxControl, kills : 0 .. MaxKills, drops : 0 .. MaxDrops]
    BY BoundsHold DEF Bounds, Types, HistoryTypes, Kill
  <2>3. UNCHANGED <<taken, starts, answered, passedOver, paired>> /\ delivered' = {}
    BY DEF Kill
  <2> QED
    BY <2>1, <2>2, <2>3 DEF Types, HistoryTypes
<1>6. RelayTypes'
  BY TypesStay DEF Kill
<1> QED
  BY <1>1, <1>2, <1>3, <1>4, <1>5, <1>6 DEF Types

\* Every step keeps the types.
LEMMA TypesStep ==
  ASSUME Types, Next
  PROVE  Types'
<1>1. ASSUME NEW d \in Device, Enqueue(d) PROVE Types'
  BY <1>1, EnqueueTypes
<1>2. ASSUME NEW d \in Device, Expire(d) PROVE Types'
  BY <1>2, ExpireTypes
<1>3. ASSUME NEW id \in Cmd, Age(id) PROVE Types'
  BY <1>3, AgeTypes
<1>4. ASSUME NEW a \in acks, ReceiveAck(a) PROVE Types'
  BY <1>4, ReceiveAckTypes
<1>5. CASE ServeHello
  BY <1>5, ServeHelloTypes
<1>6. CASE ServeWelcome
  BY <1>6, ServeWelcomeTypes
<1>7. CASE ServePoll
  BY <1>7, ServePollTypes
<1>8. CASE Connect
  BY <1>8, ConnectTypes
<1>9. CASE OpenSocket
  BY <1>9, OpenSocketTypes
<1>10. CASE StartPoll
  BY <1>10, StartPollTypes
<1>11. CASE Hear
  BY <1>11, HearTypes
<1>12. CASE PollAnswer
  BY <1>12, PollAnswerTypes
<1>13. CASE PollHandled
  BY <1>13, PollHandledTypes
<1>14. CASE Disconnect
  BY <1>14, DisconnectTypes
<1>15. CASE Begin
  BY <1>15, BeginTypes
<1>16. CASE ReadState
  BY <1>16, ReadStateTypes
<1>17. CASE Decide
  BY <1>17, DecideTypes
<1>18. CASE SaveCursor
  BY <1>18, SaveCursorTypes
<1>19. CASE StorageError
  BY <1>19, StorageErrorTypes
<1>20. CASE StartOrAnswer
  BY <1>20, StartOrAnswerTypes
<1>21. CASE Answer
  BY <1>21, AnswerTypes
<1>22. CASE Toggle
  BY <1>22, ToggleTypes
<1>23. CASE ChangePolicy
  BY <1>23, ChangePolicyTypes
<1>24. ASSUME NEW d \in Device, Register(d) PROVE Types'
  BY <1>24, RegisterTypes
<1>27. CASE Unregister
  BY <1>27, UnregisterTypes
<1>28. CASE RemoveToken
  BY <1>28, RemoveTokenTypes
<1>29. CASE HearClose
  BY <1>29, HearCloseTypes
<1>30. ASSUME NEW d \in Device, Revoke(d) PROVE Types'
  BY <1>30, RevokeTypes
<1>25. CASE OnChanged
  BY <1>25, OnChangedTypes
<1>26. CASE Kill
  BY <1>26, KillTypes
<1> QED
  BY <1>1, <1>2, <1>3, <1>4, <1>5, <1>6, <1>7, <1>8, <1>9, <1>10, <1>11, <1>12, <1>13, <1>14,
     <1>15, <1>16, <1>17, <1>18, <1>19, <1>20, <1>21, <1>22, <1>23, <1>24, <1>25, <1>26,
     <1>27, <1>28, <1>29, <1>30
     DEF Next, RelayStep, ConnectionStep, TakeStep, ControlStep

-----------------------------------------------------------------------------
(* To whom things on their way belong, and when they count *)

\* Epochs are numbers.
LEMMA EpochTypes ==
  ASSUME Types
  PROVE  /\ epoch \in Nat /\ link.epoch \in Nat /\ cur.epoch \in Nat
         /\ \A i \in DOMAIN jobs : jobs[i] \in Job /\ jobs[i].epoch \in Nat
<1>1. epoch \in Nat /\ link.epoch \in Nat /\ cur.epoch \in Nat
  BY DEF Types, LinkTypes, WorkTypes, Taking
<1>2. \A i \in DOMAIN jobs : jobs[i] \in Job
  BY DEF Types, WorkTypes
<1> QED
  BY <1>1, <1>2 DEF Job

\* A connection that is gone leaves nothing under way.
LEMMA NothingOpen ==
  ASSUME Types, Owned, Session, Epochs, Types',
         UNCHANGED <<queue, issuedTo, jobs, cur>>, epoch <= epoch', link' = NoLink, server' = NoServer, down' = <<>>
  PROVE  Owned' /\ Session' /\ Epochs'
<1>1. link'.phase = "none" /\ link'.epoch = 0 /\ server'.st = "closed" /\ DOMAIN down' = {}
  BY DEF NoLink, NoServer
<1>2. Owned'
  BY <1>1 DEF Owned, OwnedQueue, OwnedMessages, OwnedWork, Issued
<1>3. Session'
  BY <1>1 DEF Session
<1>4. Epochs'
  <2>1. epoch' \in Nat
    BY DEF Types, LinkTypes
  <2> QED
    BY <1>1, <2>1, EpochTypes DEF Epochs
<1> QED
  BY <1>2, <1>3, <1>4

\* The new command is pushed to the socket of its own device only.
LEMMA EnqueueSession ==
  ASSUME Types, Types', Owned, Session, Epochs, NEW d \in Device, Enqueue(d)
  PROVE  Owned' /\ Session' /\ Epochs'
<1> DEFINE id == Len(issuedTo) + 1
<1>1. /\ issuedTo' = Append(issuedTo, d) /\ id <= MaxCmd
      /\ issuedTo' \in Seq(Device) /\ Len(issuedTo') = id /\ issuedTo'[id] = d /\ id \in Cmd
      /\ \A c \in Issued : c \in Issued' /\ issuedTo'[c] = issuedTo[c]
  BY AppendProperties, BoundsHold DEF Bounds, Types, RelayTypes, Enqueue, Issued, Cmd
<1>2. /\ UNCHANGED <<server, link, jobs, cur, epoch, accepting>> /\ Welcome = 0
      /\ queue' = [queue EXCEPT ![d] = @ \cup {id}]
  BY DEF Enqueue, worker, Welcome
<1>3. CASE down' = down
  <2>1. OwnedQueue'
    BY <1>1, <1>2 DEF RelayTypes, Owned, OwnedQueue, Issued
  <2>2. OwnedMessages' /\ OwnedWork'
    BY <1>1, <1>2, <1>3 DEF Owned, OwnedMessages, OwnedWork
  <2>3. Session' /\ Epochs'
    BY <1>2, <1>3 DEF Session, Epochs
  <2> QED
    BY <2>1, <2>2, <2>3 DEF Owned
<1>4. CASE server.token = d /\ server.st \in {"hello", "ready"} /\ down' = Append(down, id)
  <2>1. OwnedQueue'
    BY <1>1, <1>2 DEF RelayTypes, Owned, OwnedQueue, Issued
  <2>2. /\ Len(down') = Len(down) + 1 /\ down'[Len(down')] = id
        /\ \A i \in DOMAIN down : down'[i] = down[i] /\ i \in DOMAIN down'
        /\ \A i \in DOMAIN down' : i \in DOMAIN down \/ i = Len(down')
    BY <1>1, <1>4, AppendProperties DEF Types, WireTypes
  <2>3. OwnedMessages' /\ OwnedWork'
    BY <1>1, <1>2, <1>4, <2>2 DEF Owned, OwnedMessages, OwnedWork, Session, Issued
  <2>4. Session' /\ Epochs'
    BY <1>1, <1>2, <1>4, <2>2 DEF Session, Epochs
  <2> QED
    BY <2>1, <2>3, <2>4 DEF Owned
<1> QED
  BY <1>3, <1>4 DEF Enqueue

\* A queue that shrinks keeps only its own.
LEMMA ExpireSession ==
  ASSUME Types, Types', Owned, Session, Epochs, NEW d \in Device, Expire(d)
  PROVE  Owned' /\ Session' /\ Epochs'
<1>1. UNCHANGED <<issuedTo, link, server, down, jobs, cur, epoch, accepting>>
  BY DEF Expire, worker
<1>2. \A e \in Device : queue'[e] \subseteq queue[e]
  BY DEF Expire, unacked, Types, RelayTypes
<1>3. Owned'
  BY <1>1, <1>2 DEF Owned, OwnedQueue, OwnedMessages, OwnedWork, Issued
<1>4. Session' /\ Epochs'
  BY <1>1 DEF Session, Epochs
<1> QED
  BY <1>3, <1>4

\* Growing old moves nothing.
LEMMA AgeSession ==
  ASSUME Types, Types', Owned, Session, Epochs, NEW id \in Cmd, Age(id)
  PROVE  Owned' /\ Session' /\ Epochs'
<1>1. Owned'
  BY DEF Owned, OwnedQueue, OwnedMessages, OwnedWork, Types, Age, worker, Issued
<1>2. Session'
  BY DEF Session, Types, Age, worker
<1>3. Epochs'
  BY DEF Epochs, Types, Age, worker
<1> QED
  BY <1>1, <1>2, <1>3

\* A queue that shrinks keeps only its own.
LEMMA ReceiveAckSession ==
  ASSUME Types, Types', Owned, Session, Epochs, NEW a \in acks, ReceiveAck(a)
  PROVE  Owned' /\ Session' /\ Epochs'
<1>1. UNCHANGED <<issuedTo, link, server, down, jobs, cur, epoch, accepting>>
  BY DEF ReceiveAck, worker
<1>2. \A e \in Device : queue'[e] \subseteq queue[e]
  BY DEF ReceiveAck, unacked, Types, RelayTypes
<1>3. Owned'
  BY <1>1, <1>2 DEF Owned, OwnedQueue, OwnedMessages, OwnedWork, Issued
<1>4. Session' /\ Epochs'
  BY <1>1 DEF Session, Epochs
<1> QED
  BY <1>3, <1>4

\* A hello is served on a socket that was opened, before any welcome.
LEMMA ServeHelloSession ==
  ASSUME Types, Types', Owned, Session, Epochs, ServeHello
  PROVE  Owned' /\ Session' /\ Epochs'
<1>1. UNCHANGED <<issuedTo, link, down, jobs, cur, epoch, accepting>>
  BY DEF ServeHello, worker
<1>2. \A e \in Device : queue'[e] \subseteq queue[e]
  BY DEF ServeHello, unacked, Types, RelayTypes
<1>3. Owned'
  BY <1>1, <1>2 DEF Owned, OwnedQueue, OwnedMessages, OwnedWork, Issued
<1>4. Session' /\ Epochs'
  BY <1>1 DEF ServeHello, Types, WireTypes, Session, Epochs
<1> QED
  BY <1>3, <1>4

\* What follows the welcome comes from the queue of the socket's device.
LEMMA ServeWelcomeSession ==
  ASSUME Types, Types', Owned, Session, Epochs, ServeWelcome
  PROVE  Owned' /\ Session' /\ Epochs'
<1> DEFINE s == inOrder(queue[server.token])
<1>1. /\ server.token \in Device /\ server.token = link.token /\ link.phase = "open"
      /\ queue[link.token] \in SUBSET Cmd
  BY DEF ServeWelcome, Types, RelayTypes, WireTypes, Session
<1>2. s \in Seq(queue[link.token])
  BY <1>1, InOrder
<1>3. /\ UNCHANGED <<queue, issuedTo, link, jobs, cur, epoch, accepting>>
      /\ server' = [server EXCEPT !.st = "ready"] /\ down' = (down \o <<Welcome>>) \o s
  BY DEF ServeWelcome, relay, worker
<1> HIDE DEF s
<1>4. \A i \in DOMAIN down' : down'[i] # Welcome => (i \in DOMAIN down /\ down'[i] = down[i]) \/ down'[i] \in queue[link.token]
  <2> DEFINE w == down \o <<Welcome>>
  <2>1. /\ w \in Seq(Cmd \cup {Welcome}) /\ Len(w) = Len(down) + 1
        /\ \A i \in 1 .. Len(down) : w[i] = down[i]
        /\ w[Len(w)] = Welcome
    BY DEF Types, WireTypes
  <2>2. s \in Seq(Cmd \cup {Welcome})
    BY <1>1, <1>2
  <2> HIDE DEF w
  <2>3. /\ Len(w \o s) = Len(w) + Len(s)
        /\ \A i \in 1 .. Len(w) + Len(s) : (w \o s)[i] = IF i <= Len(w) THEN w[i] ELSE s[i - Len(w)]
    BY <2>1, <2>2, ConcatProperties
  <2>4. down' = w \o s
    BY <1>3 DEF w
  <2> SUFFICES ASSUME NEW i \in DOMAIN down', down'[i] # Welcome
               PROVE  (i \in DOMAIN down /\ down'[i] = down[i]) \/ down'[i] \in queue[link.token]
    OBVIOUS
  <2>5. CASE i <= Len(down)
    BY <2>1, <2>3, <2>4, <2>5 DEF Types, WireTypes
  <2>6. CASE i > Len(down)
    BY <1>2, <2>1, <2>2, <2>3, <2>4, <2>6 DEF Types, WireTypes
  <2> QED
    BY <2>5, <2>6, <2>1, <2>2, <2>3, <2>4 DEF Types, WireTypes
<1>5. OwnedMessages'
  BY <1>1, <1>3, <1>4 DEF Owned, OwnedQueue, OwnedMessages, Types, Issued
<1>6. OwnedQueue' /\ OwnedWork'
  BY <1>3 DEF Owned, OwnedQueue, OwnedWork, Issued
<1>7. Session' /\ Epochs'
  BY <1>1, <1>3 DEF Types, WireTypes, Session, Epochs
<1> QED
  BY <1>5, <1>6, <1>7 DEF Owned

\* A poll is answered from the queue of its device.
LEMMA ServePollSession ==
  ASSUME Types, Types', Owned, Session, Epochs, ServePoll
  PROVE  Owned' /\ Session' /\ Epochs'
<1> DEFINE q == queue'[link.token]
<1>1. link.token \in Device /\ q \in SUBSET Cmd /\ \A e \in Device : queue'[e] \subseteq queue[e]
  BY DEF ServePoll, unacked, Types, RelayTypes, LinkTypes
<1>2. /\ UNCHANGED <<issuedTo, server, down, jobs, cur, epoch, accepting>>
      /\ link' = [link EXCEPT !.phase = "reply", !.cmd = IF q = {} THEN 0 ELSE inOrder(q)[1]]
  BY DEF ServePoll
<1>3. q # {} => inOrder(q)[1] \in q
  BY <1>1, FirstInOrder
<1>4. /\ link'.phase = "reply" /\ link'.token = link.token /\ link'.epoch = link.epoch
      /\ link'.cmd # 0 => link'.cmd \in queue[link.token]
  BY <1>1, <1>2, <1>3 DEF Types, LinkTypes
<1>5. Owned'
  BY <1>1, <1>2, <1>4, Zenon DEF Owned, OwnedQueue, OwnedMessages, OwnedWork, Issued
<1>6. Session' /\ Epochs'
  BY <1>2, <1>4 DEF ServePoll, Session, Epochs
<1> QED
  BY <1>5, <1>6

\* A new session has nothing on its way and is of the present epoch.
LEMMA ConnectSession ==
  ASSUME Types, Types', Owned, Session, Epochs, Connect
  PROVE  Owned' /\ Session' /\ Epochs'
<1>1. /\ UNCHANGED <<queue, issuedTo, server, down, jobs, cur, epoch>>
      /\ link.phase = "none"
  BY DEF Connect, relay
<1>2. \/ link'.phase = "none" /\ link'.epoch = 0
      \/ link'.phase = "ticket" /\ link'.epoch = epoch
  <2> DEFINE r == [NoLink EXCEPT !.phase = "ticket", !.token = token, !.after = cursor[token], !.epoch = epoch]
  <2>1. link' = r \/ link' = NoLink
    BY DEF Connect
  <2>2. NoLink.phase = "none" /\ NoLink.epoch = 0 /\ r.phase = "ticket" /\ r.epoch = epoch
    BY DEF NoLink
  <2> HIDE DEF r
  <2> QED
    BY <2>1, <2>2
<1>3. link'.phase \in {"none", "ticket"} /\ link'.epoch <= epoch
  BY <1>2, EpochTypes
<1>4. Owned'
  BY <1>1, <1>3 DEF Owned, OwnedQueue, OwnedMessages, OwnedWork, Issued, Session
<1>5. Session' /\ Epochs'
  BY <1>1, <1>3 DEF Session, Epochs
<1> QED
  BY <1>4, <1>5

\* Both ends of a new socket have the ticket's device; nothing is on it yet.
LEMMA OpenSocketSession ==
  ASSUME Types, Types', Owned, Session, Epochs, OpenSocket
  PROVE  Owned' /\ Session' /\ Epochs'
<1>1. /\ UNCHANGED <<queue, issuedTo, jobs, cur, epoch, accepting>>
      /\ down' = <<>> /\ link.phase = "ticket"
  BY DEF OpenSocket, disconnected, relay
<1>2. CASE /\ link' = [link EXCEPT !.phase = "open"] /\ server' = [token |-> link.token, st |-> "new"]
           /\ accepting /\ link.epoch = epoch
  <2>1. link'.phase = "open" /\ link'.token = link.token /\ link'.epoch = epoch
    BY <1>2 DEF Types, LinkTypes
  <2>2. Owned' /\ Session' /\ Epochs'
    BY <1>1, <1>2, <2>1 DEF Owned, OwnedQueue, OwnedMessages, OwnedWork, Issued, Session, Epochs
  <2> QED
    BY <2>2
<1>3. CASE link' = NoLink /\ server' = NoServer
  <2>1. epoch <= epoch'
    BY <1>1, EpochTypes
  <2> QED
    BY <1>1, <1>3, <2>1, NothingOpen
<1> QED
  BY <1>2, <1>3 DEF OpenSocket, disconnected, current

\* A new poll has nothing on its way and is of the present epoch.
LEMMA StartPollSession ==
  ASSUME Types, Types', Owned, Session, Epochs, StartPoll
  PROVE  Owned' /\ Session' /\ Epochs'
<1>1. /\ UNCHANGED <<queue, issuedTo, server, down, jobs, cur, epoch, accepting>>
      /\ link.phase = "ticket"
  BY DEF StartPoll, relay
<1>2. \/ link'.phase = "none" /\ link'.epoch = 0
      \/ link'.phase = "poll" /\ link'.epoch = epoch
  <2> DEFINE r == [NoLink EXCEPT !.phase = "poll", !.token = token, !.after = cursor[token], !.epoch = epoch]
  <2>1. link' = r \/ link' = NoLink
    BY DEF StartPoll
  <2>2. NoLink.phase = "none" /\ NoLink.epoch = 0 /\ r.phase = "poll" /\ r.epoch = epoch
    BY DEF NoLink
  <2> HIDE DEF r
  <2> QED
    BY <2>1, <2>2
<1>3. link'.phase \in {"none", "poll"} /\ link'.epoch <= epoch
  BY <1>2, EpochTypes
<1>4. Owned'
  BY <1>1, <1>3 DEF Owned, OwnedQueue, OwnedMessages, OwnedWork, Issued, Session
<1>5. Session' /\ Epochs'
  BY <1>1, <1>3 DEF Session, Epochs
<1> QED
  BY <1>4, <1>5

\* What is scheduled came on the session's own socket.
LEMMA HearSession ==
  ASSUME Types, Types', Owned, Session, Epochs, Hear
  PROVE  Owned' /\ Session' /\ Epochs'
<1> DEFINE m == Head(down)
           j == [id |-> m, epoch |-> link.epoch, origin |-> link.token]
<1>1. /\ UNCHANGED <<queue, issuedTo, server, cur, epoch, accepting>>
      /\ link.phase \in {"open", "live"} /\ down # <<>> /\ down' = Tail(down)
  BY DEF Hear, relay
<1>2. /\ Len(down') = Len(down) - 1 /\ 1 \in DOMAIN down /\ m = down[1]
      /\ \A i \in DOMAIN down' : i + 1 \in DOMAIN down /\ down'[i] = down[i + 1]
  BY <1>1, HeadTailProperties DEF Types, WireTypes
<1>3. \/ link' = link
      \/ m = Welcome /\ link' = [link EXCEPT !.phase = "live"]
  BY DEF Hear
<1>4. /\ link'.phase \in {"open", "live"} /\ link'.token = link.token /\ link'.epoch = link.epoch
      /\ m # Welcome => link' = link
  BY <1>1, <1>3 DEF Types, LinkTypes
<1>5. jobs' = jobs \/ (m # Welcome /\ jobs' = Append(jobs, j))
  BY DEF Hear, receive
<1>6. m # Welcome => j.id \in Issued /\ j.origin = issuedTo[j.id] /\ j.epoch = link.epoch
  BY <1>2 DEF Owned, OwnedMessages
<1> HIDE DEF m, j
<1>7. \A i \in DOMAIN jobs' : (i \in DOMAIN jobs /\ jobs'[i] = jobs[i]) \/ (m # Welcome /\ jobs'[i] = j)
  BY <1>5, AppendProperties DEF Types, WorkTypes
<1>8. OwnedQueue' /\ OwnedMessages'
  BY <1>1, <1>2, <1>4 DEF Owned, OwnedQueue, OwnedMessages, Issued
<1>9. OwnedWork'
  BY <1>1, <1>4, <1>6, <1>7 DEF Owned, OwnedWork, Issued
<1>10. Session'
  BY <1>1, <1>2, <1>4 DEF Session
<1>11. Epochs'
  BY <1>1, <1>4, <1>6, <1>7 DEF Epochs
<1> QED
  BY <1>8, <1>9, <1>10, <1>11 DEF Owned

\* What is scheduled is what the poll was answered for its device.
LEMMA PollAnswerSession ==
  ASSUME Types, Types', Owned, Session, Epochs, PollAnswer
  PROVE  Owned' /\ Session' /\ Epochs'
<1> DEFINE j == [id |-> link.cmd, epoch |-> link.epoch, origin |-> link.token]
<1>1. /\ UNCHANGED <<queue, issuedTo, server, down, cur, epoch, accepting>>
      /\ link.phase = "reply"
  BY DEF PollAnswer, relay
<1>2. /\ link'.phase \in {"none", "handling"}
      /\ link'.epoch = 0 \/ link'.epoch = link.epoch
  BY DEF PollAnswer, NoLink, Types, LinkTypes
<1>3. jobs' = jobs \/ (link.cmd # 0 /\ jobs' = Append(jobs, j))
  BY DEF PollAnswer, receive
<1>4. link.cmd # 0 => j.id \in Issued /\ j.origin = issuedTo[j.id] /\ j.epoch = link.epoch
  BY <1>1 DEF Owned, OwnedMessages
<1> HIDE DEF j
<1>5. \A i \in DOMAIN jobs' : (i \in DOMAIN jobs /\ jobs'[i] = jobs[i]) \/ (link.cmd # 0 /\ jobs'[i] = j)
  BY <1>3, AppendProperties DEF Types, WorkTypes
<1>6. Owned'
  BY <1>1, <1>2, <1>4, <1>5 DEF Owned, OwnedQueue, OwnedMessages, OwnedWork, Issued, Session
<1>7. Session'
  BY <1>1, <1>2 DEF Session
<1>8. Epochs'
  BY <1>1, <1>2, <1>4, <1>5 DEF Epochs, Types, LinkTypes
<1> QED
  BY <1>6, <1>7, <1>8

\* The poll had already handed over what it brought.
LEMMA PollHandledSession ==
  ASSUME Types, Types', Owned, Session, Epochs, PollHandled
  PROVE  Owned' /\ Session' /\ Epochs'
<1>1. Owned'
  BY DEF Owned, OwnedQueue, OwnedMessages, OwnedWork, Session, Types, PollHandled, relay, Issued, NoLink
<1>2. Session'
  BY DEF Session, Types, PollHandled, NoLink
<1>3. Epochs'
  BY DEF Epochs, Types, LinkTypes, PollHandled, NoLink
<1> QED
  BY <1>1, <1>2, <1>3

\* A connection that breaks takes both ends with it.
LEMMA DisconnectSession ==
  ASSUME Types, Types', Owned, Session, Epochs, Disconnect
  PROVE  Owned' /\ Session' /\ Epochs'
<1>1. Owned'
  BY DEF Owned, OwnedQueue, OwnedMessages, OwnedWork, Types, Disconnect, relay, Issued, disconnected, NoLink
<1>2. Session'
  BY DEF Session, Types, Disconnect, disconnected, NoLink, NoServer
<1>3. Epochs'
  BY DEF Epochs, Types, LinkTypes, Disconnect, disconnected, NoLink
<1> QED
  BY <1>1, <1>2, <1>3

\* The command taken up was scheduled for its own device.
LEMMA BeginSession ==
  ASSUME Types, Types', Owned, Session, Epochs, Begin
  PROVE  Owned' /\ Session' /\ Epochs'
<1>1. /\ UNCHANGED <<queue, issuedTo, server, down, link, epoch, accepting>>
      /\ jobs # <<>> /\ jobs' = Tail(jobs)
  BY DEF Begin, onlyCur, relay
<1>2. /\ \A i \in DOMAIN jobs' : i + 1 \in DOMAIN jobs /\ jobs'[i] = jobs[i + 1]
      /\ 1 \in DOMAIN jobs /\ Head(jobs) = jobs[1]
  BY <1>1, HeadTailProperties DEF Types, WorkTypes
<1> DEFINE j == jobs[1]
<1>3. \/ cur'.pc = "idle" /\ cur'.epoch = 0
      \/ cur'.id = j.id /\ cur'.origin = j.origin /\ cur'.epoch = j.epoch
  BY <1>2 DEF Begin, NoJob
<1>4. j.id \in Issued /\ j.origin = issuedTo[j.id] /\ j.epoch <= epoch
  BY <1>2 DEF Owned, OwnedWork, Epochs
<1> HIDE DEF j
<1>5. Owned'
  BY <1>1, <1>2, <1>3, <1>4 DEF Owned, OwnedQueue, OwnedMessages, OwnedWork, Issued
<1>6. Session'
  BY <1>1 DEF Session
<1>7. Epochs'
  BY <1>1, <1>2, <1>3, <1>4 DEF Epochs, Types, LinkTypes
<1> QED
  BY <1>5, <1>6, <1>7

\* Reading the state leaves the command and its epoch alone.
LEMMA ReadStateSession ==
  ASSUME Types, Types', Owned, Session, Epochs, ReadState
  PROVE  Owned' /\ Session' /\ Epochs'
<1>1. Owned'
  BY DEF Owned, OwnedQueue, OwnedMessages, OwnedWork, Types, ReadState, relay, Issued, onlyCur
<1>2. Session'
  BY DEF Session, Types, ReadState, onlyCur
<1>3. Epochs'
  BY DEF Epochs, Types, ReadState, onlyCur
<1> QED
  BY <1>1, <1>2, <1>3

\* The command goes on or is given up.
LEMMA DecideSession ==
  ASSUME Types, Types', Owned, Session, Epochs, Decide
  PROVE  Owned' /\ Session' /\ Epochs'
<1>1. Owned'
  BY DEF Owned, OwnedQueue, OwnedMessages, OwnedWork, Types, Decide, relay, Issued, onlyCur, NoJob
<1>2. Session'
  BY DEF Session, Types, Decide, onlyCur
<1>3. Epochs'
  BY DEF Epochs, Types, LinkTypes, Decide, onlyCur, NoJob
<1> QED
  BY <1>1, <1>2, <1>3

\* Saving leaves the command and its epoch alone.
LEMMA SaveCursorSession ==
  ASSUME Types, Types', Owned, Session, Epochs, SaveCursor
  PROVE  Owned' /\ Session' /\ Epochs'
<1>1. Owned'
  BY DEF Owned, OwnedQueue, OwnedMessages, OwnedWork, Types, SaveCursor, relay, Issued
<1>2. Session'
  BY DEF Session, Types, SaveCursor
<1>3. Epochs'
  BY DEF Epochs, Types, SaveCursor
<1> QED
  BY <1>1, <1>2, <1>3

\* The command is given up.
LEMMA StorageErrorSession ==
  ASSUME Types, Types', Owned, Session, Epochs, StorageError
  PROVE  Owned' /\ Session' /\ Epochs'
<1>1. Owned'
  BY DEF Owned, OwnedQueue, OwnedMessages, OwnedWork, Types, StorageError, relay, Issued, onlyCur, NoJob
<1>2. Session'
  BY DEF Session, Types, StorageError, onlyCur
<1>3. Epochs'
  BY DEF Epochs, Types, LinkTypes, StorageError, onlyCur, NoJob
<1> QED
  BY <1>1, <1>2, <1>3

\* The command runs or is done with.
LEMMA StartOrAnswerSession ==
  ASSUME Types, Types', Owned, Session, Epochs, StartOrAnswer
  PROVE  Owned' /\ Session' /\ Epochs'
<1>1. UNCHANGED <<queue, issuedTo, server, down, link, epoch, accepting, jobs>> /\ cur.pc = "saved"
  BY DEF StartOrAnswer, onlyCur, relay
<1>2. \/ cur'.pc = "idle" /\ cur'.epoch = 0
      \/ cur'.id = cur.id /\ cur'.origin = cur.origin /\ cur'.epoch = cur.epoch
  BY DEF StartOrAnswer, NoJob, Types, WorkTypes, Taking
<1>3. Owned'
  BY <1>1, <1>2 DEF Owned, OwnedQueue, OwnedMessages, OwnedWork, Issued
<1>4. Session' /\ Epochs'
  BY <1>1, <1>2 DEF Session, Epochs, Types, LinkTypes
<1> QED
  BY <1>3, <1>4

\* The command is done with.
LEMMA AnswerSession ==
  ASSUME Types, Types', Owned, Session, Epochs, Answer
  PROVE  Owned' /\ Session' /\ Epochs'
<1>1. Owned'
  BY DEF Owned, OwnedQueue, OwnedMessages, OwnedWork, Types, Answer, relay, Issued, onlyCur, NoJob
<1>2. Session'
  BY DEF Session, Types, Answer, onlyCur
<1>3. Epochs'
  BY DEF Epochs, Types, LinkTypes, Answer, onlyCur, NoJob
<1> QED
  BY <1>1, <1>2, <1>3

\* Storage changes; memory and the wires do not.
LEMMA ToggleSession ==
  ASSUME Types, Types', Owned, Session, Epochs, Toggle
  PROVE  Owned' /\ Session' /\ Epochs'
<1>1. Owned'
  BY DEF Owned, OwnedQueue, OwnedMessages, OwnedWork, Types, Toggle, relay, worker, Issued, changeStorage
<1>2. Session'
  BY DEF Session, Types, Toggle, worker, changeStorage
<1>3. Epochs'
  BY DEF Epochs, Types, Toggle, worker, changeStorage
<1> QED
  BY <1>1, <1>2, <1>3

\* Storage changes; memory and the wires do not.
LEMMA ChangePolicySession ==
  ASSUME Types, Types', Owned, Session, Epochs, ChangePolicy
  PROVE  Owned' /\ Session' /\ Epochs'
<1>1. Owned'
  BY DEF Owned, OwnedQueue, OwnedMessages, OwnedWork, Types, ChangePolicy, relay, worker, Issued,
     changeStorage
<1>2. Session'
  BY DEF Session, Types, ChangePolicy, worker, changeStorage
<1>3. Epochs'
  BY DEF Epochs, Types, ChangePolicy, worker, changeStorage
<1> QED
  BY <1>1, <1>2, <1>3

\* Storage changes; memory and the wires do not.
LEMMA RegisterSession ==
  ASSUME Types, Types', Owned, Session, Epochs, NEW d \in Device, Register(d)
  PROVE  Owned' /\ Session' /\ Epochs'
<1>1. Owned'
  BY DEF Owned, OwnedQueue, OwnedMessages, OwnedWork, Types, Register, relay, worker, Issued, changeStorage
<1>2. Session'
  BY DEF Session, Types, Register, worker, changeStorage
<1>3. Epochs'
  BY DEF Epochs, Types, Register, worker, changeStorage
<1> QED
  BY <1>1, <1>2, <1>3

\* Storage changes; memory and the wires do not.
LEMMA UnregisterSession ==
  ASSUME Types, Types', Owned, Session, Epochs, Unregister
  PROVE  Owned' /\ Session' /\ Epochs'
<1>1. Owned'
  BY DEF Owned, OwnedQueue, OwnedMessages, OwnedWork, Types, Unregister, relay, worker, Issued, changeStorage
<1>2. Session'
  BY DEF Session, Types, Unregister, worker, changeStorage
<1>3. Epochs'
  BY DEF Epochs, Types, Unregister, worker, changeStorage
<1> QED
  BY <1>1, <1>2, <1>3

\* Storage changes; memory and the wires do not.
LEMMA RemoveTokenSession ==
  ASSUME Types, Types', Owned, Session, Epochs, RemoveToken
  PROVE  Owned' /\ Session' /\ Epochs'
<1>1. Owned'
  BY DEF Owned, OwnedQueue, OwnedMessages, OwnedWork, Types, RemoveToken, relay, worker, Issued, changeStorage
<1>2. Session'
  BY DEF Session, Types, RemoveToken, worker, changeStorage
<1>3. Epochs'
  BY DEF Epochs, Types, RemoveToken, worker, changeStorage
<1> QED
  BY <1>1, <1>2, <1>3

\* The relay's end is closed and a queue is gone; what was sent is still on its way.
LEMMA RevokeSession ==
  ASSUME Types, Types', Owned, Session, Epochs, NEW d \in Device, Revoke(d)
  PROVE  Owned' /\ Session' /\ Epochs'
<1>1. /\ UNCHANGED <<issuedTo, link, down, jobs, cur, epoch, accepting>>
      /\ server' = server \/ server'.st = "closed"
  BY DEF Revoke, worker, NoServer
<1>2. \A e \in Device : queue'[e] \subseteq queue[e]
  BY DEF Revoke, Types, RelayTypes
<1>3. Owned'
  BY <1>1, <1>2 DEF Owned, OwnedQueue, OwnedMessages, OwnedWork, Issued
<1>4. Session' /\ Epochs'
  BY <1>1 DEF Session, Epochs
<1> QED
  BY <1>3, <1>4

\* A connection that was closed leaves nothing under way.
LEMMA HearCloseSession ==
  ASSUME Types, Types', Owned, Session, Epochs, HearClose
  PROVE  Owned' /\ Session' /\ Epochs'
<1>1. UNCHANGED <<queue, issuedTo, jobs, cur, epoch>> /\ epoch <= epoch'
  BY EpochTypes DEF HearClose, relay
<1> QED
  BY <1>1, NothingOpen DEF HearClose, disconnected

\* The epoch moves on and takes an open socket with it.
LEMMA OnChangedSession ==
  ASSUME Types, Types', Owned, Session, Epochs, OnChanged
  PROVE  Owned' /\ Session' /\ Epochs'
<1>1. UNCHANGED <<queue, issuedTo, jobs, cur>> /\ epoch' = epoch + 1
  BY DEF OnChanged, relay
<1>2. CASE link' = NoLink /\ server' = NoServer /\ down' = <<>>
  BY <1>1, <1>2, NothingOpen DEF Types, LinkTypes
<1>3. CASE link.phase \notin {"open", "live"} /\ UNCHANGED <<link, server, down>>
  <2>1. Owned' /\ Session'
    BY <1>1, <1>3 DEF Owned, OwnedQueue, OwnedMessages, OwnedWork, Issued, Session
  <2>2. Epochs'
    BY <1>1, <1>3, EpochTypes DEF Epochs
  <2> QED
    BY <2>1, <2>2
<1> QED
  BY <1>2, <1>3 DEF OnChanged, disconnected

\* With the memory gone, epoch 0 is the present one again and no work is left of another.
LEMMA KillSession ==
  ASSUME Types, Types', Owned, Session, Epochs, Kill
  PROVE  Owned' /\ Session' /\ Epochs'
<1>1. Owned'
  BY DEF Owned, OwnedQueue, OwnedMessages, OwnedWork, Types, Kill, relay, Issued, disconnected, NoLink, NoJob
<1>2. Session'
  BY DEF Session, Types, Kill, disconnected, NoLink, NoServer
<1>3. Epochs'
  BY DEF Epochs, Types, Kill, disconnected, NoLink, NoJob
<1> QED
  BY <1>1, <1>2, <1>3

\* Every step keeps what is known of things on their way.
LEMMA SessionStep ==
  ASSUME Types, Types', Owned, Session, Epochs, Next
  PROVE  Owned' /\ Session' /\ Epochs'
<1>1. ASSUME NEW d \in Device, Enqueue(d) PROVE Owned' /\ Session' /\ Epochs'
  BY <1>1, EnqueueSession
<1>2. ASSUME NEW d \in Device, Expire(d) PROVE Owned' /\ Session' /\ Epochs'
  BY <1>2, ExpireSession
<1>3. ASSUME NEW id \in Cmd, Age(id) PROVE Owned' /\ Session' /\ Epochs'
  BY <1>3, AgeSession
<1>4. ASSUME NEW a \in acks, ReceiveAck(a) PROVE Owned' /\ Session' /\ Epochs'
  BY <1>4, ReceiveAckSession
<1>5. CASE ServeHello
  BY <1>5, ServeHelloSession
<1>6. CASE ServeWelcome
  BY <1>6, ServeWelcomeSession
<1>7. CASE ServePoll
  BY <1>7, ServePollSession
<1>8. CASE Connect
  BY <1>8, ConnectSession
<1>9. CASE OpenSocket
  BY <1>9, OpenSocketSession
<1>10. CASE StartPoll
  BY <1>10, StartPollSession
<1>11. CASE Hear
  BY <1>11, HearSession
<1>12. CASE PollAnswer
  BY <1>12, PollAnswerSession
<1>13. CASE PollHandled
  BY <1>13, PollHandledSession
<1>14. CASE Disconnect
  BY <1>14, DisconnectSession
<1>15. CASE Begin
  BY <1>15, BeginSession
<1>16. CASE ReadState
  BY <1>16, ReadStateSession
<1>17. CASE Decide
  BY <1>17, DecideSession
<1>18. CASE SaveCursor
  BY <1>18, SaveCursorSession
<1>19. CASE StorageError
  BY <1>19, StorageErrorSession
<1>20. CASE StartOrAnswer
  BY <1>20, StartOrAnswerSession
<1>21. CASE Answer
  BY <1>21, AnswerSession
<1>22. CASE Toggle
  BY <1>22, ToggleSession
<1>23. CASE ChangePolicy
  BY <1>23, ChangePolicySession
<1>24. ASSUME NEW d \in Device, Register(d) PROVE Owned' /\ Session' /\ Epochs'
  BY <1>24, RegisterSession
<1>27. CASE Unregister
  BY <1>27, UnregisterSession
<1>28. CASE RemoveToken
  BY <1>28, RemoveTokenSession
<1>29. CASE HearClose
  BY <1>29, HearCloseSession
<1>30. ASSUME NEW d \in Device, Revoke(d) PROVE Owned' /\ Session' /\ Epochs'
  BY <1>30, RevokeSession
<1>25. CASE OnChanged
  BY <1>25, OnChangedSession
<1>26. CASE Kill
  BY <1>26, KillSession
<1> QED
  BY <1>1, <1>2, <1>3, <1>4, <1>5, <1>6, <1>7, <1>8, <1>9, <1>10, <1>11, <1>12, <1>13, <1>14,
     <1>15, <1>16, <1>17, <1>18, <1>19, <1>20, <1>21, <1>22, <1>23, <1>24, <1>25, <1>26,
     <1>27, <1>28, <1>29, <1>30
     DEF Next, RelayStep, ConnectionStep, TakeStep, ControlStep

-----------------------------------------------------------------------------
(* The cursor and what was started; what was read and what was heard *)

\* A change of storage is pending until it is heard.
LEMMA PendingGrows ==
  ASSUME Types, NEW e \in SUBSET {"pause", "resume", "settings"}, changes' = Append(changes, e)
  PROVE  (\A x \in e : pendingChange(x)') /\ \A x : pendingChange(x) => pendingChange(x)'
<1>1. /\ Len(changes') = Len(changes) + 1 /\ changes'[Len(changes')] = e
      /\ changes' \in Seq(SUBSET {"pause", "resume", "settings"}) /\ Len(changes') \in DOMAIN changes'
      /\ \A i \in DOMAIN changes : i \in DOMAIN changes' /\ changes'[i] = changes[i]
  BY AppendProperties DEF Types, StorageTypes
<1> QED
  BY <1>1 DEF pendingChange

\* A new number is in no cursor and not under way.
LEMMA EnqueueHeard ==
  ASSUME Types, Types', Owned, Epochs, Ahead, Heard, NEW d \in Device, Enqueue(d)
  PROVE  Ahead' /\ Heard'
<1>1. Ahead'
  <2>1. /\ issuedTo' = Append(issuedTo, d) /\ UNCHANGED <<cursor, cur, starts>>
        /\ \A c \in Issued : c \in Issued' /\ issuedTo'[c] = issuedTo[c]
    BY AppendProperties DEF Enqueue, Issued, storage, worker, history
  <2> QED
    BY <2>1 DEF Ahead
<1>2. Heard'
  BY DEF Heard, pendingChange, Types, Enqueue, storage, worker
<1> QED
  BY <1>1, <1>2

\* A queue plays no part.
LEMMA ExpireHeard ==
  ASSUME Types, Types', Owned, Epochs, Ahead, Heard, NEW d \in Device, Expire(d)
  PROVE  Ahead' /\ Heard'
<1>1. Ahead'
  BY DEF Ahead, Types, Expire, storage, worker, history, Issued
<1>2. Heard'
  BY DEF Heard, pendingChange, Types, Expire, storage, worker
<1> QED
  BY <1>1, <1>2

\* Age plays no part.
LEMMA AgeHeard ==
  ASSUME Types, Types', Owned, Epochs, Ahead, Heard, NEW id \in Cmd, Age(id)
  PROVE  Ahead' /\ Heard'
<1>1. Ahead'
  BY DEF Ahead, Types, Age, storage, worker, history, Issued
<1>2. Heard'
  BY DEF Heard, pendingChange, Types, Age, storage, worker
<1> QED
  BY <1>1, <1>2

\* A queue plays no part.
LEMMA ReceiveAckHeard ==
  ASSUME Types, Types', Owned, Epochs, Ahead, Heard, NEW a \in acks, ReceiveAck(a)
  PROVE  Ahead' /\ Heard'
<1>1. Ahead'
  BY DEF Ahead, Types, ReceiveAck, storage, worker, history, Issued
<1>2. Heard'
  BY DEF Heard, pendingChange, Types, ReceiveAck, storage, worker
<1> QED
  BY <1>1, <1>2

\* A queue plays no part.
LEMMA ServeHelloHeard ==
  ASSUME Types, Types', Owned, Epochs, Ahead, Heard, ServeHello
  PROVE  Ahead' /\ Heard'
<1>1. Ahead'
  BY DEF Ahead, Types, ServeHello, storage, worker, history, Issued
<1>2. Heard'
  BY DEF Heard, pendingChange, Types, ServeHello, storage, worker
<1> QED
  BY <1>1, <1>2

\* Messages play no part.
LEMMA ServeWelcomeHeard ==
  ASSUME Types, Types', Owned, Epochs, Ahead, Heard, ServeWelcome
  PROVE  Ahead' /\ Heard'
<1>1. Ahead'
  BY DEF Ahead, Types, ServeWelcome, relay, storage, worker, history, Issued
<1>2. Heard'
  BY DEF Heard, pendingChange, Types, ServeWelcome, storage, worker
<1> QED
  BY <1>1, <1>2

\* A queue plays no part.
LEMMA ServePollHeard ==
  ASSUME Types, Types', Owned, Epochs, Ahead, Heard, ServePoll
  PROVE  Ahead' /\ Heard'
<1>1. Ahead'
  BY DEF Ahead, Types, ServePoll, storage, history, Issued
<1>2. Heard'
  BY DEF Heard, pendingChange, Types, ServePoll, storage
<1> QED
  BY <1>1, <1>2

\* Only the session and acceptingCommands change.
LEMMA ConnectHeard ==
  ASSUME Types, Types', Owned, Epochs, Ahead, Heard, Connect
  PROVE  Ahead' /\ Heard'
<1>1. Ahead'
  BY DEF Ahead, Types, Connect, relay, storage, history, Issued
<1>2. Heard'
  BY DEF Heard, pendingChange, Types, Connect, storage
<1> QED
  BY <1>1, <1>2

\* Only the session changes.
LEMMA OpenSocketHeard ==
  ASSUME Types, Types', Owned, Epochs, Ahead, Heard, OpenSocket
  PROVE  Ahead' /\ Heard'
<1>1. Ahead'
  BY DEF Ahead, Types, OpenSocket, relay, storage, history, Issued
<1>2. Heard'
  BY DEF Heard, pendingChange, Types, OpenSocket, storage
<1> QED
  BY <1>1, <1>2

\* Only the session changes.
LEMMA StartPollHeard ==
  ASSUME Types, Types', Owned, Epochs, Ahead, Heard, StartPoll
  PROVE  Ahead' /\ Heard'
<1>1. Ahead'
  BY DEF Ahead, Types, StartPoll, relay, storage, history, Issued
<1>2. Heard'
  BY DEF Heard, pendingChange, Types, StartPoll, storage
<1> QED
  BY <1>1, <1>2

\* Only the chain grows.
LEMMA HearHeard ==
  ASSUME Types, Types', Owned, Epochs, Ahead, Heard, Hear
  PROVE  Ahead' /\ Heard'
<1>1. Ahead'
  BY DEF Ahead, Types, Hear, relay, storage, history, Issued
<1>2. Heard'
  BY DEF Heard, pendingChange, Types, Hear, storage
<1> QED
  BY <1>1, <1>2

\* Only the chain grows.
LEMMA PollAnswerHeard ==
  ASSUME Types, Types', Owned, Epochs, Ahead, Heard, PollAnswer
  PROVE  Ahead' /\ Heard'
<1>1. Ahead'
  BY DEF Ahead, Types, PollAnswer, relay, storage, history, Issued
<1>2. Heard'
  BY DEF Heard, pendingChange, Types, PollAnswer, storage
<1> QED
  BY <1>1, <1>2

\* Only the session changes.
LEMMA PollHandledHeard ==
  ASSUME Types, Types', Owned, Epochs, Ahead, Heard, PollHandled
  PROVE  Ahead' /\ Heard'
<1>1. Ahead'
  BY DEF Ahead, Types, PollHandled, relay, storage, history, Issued
<1>2. Heard'
  BY DEF Heard, pendingChange, Types, PollHandled, storage
<1> QED
  BY <1>1, <1>2

\* Only the connection changes.
LEMMA DisconnectHeard ==
  ASSUME Types, Types', Owned, Epochs, Ahead, Heard, Disconnect
  PROVE  Ahead' /\ Heard'
<1>1. Ahead'
  BY DEF Ahead, Types, Disconnect, relay, storage, Issued
<1>2. Heard'
  BY DEF Heard, pendingChange, Types, Disconnect, storage
<1> QED
  BY <1>1, <1>2

\* A command just taken up has read nothing yet.
LEMMA BeginHeard ==
  ASSUME Types, Types', Owned, Epochs, Ahead, Heard, Begin
  PROVE  Ahead' /\ Heard'
<1>1. Ahead'
  BY DEF Ahead, Types, Begin, relay, storage, Issued, onlyCur
<1>2. Heard'
  BY DEF Heard, Types, Begin, NoJob
<1> QED
  BY <1>1, <1>2

\* What was just read is so, and the cursor read is the device's.
LEMMA ReadStateHeard ==
  ASSUME Types, Types', Owned, Epochs, Ahead, Heard, ReadState
  PROVE  Ahead' /\ Heard'
<1>1. Ahead'
  BY DEF Ahead, Types, ReadState, relay, storage, history, Issued, onlyCur
<1>2. Heard'
  BY DEF Heard, Types, ReadState, storage, onlyCur
<1> QED
  BY <1>1, <1>2

\* Only a command ahead of the cursor it read goes on, for the device it was sent to.
LEMMA DecideHeard ==
  ASSUME Types, Types', Owned, Epochs, Ahead, Heard, Decide
  PROVE  Ahead' /\ Heard'
<1>1. Ahead'
  <2>1. UNCHANGED <<cursor, issuedTo, starts>>
    BY DEF Decide, onlyCur, relay, storage
  <2>2. CASE cur' = NoJob
    <3>1. cur'.pc = "idle"
      BY <2>2 DEF NoJob
    <3> QED
      BY <2>1, <3>1 DEF Ahead, Issued
  <2>3. CASE mayTake(cur) /\ cur' = [cur EXCEPT !.pc = "saving"]
    <3>1. /\ cur'.pc = "saving" /\ cur'.id = cur.id /\ cur'.token = cur.token /\ cur'.origin = cur.origin
          /\ cur'.on = cur.on /\ cur'.cursor = cur.cursor
      BY <2>3 DEF Types, WorkTypes, Taking
    <3>2. cur.pc = "read" /\ cur.on /\ cur.token = cur.origin /\ cur.id > cur.cursor
      BY <2>3 DEF mayTake, Decide
    <3> QED
      BY <2>1, <3>1, <3>2 DEF Ahead, Issued
  <2> QED
    BY <2>2, <2>3 DEF Decide
<1>2. Heard'
  BY DEF Heard, pendingChange, Types, Decide, storage, onlyCur, NoJob
<1> QED
  BY <1>1, <1>2

\* The cursor moves to the command under way, which was ahead of it.
LEMMA SaveCursorHeard ==
  ASSUME Types, Types', Owned, Epochs, Ahead, Heard, SaveCursor
  PROVE  Ahead' /\ Heard'
<1>1. Ahead'
  <2>1. /\ cur.pc = "saving" /\ cur.token = cur.origin /\ cur.token \in Device /\ cur.token # None /\ cur.on
        /\ cur.id > cursor[cur.token] /\ cur.id \in Cmd
    BY BoundsHold DEF Bounds, SaveCursor, Ahead, Types, WorkTypes
  <2>2. /\ UNCHANGED <<issuedTo, starts>>
        /\ cursor' = [cursor EXCEPT ![cur.token] = cur.id]
        /\ cur' = [cur EXCEPT !.pc = "saved"]
    BY DEF SaveCursor, relay
  <2>3. cur'.pc = "saved" /\ cur'.id = cur.id /\ cur'.token = cur.token /\ cur'.origin = cur.origin /\ cur'.on
    BY <2>1, <2>2 DEF Types, WorkTypes, Taking
  <2>4. cursor'[cur.token] = cur.id /\ \A e \in Device \ {cur.token} : cursor'[e] = cursor[e]
    BY <2>1, <2>2 DEF Types, StorageTypes
  <2>5. \A e \in Device : cursor[e] \in Nat
    BY BoundsHold DEF Bounds, Types, StorageTypes
  <2>6. ASSUME NEW j \in Cmd, starts[j] > 0
        PROVE  /\ j \in Issued /\ j <= cursor'[issuedTo[j]]
               /\ issuedTo[j] = cur.token => j < cur.id
    <3>1. j \in Issued /\ j <= cursor[issuedTo[j]] /\ issuedTo[j] \in Device
      BY <2>6 DEF Ahead, Types, RelayTypes, Issued
    <3>2. j \in Nat /\ cur.id \in Nat
      BY <2>1, BoundsHold DEF Bounds, Cmd
    <3> QED
      BY <2>1, <2>4, <2>5, <3>1, <3>2
  <2> QED
    BY <2>1, <2>2, <2>3, <2>4, <2>6 DEF Ahead, Issued
<1>2. Heard'
  BY DEF Heard, pendingChange, Types, SaveCursor
<1> QED
  BY <1>1, <1>2

\* With no command under way there is nothing to say of one.
LEMMA StorageErrorHeard ==
  ASSUME Types, Types', Owned, Epochs, Ahead, Heard, StorageError
  PROVE  Ahead' /\ Heard'
<1>1. Ahead'
  BY DEF Ahead, Types, StorageError, relay, storage, Issued, onlyCur, NoJob
<1>2. Heard'
  BY DEF Heard, Types, StorageError, NoJob
<1> QED
  BY <1>1, <1>2

\* What starts is the command the cursor stands at; all started before are behind it.
LEMMA StartOrAnswerHeard ==
  ASSUME Types, Types', Owned, Epochs, Ahead, Heard, StartOrAnswer
  PROVE  Ahead' /\ Heard'
<1>1. Ahead'
  <2>1. /\ cur.pc = "saved" /\ cur.id \in Issued /\ issuedTo[cur.id] = cur.token /\ cursor[cur.token] = cur.id
    BY DEF StartOrAnswer, Owned, OwnedWork, Ahead
  <2>2. UNCHANGED <<cursor, issuedTo>>
    BY DEF StartOrAnswer, onlyCur, relay, storage
  <2>3. cur'.pc \notin {"read", "saving", "saved"}
    BY DEF StartOrAnswer, NoJob, Types, WorkTypes, Taking
  <2>4. starts' = starts \/ starts' = [starts EXCEPT ![cur.id] = @ + 1]
    BY DEF StartOrAnswer
  <2>5. \A j \in Cmd : starts'[j] > 0 => starts[j] > 0 \/ j = cur.id
    BY <2>4 DEF Types, HistoryTypes
  <2>6. cur.id <= cursor[issuedTo[cur.id]]
    BY <2>1 DEF Types, WorkTypes, Taking
  <2> QED
    BY <2>1, <2>2, <2>3, <2>5, <2>6 DEF Ahead, Issued
<1>2. Heard'
  <2>1. cur'.pc \notin {"read", "saving", "saved"}
    BY DEF StartOrAnswer, NoJob, Types, WorkTypes, Taking
  <2> QED
    BY <2>1 DEF Heard
<1> QED
  BY <1>1, <1>2

\* With no command under way there is nothing to say of one.
LEMMA AnswerHeard ==
  ASSUME Types, Types', Owned, Epochs, Ahead, Heard, Answer
  PROVE  Ahead' /\ Heard'
<1>1. Ahead'
  BY DEF Ahead, Types, Answer, relay, storage, Issued, onlyCur, NoJob
<1>2. Heard'
  BY DEF Heard, Types, Answer, NoJob
<1> QED
  BY <1>1, <1>2

\* A pause is pending from the moment storage says so.
LEMMA ToggleHeard ==
  ASSUME Types, Types', Owned, Epochs, Ahead, Heard, Toggle
  PROVE  Ahead' /\ Heard'
<1>1. Ahead'
  BY DEF Ahead, Types, Toggle, relay, worker, Issued, changeStorage
<1>2. Heard'
  <2>1. /\ UNCHANGED <<cur, epoch, token>>
        /\ enabled' = ~enabled /\ changes' = Append(changes, {IF enabled THEN "pause" ELSE "resume"})
    BY DEF Toggle, changeStorage, worker
  <2>2. CASE enabled
    <3>1. changes' = Append(changes, {"pause"})
      BY <2>1, <2>2
    <3> QED
      BY <2>1, <3>1, PendingGrows DEF Heard
  <2>3. CASE ~enabled
    <3>1. changes' = Append(changes, {"resume"}) /\ enabled'
      BY <2>1, <2>3
    <3> QED
      BY <2>1, <3>1, PendingGrows DEF Heard
  <2> QED
    BY <2>2, <2>3
<1> QED
  BY <1>1, <1>2

\* Events pending before are still pending.
LEMMA ChangePolicyHeard ==
  ASSUME Types, Types', Owned, Epochs, Ahead, Heard, ChangePolicy
  PROVE  Ahead' /\ Heard'
<1>1. Ahead'
  BY DEF Ahead, Types, ChangePolicy, relay, worker, Issued, changeStorage
<1>2. Heard'
  <2>1. UNCHANGED <<cur, epoch, enabled>> /\ changes' = Append(changes, {"settings"})
    BY DEF ChangePolicy, changeStorage, worker
  <2> QED
    BY <2>1, PendingGrows DEF Heard
<1> QED
  BY <1>1, <1>2

\* A new token is pending from the moment storage says so.
LEMMA RegisterHeard ==
  ASSUME Types, Types', Owned, Epochs, Ahead, Heard, NEW d \in Device, Register(d)
  PROVE  Ahead' /\ Heard'
<1>1. Ahead'
  BY DEF Ahead, Types, Register, relay, worker, Issued, changeStorage
<1>2. Heard'
  <2>1. PICK e \in SUBSET {"pause", "resume", "settings"} : "settings" \in e /\ changes' = Append(changes, e)
    BY DEF Register, changeStorage
  <2>2. UNCHANGED <<cur, epoch>> /\ enabled'
    BY DEF Register, changeStorage, worker
  <2> QED
    BY <2>1, <2>2, PendingGrows DEF Heard
<1> QED
  BY <1>1, <1>2

\* A pause is pending from the moment storage says so.
LEMMA UnregisterHeard ==
  ASSUME Types, Types', Owned, Epochs, Ahead, Heard, Unregister
  PROVE  Ahead' /\ Heard'
<1>1. Ahead'
  BY DEF Ahead, Types, Unregister, relay, worker, Issued, changeStorage
<1>2. Heard'
  <2>1. UNCHANGED <<cur, epoch, token>> /\ (~enabled => UNCHANGED changes) /\ (enabled => changes' = Append(changes, {"pause"}))
    BY DEF Unregister, changeStorage, worker
  <2>2. CASE enabled
    BY <2>1, <2>2, PendingGrows DEF Heard
  <2>3. CASE ~enabled
    <3>1. \A x : pendingChange(x) => pendingChange(x)'
      BY <2>1, <2>3 DEF pendingChange
    <3> QED
      BY <2>1, <2>3, <3>1 DEF Heard
  <2> QED
    BY <2>2, <2>3
<1> QED
  BY <1>1, <1>2

\* That the token is gone is pending from the moment storage says so.
LEMMA RemoveTokenHeard ==
  ASSUME Types, Types', Owned, Epochs, Ahead, Heard, RemoveToken
  PROVE  Ahead' /\ Heard'
<1>1. Ahead'
  BY DEF Ahead, Types, RemoveToken, relay, worker, Issued, changeStorage
<1>2. Heard'
  <2>1. UNCHANGED <<cur, epoch, enabled>> /\ (UNCHANGED <<token, changes>> \/ changes' = Append(changes, {"settings"}))
    BY DEF RemoveToken, changeStorage, worker
  <2>2. CASE changes' = Append(changes, {"settings"})
    BY <2>1, <2>2, PendingGrows DEF Heard
  <2>3. CASE UNCHANGED <<token, changes>>
    BY <2>1, <2>3 DEF Heard, pendingChange
  <2> QED
    BY <2>1, <2>2, <2>3
<1> QED
  BY <1>1, <1>2

\* Only the relay changes.
LEMMA RevokeHeard ==
  ASSUME Types, Types', Owned, Epochs, Ahead, Heard, NEW d \in Device, Revoke(d)
  PROVE  Ahead' /\ Heard'
<1>1. Ahead'
  BY DEF Ahead, Types, Revoke, storage, worker, Issued
<1>2. Heard'
  BY DEF Heard, pendingChange, Types, Revoke, storage, worker
<1> QED
  BY <1>1, <1>2

\* Only the connection changes.
LEMMA HearCloseHeard ==
  ASSUME Types, Types', Owned, Epochs, Ahead, Heard, HearClose
  PROVE  Ahead' /\ Heard'
<1>1. Ahead'
  BY DEF Ahead, Types, HearClose, relay, storage, history, Issued
<1>2. Heard'
  BY DEF Heard, pendingChange, Types, HearClose, storage
<1> QED
  BY <1>1, <1>2

\* The event that is heard puts the work under way into an old epoch.
LEMMA OnChangedHeard ==
  ASSUME Types, Types', Owned, Epochs, Ahead, Heard, OnChanged
  PROVE  Ahead' /\ Heard'
<1>1. Ahead'
  BY DEF Ahead, Types, OnChanged, relay, history, Issued
<1>2. Heard'
  <2>1. cur' = cur /\ epoch' = epoch + 1
    BY DEF OnChanged
  <2>2. cur'.epoch # epoch'
    BY <2>1, EpochTypes DEF Epochs
  <2> QED
    BY <2>2 DEF Heard
<1> QED
  BY <1>1, <1>2

\* With no command under way there is nothing to say of one.
LEMMA KillHeard ==
  ASSUME Types, Types', Owned, Epochs, Ahead, Heard, Kill
  PROVE  Ahead' /\ Heard'
<1>1. Ahead'
  BY DEF Ahead, Types, Kill, relay, Issued, NoJob
<1>2. Heard'
  BY DEF Heard, Types, Kill, NoJob
<1> QED
  BY <1>1, <1>2

\* Every step keeps what is known of the cursor, and of what was read.
LEMMA HeardStep ==
  ASSUME Types, Types', Owned, Epochs, Ahead, Heard, Next
  PROVE  Ahead' /\ Heard'
<1>1. ASSUME NEW d \in Device, Enqueue(d) PROVE Ahead' /\ Heard'
  BY <1>1, EnqueueHeard
<1>2. ASSUME NEW d \in Device, Expire(d) PROVE Ahead' /\ Heard'
  BY <1>2, ExpireHeard
<1>3. ASSUME NEW id \in Cmd, Age(id) PROVE Ahead' /\ Heard'
  BY <1>3, AgeHeard
<1>4. ASSUME NEW a \in acks, ReceiveAck(a) PROVE Ahead' /\ Heard'
  BY <1>4, ReceiveAckHeard
<1>5. CASE ServeHello
  BY <1>5, ServeHelloHeard
<1>6. CASE ServeWelcome
  BY <1>6, ServeWelcomeHeard
<1>7. CASE ServePoll
  BY <1>7, ServePollHeard
<1>8. CASE Connect
  BY <1>8, ConnectHeard
<1>9. CASE OpenSocket
  BY <1>9, OpenSocketHeard
<1>10. CASE StartPoll
  BY <1>10, StartPollHeard
<1>11. CASE Hear
  BY <1>11, HearHeard
<1>12. CASE PollAnswer
  BY <1>12, PollAnswerHeard
<1>13. CASE PollHandled
  BY <1>13, PollHandledHeard
<1>14. CASE Disconnect
  BY <1>14, DisconnectHeard
<1>15. CASE Begin
  BY <1>15, BeginHeard
<1>16. CASE ReadState
  BY <1>16, ReadStateHeard
<1>17. CASE Decide
  BY <1>17, DecideHeard
<1>18. CASE SaveCursor
  BY <1>18, SaveCursorHeard
<1>19. CASE StorageError
  BY <1>19, StorageErrorHeard
<1>20. CASE StartOrAnswer
  BY <1>20, StartOrAnswerHeard
<1>21. CASE Answer
  BY <1>21, AnswerHeard
<1>22. CASE Toggle
  BY <1>22, ToggleHeard
<1>23. CASE ChangePolicy
  BY <1>23, ChangePolicyHeard
<1>24. ASSUME NEW d \in Device, Register(d) PROVE Ahead' /\ Heard'
  BY <1>24, RegisterHeard
<1>27. CASE Unregister
  BY <1>27, UnregisterHeard
<1>28. CASE RemoveToken
  BY <1>28, RemoveTokenHeard
<1>29. CASE HearClose
  BY <1>29, HearCloseHeard
<1>30. ASSUME NEW d \in Device, Revoke(d) PROVE Ahead' /\ Heard'
  BY <1>30, RevokeHeard
<1>25. CASE OnChanged
  BY <1>25, OnChangedHeard
<1>26. CASE Kill
  BY <1>26, KillHeard
<1> QED
  BY <1>1, <1>2, <1>3, <1>4, <1>5, <1>6, <1>7, <1>8, <1>9, <1>10, <1>11, <1>12, <1>13, <1>14,
     <1>15, <1>16, <1>17, <1>18, <1>19, <1>20, <1>21, <1>22, <1>23, <1>24, <1>25, <1>26,
     <1>27, <1>28, <1>29, <1>30
     DEF Next, RelayStep, ConnectionStep, TakeStep, ControlStep

-----------------------------------------------------------------------------
(* Nothing owed leaves its queue *)

\* Numbers of commands are numbers.
LEMMA Numbers ==
  ASSUME Types
  PROVE  /\ Len(issuedTo) \in Nat /\ Issued \subseteq Nat \ {0} /\ Issued \subseteq Cmd
         /\ \A d : owed(d) \subseteq Issued
         /\ \A d \in Device : cursor[d] \in Nat
         /\ link.after \in Nat /\ link.cmd \in Nat /\ cur.id \in Nat /\ cur.cursor \in Nat
<1>1. Len(issuedTo) \in Nat /\ Issued \subseteq Nat \ {0} /\ Issued \subseteq Cmd
  BY BoundsHold DEF Bounds, Types, RelayTypes, Issued, Cmd
<1>2. \A d \in Device : cursor[d] \in Nat
  BY BoundsHold DEF Bounds, Types, StorageTypes
<1>3. link.after \in Nat /\ link.cmd \in Nat /\ cur.id \in Nat /\ cur.cursor \in Nat
  BY BoundsHold DEF Bounds, Types, LinkTypes, WorkTypes, Taking
<1>4. \A d : owed(d) \subseteq Issued
  BY DEF owed
<1> QED
  BY <1>1, <1>2, <1>3, <1>4

\* Without a new command, what is owed only shrinks.
LEMMA OwedShrinks ==
  ASSUME issuedTo' = issuedTo, taken \subseteq taken', stale \subseteq stale', passedOver \subseteq passedOver',
         revoked \subseteq revoked'
  PROVE  \A d : owed(d)' \subseteq owed(d)
BY DEF owed, Issued

\* A new command is owed to its device and behind nothing.
LEMMA OwedGrows ==
  ASSUME Types, Types', NEW d \in Device, Enqueue(d)
  PROVE  /\ Len(issuedTo') = Len(issuedTo) + 1 /\ issuedTo'[Len(issuedTo')] = d
         /\ \A c \in Issued : c \in Issued' /\ issuedTo'[c] = issuedTo[c]
         /\ \A e : \A c \in owed(e)' : c \in owed(e) \/ (c = Len(issuedTo') /\ e = d)
<1>1. /\ issuedTo' = Append(issuedTo, d) /\ UNCHANGED <<taken, stale, passedOver, revoked>>
      /\ issuedTo \in Seq(Device)
  BY DEF Enqueue, history, Types, RelayTypes
<1>2. /\ Len(issuedTo') = Len(issuedTo) + 1 /\ issuedTo'[Len(issuedTo')] = d /\ Len(issuedTo) \in Nat
      /\ \A c \in 1 .. Len(issuedTo) : issuedTo'[c] = issuedTo[c]
  BY <1>1, AppendProperties
<1>3. Issued' = Issued \cup {Len(issuedTo')} /\ Len(issuedTo') \notin Issued
  BY <1>2 DEF Issued
<1>4. \A e : \A c \in owed(e)' : c \in owed(e) \/ (c = Len(issuedTo') /\ e = d)
  BY <1>1, <1>2, <1>3 DEF owed, Issued
<1> QED
  BY <1>2, <1>3, <1>4 DEF Issued

\* Nothing owed is acknowledged.
LEMMA AckSpares ==
  ASSUME Types, KeptInQueue, NEW e, NEW n \in Nat, Behind(e, n), queue' = unacked(queue, e, n),
         \A d : owed(d)' \subseteq owed(d)
  PROVE  KeptInQueue'
<1> SUFFICES ASSUME NEW d \in Device, NEW c \in owed(d)'
             PROVE  c \in queue'[d]
  BY DEF KeptInQueue
<1>1. c \in owed(d) /\ c \in queue[d]
  BY DEF KeptInQueue
<1>2. d = e => n < c
  BY <1>1 DEF Behind
<1>3. c \in Nat
  BY <1>1, Numbers
<1> QED
  BY <1>1, <1>2, <1>3 DEF unacked, Types, RelayTypes

\* Fewer acknowledgements, the same cursors, the same session or none.
LEMMA SparedStays ==
  ASSUME KeptInQueue, Spared, UNCHANGED <<issuedTo, queue, cursor>>, acks' \subseteq acks,
         link' = link \/ link'.phase \notin {"ticket", "open", "poll", "reply"},
         taken \subseteq taken', stale \subseteq stale', passedOver \subseteq passedOver', revoked \subseteq revoked'
  PROVE  KeptInQueue' /\ Spared'
<1>1. \A d : owed(d)' \subseteq owed(d)
  BY OwedShrinks
<1>2. KeptInQueue'
  BY <1>1 DEF KeptInQueue
<1>3. \A d, n : Behind(d, n) => Behind(d, n)'
  BY <1>1 DEF Behind
<1> QED
  BY <1>1, <1>2, <1>3 DEF Spared

\* The new command is owed, in its queue, and after everything sent or saved.
LEMMA EnqueueSpared ==
  ASSUME Types, Types', Owned, Session, Ahead, KeptInQueue, Spared, CurFirst, NEW d \in Device,
         Enqueue(d)
  PROVE  KeptInQueue' /\ Spared'
<1>1. /\ Len(issuedTo') = Len(issuedTo) + 1 /\ issuedTo'[Len(issuedTo')] = d
      /\ \A c \in Issued : c \in Issued' /\ issuedTo'[c] = issuedTo[c]
      /\ \A e : \A c \in owed(e)' : c \in owed(e) \/ (c = Len(issuedTo') /\ e = d)
  BY OwedGrows
<1>2. /\ UNCHANGED <<cursor, acks, link>>
      /\ queue' = [queue EXCEPT ![d] = @ \cup {Len(issuedTo')}]
  BY <1>1 DEF Enqueue, storage, worker
<1>3. KeptInQueue'
  BY <1>1, <1>2 DEF KeptInQueue, Types, RelayTypes
<1>4. \A e, n : n \in Nat /\ Behind(e, n) => Behind(e, n)'
  BY <1>1, Numbers DEF Behind
<1>5. link.phase = "reply" /\ link.cmd # 0 => link.cmd <= Len(issuedTo)
  BY Numbers DEF Owned, OwnedMessages, Issued
<1>6. \A a \in acks : a.seq \in Nat
  BY BoundsHold DEF Bounds, Types, WireTypes
<1> QED
  BY <1>1, <1>2, <1>3, <1>4, <1>5, <1>6, Numbers DEF Spared

\* What expires is old, so it is not owed.
LEMMA ExpireSpared ==
  ASSUME Types, Types', Owned, Session, Ahead, KeptInQueue, Spared, CurFirst, NEW d \in Device,
         Expire(d)
  PROVE  KeptInQueue' /\ Spared'
<1>1. /\ UNCHANGED <<issuedTo, cursor, acks, link, taken, stale, passedOver, revoked>>
      /\ \A e \in Device : queue[e] \subseteq queue'[e] \cup stale
  BY DEF Expire, storage, worker, history, Types, RelayTypes
<1>2. \A e : owed(e)' \subseteq owed(e)
  BY <1>1, OwedShrinks
<1>3. KeptInQueue'
  BY <1>1, <1>2 DEF KeptInQueue, owed
<1> QED
  BY <1>1, <1>2, <1>3 DEF Spared, Behind

\* An acknowledgement stays behind what is owed, so it removes none of it.
LEMMA ReceiveAckSpared ==
  ASSUME Types, Types', Owned, Session, Ahead, KeptInQueue, Spared, CurFirst, NEW a \in acks,
         ReceiveAck(a)
  PROVE  KeptInQueue' /\ Spared'
<1>1. /\ UNCHANGED <<issuedTo, cursor, link, taken, stale, passedOver, revoked>> /\ acks' \subseteq acks
      /\ queue' = unacked(queue, a.token, a.seq)
  BY DEF ReceiveAck, storage, worker, history
<1>2. \A e : owed(e)' \subseteq owed(e)
  BY <1>1, OwedShrinks
<1>3. a.seq \in Nat /\ Behind(a.token, a.seq)
  BY BoundsHold DEF Bounds, Spared, Types, WireTypes
<1>4. KeptInQueue'
  BY <1>1, <1>2, <1>3, AckSpares
<1> QED
  BY <1>1, <1>2, <1>4 DEF Spared, Behind

\* Nothing is owed to a device that is not known any more.
LEMMA RevokeSpared ==
  ASSUME Types, Types', Owned, Session, Ahead, KeptInQueue, Spared, CurFirst, NEW d \in Device,
         Revoke(d)
  PROVE  KeptInQueue' /\ Spared'
<1>1. /\ UNCHANGED <<issuedTo, cursor, acks, link, taken, stale, passedOver>> /\ revoked' = revoked \cup {d}
      /\ \A e \in Device \ {d} : queue'[e] = queue[e]
  BY DEF Revoke, storage, worker, Types, RelayTypes
<1>2. \A e : owed(e)' \subseteq owed(e)
  BY <1>1, OwedShrinks
<1>3. owed(d)' = {}
  BY <1>1 DEF owed
<1>4. KeptInQueue'
  BY <1>1, <1>2, <1>3 DEF KeptInQueue
<1> QED
  BY <1>1, <1>2, <1>4 DEF Spared, Behind

\* The hello's cursor stays behind what is owed, so it removes none of it.
LEMMA ServeHelloSpared ==
  ASSUME Types, Types', Owned, Session, Ahead, KeptInQueue, Spared, CurFirst, ServeHello
  PROVE  KeptInQueue' /\ Spared'
<1>1. /\ UNCHANGED <<issuedTo, cursor, acks, link, taken, stale, passedOver, revoked>>
      /\ queue' = unacked(queue, link.token, link.after) /\ link.phase = "open"
  BY DEF ServeHello, storage, worker, history, Session
<1>2. \A e : owed(e)' \subseteq owed(e)
  BY <1>1, OwedShrinks
<1>3. link.after \in Nat /\ Behind(link.token, link.after)
  BY <1>1, Numbers DEF Spared
<1>4. KeptInQueue'
  BY <1>1, <1>2, <1>3, AckSpares
<1> QED
  BY <1>1, <1>2, <1>4 DEF Spared, Behind

\* The poll's cursor removes nothing owed; the answer is the first of the rest.
LEMMA ServePollSpared ==
  ASSUME Types, Types', Owned, Session, Ahead, KeptInQueue, Spared, CurFirst, ServePoll
  PROVE  KeptInQueue' /\ Spared'
<1> DEFINE q == queue'[link.token]
<1>1. /\ UNCHANGED <<issuedTo, cursor, acks, taken, stale, passedOver, revoked>>
      /\ queue' = unacked(queue, link.token, link.after) /\ link.phase = "poll"
      /\ link' = [link EXCEPT !.phase = "reply", !.cmd = IF q = {} THEN 0 ELSE inOrder(q)[1]]
  BY DEF ServePoll, storage, history
<1>2. \A d : owed(d)' \subseteq owed(d)
  BY <1>1, OwedShrinks
<1>3. link.after \in Nat /\ Behind(link.token, link.after)
  BY <1>1, Numbers DEF Spared
<1>4. KeptInQueue'
  BY <1>1, <1>2, <1>3, AckSpares
<1>5. link.token \in Device /\ q \in SUBSET Cmd
  BY <1>1 DEF unacked, Types, RelayTypes, LinkTypes
<1>6. q # {} => \A c \in q : inOrder(q)[1] <= c
  BY <1>5, FirstInOrder
<1>7. /\ link'.phase = "reply" /\ link'.token = link.token
      /\ link'.cmd # 0 => \A c \in q : link'.cmd <= c
  BY <1>1, <1>6 DEF Types, LinkTypes
<1>8. link'.cmd # 0 => \A c \in owed(link.token)' : link'.cmd <= c
  BY <1>4, <1>5, <1>7 DEF KeptInQueue
<1> QED
  BY <1>1, <1>2, <1>4, <1>7, <1>8 DEF Spared, Behind

\* The session asks from the cursor, which is behind what is owed.
LEMMA ConnectSpared ==
  ASSUME Types, Types', Owned, Session, Ahead, KeptInQueue, Spared, CurFirst, Connect
  PROVE  KeptInQueue' /\ Spared'
<1>1. UNCHANGED <<issuedTo, queue, cursor, acks, taken, stale, passedOver, revoked>>
  BY DEF Connect, relay, storage, history
<1>2. \/ link'.phase = "none"
      \/ link'.phase = "ticket" /\ token \in Device /\ link'.token = token /\ link'.after = cursor[token]
  <2> DEFINE r == [NoLink EXCEPT !.phase = "ticket", !.token = token, !.after = cursor[token], !.epoch = epoch]
  <2>1. (token # None /\ link' = r) \/ link' = NoLink
    BY DEF Connect
  <2>2. NoLink.phase = "none" /\ r.phase = "ticket" /\ r.token = token /\ r.after = cursor[token]
    BY DEF NoLink
  <2> HIDE DEF r
  <2> QED
    BY <2>1, <2>2 DEF Types, StorageTypes
<1>3. \A d : owed(d)' \subseteq owed(d)
  BY <1>1, OwedShrinks
<1>4. KeptInQueue'
  BY <1>1, <1>3 DEF KeptInQueue
<1> QED
  BY <1>1, <1>2, <1>3, <1>4 DEF Spared, Behind

\* The session goes on, or ends.
LEMMA OpenSocketSpared ==
  ASSUME Types, Types', Owned, Session, Ahead, KeptInQueue, Spared, CurFirst, OpenSocket
  PROVE  KeptInQueue' /\ Spared'
<1>1. UNCHANGED <<issuedTo, queue, cursor, acks, taken, stale, passedOver, revoked>> /\ link.phase = "ticket"
  BY DEF OpenSocket, relay, storage, history
<1>2. \/ link'.phase = "open" /\ link'.token = link.token /\ link'.after = link.after
      \/ link'.phase = "none"
  BY DEF OpenSocket, disconnected, NoLink, Types, LinkTypes
<1>3. \A d : owed(d)' \subseteq owed(d)
  BY <1>1, OwedShrinks
<1>4. KeptInQueue'
  BY <1>1, <1>3 DEF KeptInQueue
<1> QED
  BY <1>1, <1>2, <1>3, <1>4 DEF Spared, Behind

\* The poll asks from the cursor, which is behind what is owed.
LEMMA StartPollSpared ==
  ASSUME Types, Types', Owned, Session, Ahead, KeptInQueue, Spared, CurFirst, StartPoll
  PROVE  KeptInQueue' /\ Spared'
<1>1. UNCHANGED <<issuedTo, queue, cursor, acks, taken, stale, passedOver, revoked>>
  BY DEF StartPoll, relay, storage, history
<1>2. \/ link'.phase = "none"
      \/ link'.phase = "poll" /\ token \in Device /\ link'.token = token /\ link'.after = cursor[token]
  <2> DEFINE r == [NoLink EXCEPT !.phase = "poll", !.token = token, !.after = cursor[token], !.epoch = epoch]
  <2>1. (token # None /\ link' = r) \/ link' = NoLink
    BY DEF StartPoll
  <2>2. NoLink.phase = "none" /\ r.phase = "poll" /\ r.token = token /\ r.after = cursor[token]
    BY DEF NoLink
  <2> HIDE DEF r
  <2> QED
    BY <2>1, <2>2 DEF Types, StorageTypes
<1>3. \A d : owed(d)' \subseteq owed(d)
  BY <1>1, OwedShrinks
<1>4. KeptInQueue'
  BY <1>1, <1>3 DEF KeptInQueue
<1> QED
  BY <1>1, <1>2, <1>3, <1>4 DEF Spared, Behind

\* The command under way is the first owed of its device, and is now taken.
LEMMA SaveCursorSpared ==
  ASSUME Types, Types', Owned, Session, Ahead, KeptInQueue, Spared, CurFirst, SaveCursor
  PROVE  KeptInQueue' /\ Spared'
<1>1. /\ UNCHANGED <<issuedTo, queue, acks, link, stale, passedOver, revoked>> /\ taken' = taken \cup {cur.id}
      /\ cursor' = [cursor EXCEPT ![cur.token] = cur.id] /\ cur.pc = "saving"
  BY DEF SaveCursor, relay
<1>2. \A d : owed(d)' \subseteq owed(d)
  BY <1>1, OwedShrinks
<1>3. KeptInQueue'
  BY <1>1, <1>2 DEF KeptInQueue
<1>4. cur.token = cur.origin /\ cur.id \in Issued
  BY <1>1 DEF Ahead, Owned, OwnedWork
<1>5. ASSUME NEW e, e = cur.token, NEW c \in owed(e)'
      PROVE  cur.id < c
  <2>1. c \in owed(cur.origin) /\ c # cur.id /\ c \in Nat
    BY <1>1, <1>2, <1>4, <1>5, Numbers DEF owed
  <2>2. cur.id <= c
    BY <1>1, <2>1 DEF CurFirst
  <2> QED
    BY <2>1, <2>2, Numbers
<1>6. \A d \in Device : Behind(d, cursor[d])'
  BY <1>1, <1>2, <1>4, <1>5 DEF Spared, Behind, Types, StorageTypes, Issued
<1> QED
  BY <1>1, <1>2, <1>3, <1>6 DEF Spared, Behind

\* The acknowledgement is of the cursor just saved, behind what is owed.
LEMMA StartOrAnswerSpared ==
  ASSUME Types, Types', Owned, Session, Ahead, KeptInQueue, Spared, CurFirst, StartOrAnswer
  PROVE  KeptInQueue' /\ Spared'
<1>1. UNCHANGED <<issuedTo, queue, cursor, link, taken, stale, passedOver, revoked>> /\ cur.pc = "saved"
  BY DEF StartOrAnswer, onlyCur, relay, storage
<1>2. /\ acks' \subseteq acks \cup {[token |-> cur.token, seq |-> cur.id]}
      /\ acks' = acks \/ (link.phase = "live" /\ link.token = cur.token)
  BY DEF StartOrAnswer, sendAck
<1>3. \A d : owed(d)' \subseteq owed(d)
  BY <1>1, OwedShrinks
<1>4. KeptInQueue'
  BY <1>1, <1>3 DEF KeptInQueue
<1>5. acks' = acks \/ Behind(cur.token, cur.id)
  <2>1. link.phase = "live" => link.token \in Device
    BY DEF Types, LinkTypes
  <2> QED
    BY <1>1, <1>2, <2>1 DEF Ahead, Spared
<1>6. \A a \in acks' : a \in acks \/ (a.token = cur.token /\ a.seq = cur.id /\ Behind(cur.token, cur.id))
  BY <1>2, <1>5
<1> QED
  BY <1>1, <1>3, <1>4, <1>6 DEF Spared, Behind

\* No step takes something owed from its queue.
LEMMA SparedStep ==
  ASSUME Types, Types', Owned, Session, Ahead, KeptInQueue, Spared, CurFirst, Next
  PROVE  KeptInQueue' /\ Spared'
<1>1. ASSUME NEW d \in Device, Enqueue(d) PROVE KeptInQueue' /\ Spared'
  BY <1>1, EnqueueSpared
<1>2. ASSUME NEW d \in Device, Expire(d) PROVE KeptInQueue' /\ Spared'
  BY <1>2, ExpireSpared
<1>3. ASSUME NEW id \in Cmd, Age(id) PROVE KeptInQueue' /\ Spared'
  BY <1>3, SparedStays DEF Age, storage, worker, history
<1>4. ASSUME NEW a \in acks, ReceiveAck(a) PROVE KeptInQueue' /\ Spared'
  BY <1>4, ReceiveAckSpared
<1>5. CASE ServeHello
  BY <1>5, ServeHelloSpared
<1>6. CASE ServeWelcome
  BY <1>6, SparedStays DEF ServeWelcome, relay, storage, worker, history
<1>7. CASE ServePoll
  BY <1>7, ServePollSpared
<1>8. CASE Connect
  BY <1>8, ConnectSpared
<1>9. CASE OpenSocket
  BY <1>9, OpenSocketSpared
<1>10. CASE StartPoll
  BY <1>10, StartPollSpared
<1>11. CASE Hear
  BY <1>11, SparedStays DEF Hear, relay, storage, history, Types, LinkTypes
<1>12. CASE PollAnswer
  BY <1>12, SparedStays DEF PollAnswer, relay, storage, history, NoLink, Types, LinkTypes
<1>13. CASE PollHandled
  BY <1>13, SparedStays DEF PollHandled, relay, storage, history, NoLink
<1>14. CASE Disconnect
  BY <1>14, SparedStays DEF Disconnect, relay, storage, disconnected, NoLink
<1>15. CASE Begin
  BY <1>15, SparedStays DEF Begin, onlyCur, relay, storage
<1>16. CASE ReadState
  BY <1>16, SparedStays DEF ReadState, onlyCur, relay, storage, history
<1>17. CASE Decide
  BY <1>17, SparedStays DEF Decide, onlyCur, relay, storage
<1>18. CASE SaveCursor
  BY <1>18, SaveCursorSpared
<1>19. CASE StorageError
  BY <1>19, SparedStays DEF StorageError, onlyCur, relay, storage
<1>20. CASE StartOrAnswer
  BY <1>20, StartOrAnswerSpared
<1>21. CASE Answer
  BY <1>21, SparedStays DEF Answer, onlyCur, relay, storage
<1>22. CASE Toggle
  BY <1>22, SparedStays DEF Toggle, changeStorage, relay, worker
<1>23. CASE ChangePolicy
  BY <1>23, SparedStays DEF ChangePolicy, changeStorage, relay, worker
<1>24. ASSUME NEW d \in Device, Register(d) PROVE KeptInQueue' /\ Spared'
  BY <1>24, SparedStays DEF Register, changeStorage, relay, worker
<1>27. CASE Unregister
  BY <1>27, SparedStays DEF Unregister, changeStorage, relay, worker
<1>28. CASE RemoveToken
  BY <1>28, SparedStays DEF RemoveToken, changeStorage, relay, worker
<1>29. CASE HearClose
  BY <1>29, SparedStays DEF HearClose, relay, storage, history, disconnected, NoLink
<1>30. ASSUME NEW d \in Device, Revoke(d) PROVE KeptInQueue' /\ Spared'
  BY <1>30, RevokeSpared
<1>25. CASE OnChanged
  BY <1>25, SparedStays DEF OnChanged, relay, history, disconnected, NoLink
<1>26. CASE Kill
  BY <1>26, SparedStays DEF Kill, relay, disconnected, NoLink
<1> QED
  BY <1>1, <1>2, <1>3, <1>4, <1>5, <1>6, <1>7, <1>8, <1>9, <1>10, <1>11, <1>12, <1>13, <1>14,
     <1>15, <1>16, <1>17, <1>18, <1>19, <1>20, <1>21, <1>22, <1>23, <1>24, <1>25, <1>26,
     <1>27, <1>28, <1>29, <1>30
     DEF Next, RelayStep, ConnectionStep, TakeStep, ControlStep

-----------------------------------------------------------------------------
(* Nothing owed is overtaken *)

\* No socket, nothing sent.
LEMMA NothingSent ==
  ASSUME down' = <<>>, server'.st # "ready"
  PROVE  MessagesGapless' /\ AllSent'
BY DEF MessagesGapless, AllSent

\* The chain and what is being taken stay as they are.
LEMMA ChainStays ==
  ASSUME CurFirst, JobsGapless, UNCHANGED <<jobs, cur, epoch>>, \A d : owed(d)' \subseteq owed(d)
  PROVE  CurFirst' /\ JobsGapless' /\ \A c, k : beforeJob(c, k)' <=> beforeJob(c, k)
<1>1. \A c, k : beforeJob(c, k)' <=> beforeJob(c, k)
  BY DEF beforeJob
<1> QED
  BY <1>1 DEF CurFirst, JobsGapless

\* Whatever of the owed was before a message still is.
LEMMA MessagesStay ==
  ASSUME MessagesGapless, AllSent, UNCHANGED <<down, link>>, server' = server \/ server'.st = "closed",
         \A d : owed(d)' \subseteq owed(d),
         \A d : \A c \in owed(d)' : beforeJob(c, Len(jobs) + 1) => beforeJob(c, Len(jobs) + 1)'
  PROVE  MessagesGapless' /\ AllSent'
<1>1. \A k : counts(k)' <=> counts(k)
  BY DEF counts
<1>2. \A d, k : \A c \in owed(d)' : beforeMessage(c, k) => beforeMessage(c, k)'
  BY <1>1 DEF beforeMessage
<1> QED
  BY <1>1, <1>2 DEF MessagesGapless, AllSent

\* A step of the taking of one command, while the chain stays: a command that
\* is not taken any more is not owed.
LEMMA TakingStep ==
  ASSUME JobsGapless, MessagesGapless, AllSent, UNCHANGED <<down, link, server, jobs, epoch>>,
         \A d : owed(d)' \subseteq owed(d),
         cur.pc \in {"reading", "read", "saving"} /\ cur.epoch = epoch =>
           \/ cur'.pc \in {"reading", "read", "saving"} /\ cur'.epoch = epoch /\ cur'.id = cur.id
           \/ \A d : cur.id \notin owed(d)'
  PROVE  JobsGapless' /\ MessagesGapless' /\ AllSent'
<1>1. \A d, k : \A c \in owed(d)' : beforeJob(c, k) => beforeJob(c, k)'
  BY DEF beforeJob
<1>2. JobsGapless'
  BY <1>1 DEF JobsGapless
<1>3. \A d : \A c \in owed(d)' : beforeJob(c, Len(jobs) + 1) => beforeJob(c, Len(jobs) + 1)'
  BY <1>1
<1> QED
  BY <1>2, <1>3, MessagesStay

\* A command joins the chain after all that is owed before it.
LEMMA JobAdded ==
  ASSUME Types, JobsGapless, NEW j, jobs' = Append(jobs, j), UNCHANGED <<cur, epoch>>,
         \A d : owed(d)' \subseteq owed(d),
         j.epoch = epoch => \A c \in owed(j.origin) : c < j.id => beforeJob(c, Len(jobs) + 1)
  PROVE  /\ JobsGapless'
         /\ \A c : beforeJob(c, Len(jobs) + 1) => beforeJob(c, Len(jobs) + 1)'
         /\ \A c : j.epoch = epoch /\ c = j.id => beforeJob(c, Len(jobs) + 1)'
<1>1. /\ Len(jobs') = Len(jobs) + 1 /\ jobs'[Len(jobs) + 1] = j /\ Len(jobs) \in Nat
      /\ \A i \in 1 .. Len(jobs) : jobs'[i] = jobs[i]
      /\ DOMAIN jobs = 1 .. Len(jobs) /\ DOMAIN jobs' = 1 .. Len(jobs) + 1
  BY AppendProperties DEF Types, WorkTypes
<1>2. \A c : \A k \in 1 .. Len(jobs) + 1 : beforeJob(c, k) => beforeJob(c, k)'
  BY <1>1 DEF beforeJob
<1>3. \A c : beforeJob(c, Len(jobs) + 1) => beforeJob(c, Len(jobs) + 1)'
  BY <1>1 DEF beforeJob
<1>4. \A c : j.epoch = epoch /\ c = j.id => beforeJob(c, Len(jobs) + 1)'
  BY <1>1 DEF beforeJob
<1>5. JobsGapless'
  <2> SUFFICES ASSUME NEW k \in DOMAIN jobs', jobs'[k].epoch = epoch',
                      NEW c \in owed(jobs[k].origin)', c < jobs'[k].id
               PROVE  beforeJob(c, k)'
    BY DEF JobsGapless
  <2>1. CASE k \in 1 .. Len(jobs)
    <3>1. jobs'[k] = jobs[k] /\ c \in owed(jobs[k].origin)
      BY <1>1, <2>1
    <3> QED
      BY <1>1, <1>2, <2>1, <3>1 DEF JobsGapless
  <2>2. CASE k = Len(jobs) + 1
    <3>1. jobs'[k] = j /\ c \in owed(j.origin) /\ j.epoch = epoch
      BY <1>1, <2>2
    <3>2. beforeJob(c, k)
      BY <2>2, <3>1
    <3> QED
      BY <1>1, <1>2, <2>2, <3>2
  <2> QED
    BY <1>1, <2>1, <2>2
<1> QED
  BY <1>3, <1>4, <1>5

\* Nothing that delivers moves.
LEMMA NoGapStays ==
  ASSUME NoGap, UNCHANGED <<issuedTo, down, link, jobs, cur, epoch>>, server' = server \/ server'.st = "closed",
         taken \subseteq taken', stale \subseteq stale', passedOver \subseteq passedOver', revoked \subseteq revoked'
  PROVE  NoGap'
<1>1. \A e : owed(e)' \subseteq owed(e)
  BY OwedShrinks
<1>2. CurFirst' /\ JobsGapless' /\ \A c, k : beforeJob(c, k)' <=> beforeJob(c, k)
  BY <1>1, ChainStays DEF NoGap
<1>3. MessagesGapless' /\ AllSent'
  BY <1>1, <1>2, MessagesStay DEF NoGap
<1> QED
  BY <1>2, <1>3 DEF NoGap

\* The chain goes on without a socket.
LEMMA NoSocket ==
  ASSUME NoGap, UNCHANGED <<issuedTo, jobs, cur, epoch, taken, stale, passedOver, revoked>>,
         down' = <<>>, server'.st # "ready"
  PROVE  NoGap'
<1>1. \A d : owed(d)' \subseteq owed(d)
  BY OwedShrinks
<1>2. CurFirst' /\ JobsGapless'
  BY <1>1, ChainStays DEF NoGap
<1> QED
  BY <1>2, NothingSent DEF NoGap

\* The new command is the last of its device wherever it is sent.
LEMMA EnqueueGapless ==
  ASSUME Types, Types', Owned, Session, Epochs, Ahead, KeptInQueue, Spared, NoGap,
         NEW d \in Device, Enqueue(d)
  PROVE  NoGap'
<1> USE DEF NoGap
<1>i. PICK id : id = Len(issuedTo')
  OBVIOUS
<1>1. /\ id = Len(issuedTo) + 1 /\ \A c \in Issued : c \in Issued' /\ issuedTo'[c] = issuedTo[c]
      /\ \A e : \A c \in owed(e)' : c \in owed(e) \/ (c = id /\ e = d)
  BY <1>i, OwedGrows
<1>2. /\ UNCHANGED <<server, link, jobs, cur, epoch>>
      /\ down' = IF server.token = d /\ server.st \in {"hello", "ready"} THEN Append(down, id) ELSE down
  BY <1>i, <1>1 DEF Enqueue, worker
<1>3. id \in Nat /\ \A c \in Issued : c \in Nat /\ c < id
  BY <1>1, Numbers DEF Issued
<1>4. cur.pc # "idle" => cur.id \in Issued
  BY DEF Owned, OwnedWork
<1>5. \A k \in DOMAIN jobs : jobs[k].id \in Issued
  BY DEF Owned, OwnedWork
<1>6. \A k \in DOMAIN down : down[k] # Welcome => down[k] \in Issued
  BY DEF Owned, OwnedMessages
<1>7. \A e : \A x \in Issued : \A c \in owed(e)' : c < x \/ ~(x <= c) => c \in owed(e)
  BY <1>1, <1>3
<1>8. CurFirst'
  BY <1>1, <1>2, <1>3, <1>4 DEF CurFirst
<1>9. \A c, k : beforeJob(c, k)' <=> beforeJob(c, k)
  BY <1>2 DEF beforeJob
<1>10. JobsGapless'
  BY <1>2, <1>5, <1>7, <1>9 DEF JobsGapless
<1>11. CASE down' = down /\ ~(server.token = d /\ server.st \in {"hello", "ready"})
  <2>1. \A k : counts(k)' <=> counts(k)
    BY <1>2, <1>11 DEF counts
  <2>2. \A c, k : beforeMessage(c, k)' <=> beforeMessage(c, k)
    BY <1>2, <1>9, <1>11, <2>1 DEF beforeMessage
  <2>3. MessagesGapless'
    BY <1>2, <1>6, <1>7, <1>11, <2>1, <2>2 DEF MessagesGapless
  <2>4. server.st = "ready" => server.token = link.token /\ server.token # d
    BY <1>11 DEF Session
  <2>5. AllSent'
    BY <1>1, <1>2, <1>11, <2>1, <2>2, <2>4 DEF AllSent
  <2> QED
    BY <1>8, <1>10, <2>3, <2>5
<1>12. CASE down' = Append(down, id) /\ server.token = d /\ server.st \in {"hello", "ready"}
  <2>n. PICK n \in Nat \ {0} : n = Len(down) + 1
    BY DEF Types, WireTypes
  <2>1. /\ Len(down') = n /\ n \in Nat /\ down'[n] = id
        /\ DOMAIN down = 1 .. n - 1 /\ DOMAIN down' = 1 .. n
        /\ \A i \in 1 .. n - 1 : down'[i] = down[i]
    BY <2>n, <1>3, <1>12, AppendProperties DEF Types, WireTypes
  <2>2. id # Welcome
    BY <1>1, <1>3, Numbers DEF Welcome
  <2>3. \A k \in 1 .. n : counts(k)' <=> counts(k)
    BY <1>2, <2>1 DEF counts
  <2>4. \A c : \A k \in 1 .. n : beforeMessage(c, k)' <=> beforeMessage(c, k)
    BY <1>2, <1>9, <2>1, <2>3 DEF beforeMessage
  <2>5. server.st = "hello" => ~counts(n)
    BY <2>n, <2>1 DEF Session, counts
  <2>6. server.st = "ready" => counts(n) /\ \A c \in owed(link.token) : beforeMessage(c, n)
    BY <2>n DEF AllSent
  <2>7. MessagesGapless'
    <3> SUFFICES ASSUME NEW k \in DOMAIN down', down'[k] # Welcome, counts(k)',
                        NEW c \in owed(link.token)', c < down'[k]
                 PROVE  beforeMessage(c, k)'
      BY DEF MessagesGapless
    <3>1. CASE k \in 1 .. n - 1
      <4>1. down'[k] = down[k] /\ k \in DOMAIN down /\ down[k] \in Issued /\ k \in 1 .. n /\ counts(k)
        BY <1>6, <2>1, <2>3, <3>1
      <4>2. c \in owed(link.token)
        BY <1>2, <1>7, <4>1
      <4> QED
        BY <2>4, <4>1, <4>2 DEF MessagesGapless
    <3>2. CASE k = n
      <4>1. counts(n) /\ server.st = "ready" /\ n \in 1 .. n
        BY <1>12, <2>1, <2>3, <2>5, <3>2
      <4>2. c \in owed(link.token)
        BY <1>1, <1>2, <1>3, <2>1, <3>2
      <4> QED
        BY <2>4, <2>6, <3>2, <4>1, <4>2
    <3> QED
      BY <2>1, <3>1, <3>2
  <2>8. AllSent'
    <3>k. PICK k \in Nat : k = Len(down') + 1 /\ k = n + 1
      BY <2>1
    <3> SUFFICES ASSUME server.st = "ready"
                 PROVE  /\ counts(Len(down) + 1)'
                        /\ \A c \in owed(link.token)' : beforeMessage(c, Len(down) + 1)'
      BY <1>2 DEF AllSent
    <3>1. n \in 1 .. n /\ counts(n)'
      <4>1. n \in 1 .. n
        OBVIOUS
      <4> QED
        BY <2>3, <2>6, <4>1
    <3>2. counts(k)'
      BY <3>k, <2>1, <3>1 DEF counts
    <3>3. \A c : beforeMessage(c, n) => beforeMessage(c, k)'
      BY <3>k, <1>9, <1>2, <2>1, <2>3 DEF beforeMessage
    <3>4. beforeMessage(id, k)'
      BY <3>k, <2>1, <3>1 DEF beforeMessage
    <3>5. counts(k)' => counts(Len(down) + 1)'
      BY <3>k DEF counts
    <3>6. \A c : beforeMessage(c, k)' => beforeMessage(c, Len(down) + 1)'
      BY <3>k DEF beforeMessage
    <3> QED
      BY <1>1, <1>2, <2>6, <3>2, <3>3, <3>4, <3>5, <3>6
  <2> QED
    BY <1>8, <1>10, <2>7, <2>8
<1> QED
  BY <1>2, <1>11, <1>12

\* Nothing counts as sent before the welcome.
LEMMA ServeHelloGapless ==
  ASSUME Types, Types', Owned, Session, Epochs, Ahead, KeptInQueue, Spared, NoGap, ServeHello
  PROVE  NoGap'
<1> USE DEF NoGap
<1>1. /\ UNCHANGED <<issuedTo, down, link, jobs, cur, epoch, taken, stale, passedOver, revoked>>
      /\ server.st = "new" /\ server'.st = "hello"
  BY DEF ServeHello, worker, history, Types, WireTypes
<1>2. \A d : owed(d)' \subseteq owed(d)
  BY <1>1, OwedShrinks
<1>3. CurFirst' /\ JobsGapless' /\ \A c, k : beforeJob(c, k)' <=> beforeJob(c, k)
  BY <1>1, <1>2, ChainStays
<1>4. \A k : ~counts(k)' \/ k \notin DOMAIN down'
  BY <1>1 DEF counts, Session, Types, WireTypes
<1> QED
  BY <1>1, <1>3, <1>4 DEF MessagesGapless, AllSent

\* Behind the welcome the whole queue is sent, in order.
LEMMA ServeWelcomeGapless ==
  ASSUME Types, Types', Owned, Session, Epochs, Ahead, KeptInQueue, Spared, NoGap, ServeWelcome
  PROVE  NoGap'
<1> USE DEF NoGap
<1> DEFINE q == queue[link.token]
           s == inOrder(q)
<1>n. PICK n \in Nat \ {0} : n = Len(down) + 1
  BY DEF Types, WireTypes
<1>1. /\ UNCHANGED <<issuedTo, link, jobs, cur, epoch, taken, stale, passedOver, revoked>>
      /\ server.token = link.token /\ server.token \in Device /\ server.st = "hello" /\ link.phase = "open"
      /\ \A i \in DOMAIN down : down[i] # Welcome
  BY DEF ServeWelcome, relay, worker, history, Session, Types, WireTypes
<1>2. down' = (down \o <<Welcome>>) \o s
  BY <1>1 DEF ServeWelcome
<1>3. q \in SUBSET Cmd /\ owed(link.token) \subseteq q
  BY <1>1 DEF Types, RelayTypes, KeptInQueue
<1>4. /\ s \in Seq(q)
      /\ \A c \in q : \E i \in 1 .. Len(s) : s[i] = c
      /\ \A i, e \in 1 .. Len(s) : i < e <=> s[i] < s[e]
  BY <1>3, InOrder
<1>5. \A d : owed(d)' \subseteq owed(d)
  BY <1>1, OwedShrinks
<1>6. CurFirst' /\ JobsGapless'
  BY <1>1, <1>5, ChainStays
<1> HIDE DEF s, q
<1>7. /\ n \in Nat /\ Len(s) \in Nat /\ Len(down') = n + Len(s) /\ DOMAIN down' = 1 .. n + Len(s)
      /\ \A i \in 1 .. n - 1 : down'[i] = down[i]
      /\ down'[n] = Welcome
      /\ \A i \in 1 .. Len(s) : down'[n + i] = s[i]
  <2> DEFINE w == down \o <<Welcome>>
  <2>1. /\ w \in Seq(Cmd \cup {Welcome}) /\ Len(w) = n
        /\ \A i \in 1 .. Len(down) : w[i] = down[i]
        /\ w[n] = Welcome /\ Len(down) \in Nat
    BY <1>n DEF Types, WireTypes
  <2>2. s \in Seq(Cmd \cup {Welcome}) /\ Len(s) \in Nat
    BY <1>3, <1>4
  <2> HIDE DEF w
  <2>3. /\ Len(w \o s) = Len(w) + Len(s)
        /\ \A i \in 1 .. Len(w) + Len(s) : (w \o s)[i] = IF i <= Len(w) THEN w[i] ELSE s[i - Len(w)]
    BY <2>1, <2>2, ConcatProperties
  <2>4. down' = w \o s
    BY <1>2 DEF w
  <2> QED
    BY <1>n, <2>1, <2>2, <2>3, <2>4 DEF Types, WireTypes
<1>8. \A k \in 1 .. n + Len(s) + 1 : counts(k)' <=> k > n
  <2> TAKE k \in 1 .. n + Len(s) + 1
  <2>1. counts(k)' <=> \E i \in 1 .. k - 1 : down'[i] = Welcome
    BY <1>1 DEF counts
  <2>2. CASE k > n
    BY <1>7, <2>1, <2>2
  <2>3. CASE k <= n
    <3>1. \A i \in 1 .. k - 1 : i \in DOMAIN down /\ down'[i] = down[i]
      <4>1. DOMAIN down = 1 .. n - 1
        BY <1>n DEF Types, WireTypes
      <4>2. \A i \in 1 .. k - 1 : i \in 1 .. n - 1
        BY <1>7, <2>3
      <4> QED
        BY <1>7, <4>1, <4>2
    <3> QED
      BY <1>1, <1>7, <2>1, <2>3, <3>1
  <2> QED
    BY <1>7, <2>2, <2>3
<1>9. \A c \in owed(link.token) : \E i \in 1 .. Len(s) : s[i] = c /\ n + i \in 1 .. n + Len(s) /\ down'[n + i] = c /\ counts(n + i)'
  <2> TAKE c \in owed(link.token)
  <2>1. PICK i \in 1 .. Len(s) : s[i] = c
    BY <1>3, <1>4
  <2>2. n + i \in 1 .. n + Len(s) /\ n + i \in 1 .. n + Len(s) + 1 /\ n + i > n
    BY <1>7
  <2>3. counts(n + i)'
    BY <1>8, <2>2
  <2> QED
    BY <1>7, <2>1, <2>2, <2>3
<1>10. MessagesGapless'
  <2> SUFFICES ASSUME NEW k \in DOMAIN down', down'[k] # Welcome, counts(k)',
                      NEW c \in owed(link.token)', c < down'[k]
               PROVE  beforeMessage(c, k)'
    BY DEF MessagesGapless
  <2>1. PICK i \in 1 .. Len(s) : s[i] = c /\ n + i \in 1 .. n + Len(s) /\ down'[n + i] = c /\ counts(n + i)'
    BY <1>1, <1>5, <1>9
  <2>2. k > n /\ k - n \in 1 .. Len(s) /\ n + (k - n) = k
    <3>1. k \in 1 .. n + Len(s) /\ k \in 1 .. n + Len(s) + 1
      BY <1>7
    <3>2. k > n
      BY <1>8, <3>1
    <3> QED
      BY <1>7, <3>1, <3>2
  <2>3. down'[k] = s[k - n]
    BY <1>7, <2>2
  <2>4. i < k - n
    BY <1>4, <2>1, <2>2, <2>3
  <2>5. n + i \in 1 .. k - 1
    BY <1>7, <2>1, <2>2, <2>4
  <2> QED
    BY <2>1, <2>5 DEF beforeMessage
<1>11. AllSent'
  <2>1. counts(Len(down) + 1)'
    <3>1. PICK k \in Nat : k = Len(down') + 1
      BY <1>7
    <3>2. counts(k)'
      BY <1>7, <1>8, <3>1
    <3> QED
      BY <3>1, <3>2 DEF counts
  <2>2. ASSUME NEW c \in owed(link.token)'
        PROVE  beforeMessage(c, Len(down) + 1)'
    <3>1. PICK i \in 1 .. Len(s) : s[i] = c /\ n + i \in 1 .. n + Len(s) /\ down'[n + i] = c /\ counts(n + i)'
      BY <1>1, <1>5, <1>9
    <3>2. n + i \in 1 .. (Len(down') + 1) - 1
      BY <1>7, <3>1
    <3> QED
      BY <3>1, <3>2 DEF beforeMessage
  <2> QED
    BY <2>1, <2>2 DEF AllSent
<1> QED
  BY <1>6, <1>10, <1>11

\* The first message becomes the last job, or is one that does not count.
LEMMA HearGapless ==
  ASSUME Types, Types', Owned, Session, Epochs, Ahead, KeptInQueue, Spared, NoGap, Hear
  PROVE  NoGap'
<1> USE DEF NoGap
<1> DEFINE m == Head(down)
           j == [id |-> m, epoch |-> link.epoch, origin |-> link.token]
<1>1. /\ UNCHANGED <<issuedTo, server, cur, epoch, taken, stale, passedOver, revoked>>
      /\ link.phase \in {"open", "live"} /\ down # <<>> /\ down' = Tail(down)
  BY DEF Hear, relay, history
<1>2. \A d : owed(d)' \subseteq owed(d)
  BY <1>1, OwedShrinks
<1>3. /\ Len(down) \in Nat /\ Len(down) >= 1 /\ Len(down') = Len(down) - 1 /\ m = down[1]
      /\ \A i \in 1 .. Len(down') : down'[i] = down[i + 1]
      /\ DOMAIN down = 1 .. Len(down) /\ DOMAIN down' = 1 .. Len(down')
  BY <1>1, HeadTailProperties DEF Types, WireTypes
<1>4. current(link.epoch) /\ link.epoch = epoch
  BY <1>1 DEF Epochs, current
<1>5. \/ m = Welcome /\ link' = [link EXCEPT !.phase = "live"] /\ jobs' = jobs
      \/ m # Welcome /\ link.phase = "live" /\ link' = link /\ jobs' = Append(jobs, j)
      \/ m # Welcome /\ link.phase = "open" /\ link' = link /\ jobs' = jobs
  BY <1>1, <1>4 DEF Hear, receive
<1>6. /\ link'.token = link.token
      /\ link'.phase = "live" <=> link.phase = "live" \/ m = Welcome
  BY <1>1, <1>5 DEF Types, LinkTypes
<1>7. j.id = m /\ j.epoch = epoch /\ j.origin = link.token
  BY <1>4
<1> HIDE DEF m, j
<1>8. \A k \in 1 .. Len(down) : counts(k)' <=> counts(k + 1)
  <2> TAKE k \in 1 .. Len(down)
  <2>1. CASE m = Welcome \/ link.phase = "live"
    BY <1>3, <1>6, <2>1 DEF counts
  <2>2. CASE m # Welcome /\ link.phase # "live"
    <3>1. (\E i \in 1 .. k : down[i] = Welcome) <=> \E i \in 1 .. k - 1 : down[i + 1] = Welcome
      <4>1. ASSUME NEW i \in 1 .. k, down[i] = Welcome
            PROVE  \E e \in 1 .. k - 1 : down[e + 1] = Welcome
        <5>1. i # 1
          BY <1>3, <2>2, <4>1
        <5>2. i - 1 \in 1 .. k - 1 /\ down[(i - 1) + 1] = Welcome
          BY <1>3, <4>1, <5>1
        <5> QED
          BY <5>2
      <4>2. ASSUME NEW i \in 1 .. k - 1, down[i + 1] = Welcome
            PROVE  \E e \in 1 .. k : down[e] = Welcome
        BY <1>3, <4>2
      <4> QED
        BY <4>1, <4>2
    <3>2. \A i \in 1 .. k - 1 : down'[i] = down[i + 1]
      BY <1>3
    <3>3. counts(k + 1) <=> \E i \in 1 .. k : down[i] = Welcome
      BY <1>3, <2>2 DEF counts
    <3>4. counts(k)' <=> \E i \in 1 .. k - 1 : down'[i] = Welcome
      BY <1>6, <2>2 DEF counts
    <3> QED
      BY <3>1, <3>2, <3>3, <3>4
  <2> QED
    BY <2>1, <2>2
<1>9. \A c \in owed(link.token) : c < m /\ m # Welcome /\ link.phase = "live" => beforeJob(c, Len(jobs) + 1)
  <2> TAKE c \in owed(link.token)
  <2> HAVE c < m /\ m # Welcome /\ link.phase = "live"
  <2>1. beforeMessage(c, 1)
    BY <1>3 DEF MessagesGapless, counts
  <2> QED
    BY <2>1 DEF beforeMessage
<1>10. /\ JobsGapless'
       /\ \A c : beforeJob(c, Len(jobs) + 1) => beforeJob(c, Len(jobs) + 1)'
       /\ \A c : c = m /\ m # Welcome /\ link.phase = "live" => beforeJob(c, Len(jobs) + 1)'
  <2>1. CASE jobs' = jobs /\ (m = Welcome \/ link.phase = "open")
    BY <1>1, <1>2, <2>1, ChainStays
  <2>2. CASE m # Welcome /\ link.phase = "live" /\ jobs' = Append(jobs, j)
    <3>1. \A c \in owed(j.origin) : c < j.id => beforeJob(c, Len(jobs) + 1)
      BY <1>7, <1>9, <2>2
    <3>2. /\ JobsGapless'
          /\ \A c : beforeJob(c, Len(jobs) + 1) => beforeJob(c, Len(jobs) + 1)'
          /\ \A c : j.epoch = epoch /\ c = j.id => beforeJob(c, Len(jobs) + 1)'
      BY <1>1, <1>2, <2>2, <3>1, JobAdded
    <3> QED
      BY <1>7, <3>2
  <2> QED
    BY <1>5, <2>1, <2>2
<1>11. CurFirst'
  BY <1>1, <1>2 DEF CurFirst
<1>12. \A d : \A c \in owed(d) : \A k \in 1 .. Len(down) : beforeMessage(c, k + 1) => beforeMessage(c, k)'
  <2> SUFFICES ASSUME NEW d, NEW c \in owed(d), NEW k \in 1 .. Len(down), beforeMessage(c, k + 1)
               PROVE  beforeMessage(c, k)'
    OBVIOUS
  <2>1. CASE beforeJob(c, Len(jobs) + 1)
    BY <1>10, <2>1 DEF beforeMessage
  <2>2. CASE \E i \in 1 .. k : down[i] = c /\ counts(i)
    <3>1. PICK i \in 1 .. k : down[i] = c /\ counts(i)
      BY <2>2
    <3>2. CASE i = 1
      <4>1. m = c /\ link.phase = "live" /\ c # Welcome
        BY <1>3, <3>1, <3>2, Numbers DEF counts, Welcome
      <4> QED
        BY <1>10, <4>1 DEF beforeMessage
    <3>3. CASE i # 1
      <4>1. i - 1 \in 1 .. k - 1 /\ i - 1 \in 1 .. Len(down') /\ (i - 1) + 1 = i
        BY <1>3, <3>1, <3>3
      <4>2. down'[i - 1] = c
        BY <1>3, <3>1, <4>1
      <4>3. counts(i - 1)'
        BY <1>3, <1>8, <3>1, <4>1
      <4> QED
        BY <4>1, <4>2, <4>3 DEF beforeMessage
    <3> QED
      BY <3>2, <3>3
  <2> QED
    BY <2>1, <2>2 DEF beforeMessage
<1>13. MessagesGapless'
  <2> SUFFICES ASSUME NEW k \in DOMAIN down', down'[k] # Welcome, counts(k)',
                      NEW c \in owed(link.token)', c < down'[k]
               PROVE  beforeMessage(c, k)'
    BY DEF MessagesGapless
  <2>1. /\ k \in 1 .. Len(down) /\ k + 1 \in DOMAIN down /\ down'[k] = down[k + 1] /\ counts(k + 1)
    BY <1>3, <1>8
  <2>2. c \in owed(link.token)
    BY <1>2, <1>6
  <2>3. beforeMessage(c, k + 1)
    BY <2>1, <2>2 DEF MessagesGapless
  <2> QED
    BY <1>12, <2>1, <2>2, <2>3
<1>14. AllSent'
  <2>1. Len(down) \in 1 .. Len(down) /\ Len(down') + 1 = Len(down)
    BY <1>3
  <2>2. counts(Len(down) + 1) => counts(Len(down) + 1)'
    BY <1>8, <2>1
  <2>3. \A c \in owed(link.token) : beforeMessage(c, Len(down) + 1) => beforeMessage(c, Len(down) + 1)'
    BY <1>12, <2>1
  <2> QED
    BY <1>1, <1>2, <1>6, <2>2, <2>3 DEF AllSent
<1> QED
  BY <1>10, <1>11, <1>13, <1>14

\* The poll's answer is the first owed of its device.
LEMMA PollAnswerGapless ==
  ASSUME Types, Types', Owned, Session, Epochs, Ahead, KeptInQueue, Spared, NoGap, PollAnswer
  PROVE  NoGap'
<1> USE DEF NoGap
<1> DEFINE j == [id |-> link.cmd, epoch |-> link.epoch, origin |-> link.token]
<1>1. UNCHANGED <<issuedTo, cur, epoch, taken, stale, passedOver, revoked>>
  BY DEF PollAnswer, relay, history
<1>2. down' = <<>> /\ server'.st # "ready" /\ link.phase = "reply"
  BY DEF PollAnswer, Session
<1>3. \A d : owed(d)' \subseteq owed(d)
  BY <1>1, OwedShrinks
<1>4. CASE jobs' = jobs
  BY <1>1, <1>2, <1>3, <1>4, ChainStays, NothingSent
<1>5. CASE link.cmd # 0 /\ jobs' = Append(jobs, j)
  <2>1. \A c \in owed(link.token) : ~(c < link.cmd)
    <3> TAKE c \in owed(link.token)
    <3>1. link.cmd <= c /\ c \in Nat
      BY <1>2, <1>5, Numbers DEF Spared
    <3> QED
      BY <3>1, Numbers
  <2>2. j.origin = link.token /\ j.id = link.cmd
    OBVIOUS
  <2> HIDE DEF j
  <2>3. JobsGapless'
    BY <1>1, <1>3, <1>5, <2>1, <2>2, JobAdded
  <2>4. CurFirst'
    BY <1>1, <1>3 DEF CurFirst
  <2> QED
    BY <1>2, <2>3, <2>4, NothingSent
<1> QED
  BY <1>4, <1>5 DEF PollAnswer, receive

\* The first job becomes the command under way.
LEMMA BeginGapless ==
  ASSUME Types, Types', Owned, Session, Epochs, Ahead, KeptInQueue, Spared, NoGap, Begin
  PROVE  NoGap'
<1> USE DEF NoGap
<1>1. /\ UNCHANGED <<issuedTo, server, down, link, epoch, taken, stale, revoked>>
      /\ passedOver \subseteq passedOver' /\ jobs # <<>> /\ jobs' = Tail(jobs) /\ cur.pc = "idle"
  BY DEF Begin, onlyCur, relay, NoJob
<1>2. \A d : owed(d)' \subseteq owed(d)
  BY <1>1, OwedShrinks
<1>3. /\ Head(jobs) = jobs[1] /\ Len(jobs) \in Nat /\ Len(jobs') = Len(jobs) - 1 /\ Len(jobs) >= 1
      /\ \A i \in 1 .. Len(jobs') : jobs'[i] = jobs[i + 1]
      /\ DOMAIN jobs = 1 .. Len(jobs) /\ DOMAIN jobs' = 1 .. Len(jobs')
  BY <1>1, HeadTailProperties DEF Types, WorkTypes
<1> DEFINE j == jobs[1]
<1>4. \/ cur'.pc = "reading" /\ cur'.id = j.id /\ cur'.epoch = j.epoch /\ cur'.origin = j.origin /\ j.epoch = epoch
      \/ cur'.pc = "idle" /\ (j.epoch # epoch \/ j.id \in passedOver')
  BY <1>3 DEF Begin, current, NoJob
<1>5. j.id \in Nat
  BY <1>3, Numbers DEF Owned, OwnedWork
<1> HIDE DEF j
<1>6. \A d : \A c \in owed(d)' : \A k \in 1 .. Len(jobs) : beforeJob(c, k + 1) => beforeJob(c, k)'
  <2> SUFFICES ASSUME NEW d, NEW c \in owed(d)', NEW k \in 1 .. Len(jobs), beforeJob(c, k + 1)
               PROVE  beforeJob(c, k)'
    OBVIOUS
  <2>1. PICK i \in 1 .. k : jobs[i].id = c /\ jobs[i].epoch = epoch
    BY <1>1, <1>3 DEF beforeJob
  <2>2. CASE i = 1
    <3>1. j.id = c /\ j.epoch = epoch /\ c \notin passedOver'
      BY <2>1, <2>2 DEF j, owed
    <3> QED
      BY <1>1, <1>4, <3>1 DEF beforeJob
  <2>3. CASE i # 1
    <3>1. i - 1 \in 1 .. k - 1 /\ jobs'[i - 1] = jobs[i]
      BY <1>3, <2>1, <2>3
    <3> QED
      BY <1>1, <2>1, <3>1 DEF beforeJob
  <2> QED
    BY <2>2, <2>3
<1>7. CurFirst'
  <2> SUFFICES ASSUME cur'.pc \in {"reading", "read", "saving"}, NEW c \in owed(cur.origin)'
               PROVE  cur'.id <= c
    BY DEF CurFirst
  <2>1. cur'.id = j.id /\ j.epoch = epoch /\ cur'.origin = j.origin
    BY <1>4
  <2>2. c \in owed(j.origin) /\ c \in Nat
    BY <1>2, <2>1, Numbers
  <2>3. ~beforeJob(c, 1)
    BY <1>1 DEF beforeJob
  <2>4. ~(c < j.id)
    BY <1>3, <2>1, <2>2, <2>3 DEF JobsGapless, j
  <2> QED
    BY <1>5, <2>1, <2>2, <2>4
<1>8. JobsGapless'
  <2> SUFFICES ASSUME NEW k \in DOMAIN jobs', jobs'[k].epoch = epoch',
                      NEW c \in owed(jobs[k].origin)', c < jobs'[k].id
               PROVE  beforeJob(c, k)'
    BY DEF JobsGapless
  <2>1. /\ jobs'[k] = jobs[k + 1] /\ k + 1 \in DOMAIN jobs /\ k \in 1 .. Len(jobs)
        /\ c \in owed(jobs[k + 1].origin)
    BY <1>2, <1>3
  <2>2. beforeJob(c, k + 1)
    BY <1>1, <2>1 DEF JobsGapless
  <2> QED
    BY <1>6, <2>1, <2>2
<1>9. \A d : \A c \in owed(d)' : beforeJob(c, Len(jobs) + 1) => beforeJob(c, Len(jobs) + 1)'
  BY <1>3, <1>6
<1> QED
  BY <1>1, <1>2, <1>7, <1>8, <1>9, MessagesStay

\* Reading leaves the order alone.
LEMMA ReadStateGapless ==
  ASSUME Types, Types', Owned, Session, Epochs, Ahead, KeptInQueue, Spared, NoGap, ReadState
  PROVE  NoGap'
<1> USE DEF NoGap
<1>1. /\ UNCHANGED <<issuedTo, server, down, link, jobs, epoch>>
      /\ taken \subseteq taken' /\ stale \subseteq stale' /\ passedOver \subseteq passedOver' /\ revoked' = revoked
  BY DEF ReadState, history, onlyCur, relay
<1>2. \A d : owed(d)' \subseteq owed(d)
  BY <1>1, OwedShrinks
<1>3. /\ cur.pc = "reading" /\ cur'.pc = "read"
      /\ cur'.id = cur.id /\ cur'.epoch = cur.epoch /\ cur'.origin = cur.origin
  BY DEF ReadState, Types, WorkTypes, Taking
<1>4. CurFirst'
  BY <1>1, <1>2, <1>3 DEF CurFirst
<1>5. JobsGapless' /\ MessagesGapless' /\ AllSent'
  BY <1>1, <1>2, <1>3, TakingStep
<1> QED
  BY <1>4, <1>5

\* What goes on is still the first owed; what is given up is no longer owed.
LEMMA DecideGapless ==
  ASSUME Types, Types', Owned, Session, Epochs, Ahead, KeptInQueue, Spared, NoGap, Decide
  PROVE  NoGap'
<1> USE DEF NoGap
<1>1. /\ UNCHANGED <<issuedTo, server, down, link, jobs, epoch, stale, taken, revoked>>
      /\ passedOver \subseteq passedOver' /\ cur.pc = "read"
  BY DEF Decide, onlyCur, relay
<1>2. \A d : owed(d)' \subseteq owed(d)
  BY <1>1, OwedShrinks
<1>3. CASE mayTake(cur)
  <2>1. /\ cur'.pc = "saving" /\ cur'.id = cur.id /\ cur'.epoch = cur.epoch /\ cur'.origin = cur.origin
        /\ cur.epoch = epoch
    BY <1>3 DEF Decide, mayTake, current, Types, WorkTypes, Taking
  <2>2. CurFirst'
    BY <1>1, <1>2, <2>1 DEF CurFirst
  <2>3. JobsGapless' /\ MessagesGapless' /\ AllSent'
    BY <1>1, <1>2, <2>1, TakingStep
  <2> QED
    BY <2>2, <2>3
<1>4. CASE ~mayTake(cur)
  <2>1. cur'.pc = "idle"
    BY <1>4 DEF Decide, NoJob
  <2>2. ASSUME cur.epoch = epoch, NEW d, cur.id \in owed(d)'
        PROVE  FALSE
    <3>1. cur.id \in owed(d) /\ cur.id \notin passedOver' /\ d = cur.origin
      BY <1>1, <1>2, <2>2 DEF owed, Owned, OwnedWork
    <3>2. accepting /\ cur.on /\ cur.token = cur.origin
      BY <2>2, <3>1 DEF Decide
    <3>3. ~(cur.id > cur.cursor)
      BY <1>4, <2>2, <3>2 DEF mayTake, current
    <3>4. cur.origin \in Device /\ cur.origin # None
      BY <1>1, BoundsHold DEF Bounds, Types, WorkTypes
    <3>5. cur.cursor = cursor[cur.origin] /\ cursor[cur.origin] < cur.id
      BY <1>1, <3>1, <3>2, <3>4 DEF Ahead, Spared, Behind
    <3> QED
      BY <3>3, <3>5, Numbers
  <2>3. CurFirst'
    BY <2>1 DEF CurFirst
  <2>4. JobsGapless' /\ MessagesGapless' /\ AllSent'
    BY <1>1, <1>2, <2>2, TakingStep
  <2> QED
    BY <2>3, <2>4
<1> QED
  BY <1>3, <1>4

\* The command under way is no longer owed.
LEMMA SaveCursorGapless ==
  ASSUME Types, Types', Owned, Session, Epochs, Ahead, KeptInQueue, Spared, NoGap, SaveCursor
  PROVE  NoGap'
<1> USE DEF NoGap
<1>1. /\ UNCHANGED <<issuedTo, server, down, link, jobs, epoch, stale, passedOver, revoked>>
      /\ taken' = taken \cup {cur.id}
  BY DEF SaveCursor, relay
<1>2. \A d : owed(d)' \subseteq owed(d)
  BY <1>1, OwedShrinks
<1>3. \A d : cur.id \notin owed(d)'
  BY <1>1 DEF owed
<1>4. cur'.pc = "saved"
  BY DEF SaveCursor, Types, WorkTypes, Taking
<1>5. CurFirst'
  BY <1>4 DEF CurFirst
<1>6. JobsGapless' /\ MessagesGapless' /\ AllSent'
  BY <1>1, <1>2, <1>3, TakingStep
<1> QED
  BY <1>5, <1>6

\* What is given up is no longer owed.
LEMMA StorageErrorGapless ==
  ASSUME Types, Types', Owned, Session, Epochs, Ahead, KeptInQueue, Spared, NoGap, StorageError
  PROVE  NoGap'
<1> USE DEF NoGap
<1>1. /\ UNCHANGED <<issuedTo, server, down, link, jobs, epoch, stale, taken, revoked>>
      /\ passedOver' = passedOver \cup {cur.id}
  BY DEF StorageError, onlyCur, relay
<1>2. \A d : owed(d)' \subseteq owed(d)
  BY <1>1, OwedShrinks
<1>3. \A d : cur.id \notin owed(d)'
  BY <1>1 DEF owed
<1>4. cur'.pc = "idle"
  BY DEF StorageError, NoJob
<1>5. CurFirst'
  BY <1>4 DEF CurFirst
<1>6. JobsGapless' /\ MessagesGapless' /\ AllSent'
  BY <1>1, <1>2, <1>3, TakingStep
<1> QED
  BY <1>5, <1>6

\* The command under way was no longer owed.
LEMMA StartOrAnswerGapless ==
  ASSUME Types, Types', Owned, Session, Epochs, Ahead, KeptInQueue, Spared, NoGap, StartOrAnswer
  PROVE  NoGap'
<1> USE DEF NoGap
<1>1. /\ UNCHANGED <<issuedTo, server, down, link, jobs, epoch>>
      /\ taken \subseteq taken' /\ stale \subseteq stale' /\ passedOver \subseteq passedOver' /\ revoked' = revoked
  BY DEF StartOrAnswer, onlyCur, relay
<1>2. \A d : owed(d)' \subseteq owed(d)
  BY <1>1, OwedShrinks
<1>3. cur.pc = "saved" /\ cur'.pc \notin {"reading", "read", "saving"}
  BY DEF StartOrAnswer, NoJob, Types, WorkTypes, Taking
<1>4. CurFirst'
  BY <1>3 DEF CurFirst
<1>5. JobsGapless' /\ MessagesGapless' /\ AllSent'
  BY <1>1, <1>2, <1>3, TakingStep
<1> QED
  BY <1>4, <1>5

\* The command under way was no longer owed.
LEMMA AnswerGapless ==
  ASSUME Types, Types', Owned, Session, Epochs, Ahead, KeptInQueue, Spared, NoGap, Answer
  PROVE  NoGap'
<1> USE DEF NoGap
<1>1. /\ UNCHANGED <<issuedTo, server, down, link, jobs, epoch>>
      /\ taken \subseteq taken' /\ stale \subseteq stale' /\ passedOver \subseteq passedOver' /\ revoked' = revoked
  BY DEF Answer, onlyCur, relay
<1>2. \A d : owed(d)' \subseteq owed(d)
  BY <1>1, OwedShrinks
<1>3. cur.pc = "running" /\ cur'.pc \notin {"reading", "read", "saving"}
  BY DEF Answer, NoJob, Types, WorkTypes, Taking
<1>4. CurFirst'
  BY <1>3 DEF CurFirst
<1>5. JobsGapless' /\ MessagesGapless' /\ AllSent'
  BY <1>1, <1>2, <1>3, TakingStep
<1> QED
  BY <1>4, <1>5

\* In a new epoch nothing counts, and the socket is gone.
LEMMA OnChangedGapless ==
  ASSUME Types, Types', Owned, Session, Epochs, Ahead, KeptInQueue, Spared, NoGap, OnChanged
  PROVE  NoGap'
<1> USE DEF NoGap
<1>1. /\ UNCHANGED <<issuedTo, jobs, cur, taken, stale, passedOver, revoked>> /\ epoch' = epoch + 1
  BY DEF OnChanged, relay, history
<1>2. down' = <<>> /\ server'.st # "ready"
  BY DEF OnChanged, disconnected, NoServer, Session
<1>3. \A d : owed(d)' \subseteq owed(d)
  BY <1>1, OwedShrinks
<1>4. cur.epoch # epoch' /\ \A i \in DOMAIN jobs : jobs[i].epoch # epoch'
  BY <1>1, EpochTypes DEF Epochs
<1>5. CurFirst' /\ JobsGapless'
  BY <1>1, <1>3, <1>4 DEF CurFirst, JobsGapless
<1> QED
  BY <1>2, <1>5, NothingSent

\* Nothing is on its way.
LEMMA KillGapless ==
  ASSUME Types, Types', Owned, Session, Epochs, Ahead, KeptInQueue, Spared, NoGap, Kill
  PROVE  NoGap'
<1> USE DEF NoGap
<1>1. /\ jobs' = <<>> /\ cur'.pc = "idle" /\ down' = <<>> /\ server'.st # "ready"
  BY DEF Kill, disconnected, NoServer, NoJob
<1>2. CurFirst' /\ JobsGapless'
  BY <1>1 DEF CurFirst, JobsGapless
<1> QED
  BY <1>1, <1>2, NothingSent

\* No step overtakes something owed.
LEMMA GaplessStep ==
  ASSUME Types, Types', Owned, Session, Epochs, Ahead, KeptInQueue, Spared, NoGap, Next
  PROVE  NoGap'
<1>1. ASSUME NEW d \in Device, Enqueue(d) PROVE NoGap'
  BY <1>1, EnqueueGapless
<1>2. ASSUME NEW d \in Device, Expire(d) PROVE NoGap'
  BY <1>2, NoGapStays DEF Expire, worker, history
<1>3. ASSUME NEW id \in Cmd, Age(id) PROVE NoGap'
  BY <1>3, NoGapStays DEF Age, worker, history
<1>4. ASSUME NEW a \in acks, ReceiveAck(a) PROVE NoGap'
  BY <1>4, NoGapStays DEF ReceiveAck, worker, history
<1>5. CASE ServeHello
  BY <1>5, ServeHelloGapless
<1>6. CASE ServeWelcome
  BY <1>6, ServeWelcomeGapless
<1>7. CASE ServePoll
  BY <1>7, NoSocket DEF ServePoll, history, Session
<1>8. CASE Connect
  BY <1>8, NoSocket DEF Connect, relay, history, Session
<1>9. CASE OpenSocket
  BY <1>9, NoSocket DEF OpenSocket, relay, history, disconnected, NoServer
<1>10. CASE StartPoll
  BY <1>10, NoSocket DEF StartPoll, relay, history, Session
<1>11. CASE Hear
  BY <1>11, HearGapless
<1>12. CASE PollAnswer
  BY <1>12, PollAnswerGapless
<1>13. CASE PollHandled
  BY <1>13, NoSocket DEF PollHandled, relay, history, Session
<1>14. CASE Disconnect
  BY <1>14, NoSocket DEF Disconnect, relay, disconnected, NoServer
<1>15. CASE Begin
  BY <1>15, BeginGapless
<1>16. CASE ReadState
  BY <1>16, ReadStateGapless
<1>17. CASE Decide
  BY <1>17, DecideGapless
<1>18. CASE SaveCursor
  BY <1>18, SaveCursorGapless
<1>19. CASE StorageError
  BY <1>19, StorageErrorGapless
<1>20. CASE StartOrAnswer
  BY <1>20, StartOrAnswerGapless
<1>21. CASE Answer
  BY <1>21, AnswerGapless
<1>22. CASE Toggle
  BY <1>22, NoGapStays DEF Toggle, changeStorage, relay, worker
<1>23. CASE ChangePolicy
  BY <1>23, NoGapStays DEF ChangePolicy, changeStorage, relay, worker
<1>24. ASSUME NEW d \in Device, Register(d) PROVE NoGap'
  BY <1>24, NoGapStays DEF Register, changeStorage, relay, worker
<1>27. CASE Unregister
  BY <1>27, NoGapStays DEF Unregister, changeStorage, relay, worker
<1>28. CASE RemoveToken
  BY <1>28, NoGapStays DEF RemoveToken, changeStorage, relay, worker
<1>29. CASE HearClose
  BY <1>29, NoSocket DEF HearClose, relay, history, disconnected, NoServer
<1>30. ASSUME NEW d \in Device, Revoke(d) PROVE NoGap'
  BY <1>30, NoGapStays DEF Revoke, worker, NoServer
<1>25. CASE OnChanged
  BY <1>25, OnChangedGapless
<1>26. CASE Kill
  BY <1>26, KillGapless
<1> QED
  BY <1>1, <1>2, <1>3, <1>4, <1>5, <1>6, <1>7, <1>8, <1>9, <1>10, <1>11, <1>12, <1>13, <1>14,
     <1>15, <1>16, <1>17, <1>18, <1>19, <1>20, <1>21, <1>22, <1>23, <1>24, <1>25, <1>26,
     <1>27, <1>28, <1>29, <1>30
     DEF Next, RelayStep, ConnectionStep, TakeStep, ControlStep

-----------------------------------------------------------------------------
(* What is of the present epoch was received since *)

\* A command received now joins the chain, and those received since the change.
LEMMA ReceiveFresh ==
  ASSUME Types, Fresh, NEW id, receive(id), UNCHANGED <<cur, epoch>>
  PROVE  Fresh'
<1> DEFINE j == [id |-> id, epoch |-> link.epoch, origin |-> link.token]
<1>1. jobs' = Append(jobs, j) /\ delivered' = delivered \cup {id} /\ j.id = id /\ jobs \in Seq(Job)
  BY DEF receive, Types, WorkTypes
<1> HIDE DEF j
<1>2. \A i \in DOMAIN jobs' : jobs'[i] = j \/ (i \in DOMAIN jobs /\ jobs'[i] = jobs[i])
  BY <1>1
<1> QED
  BY <1>1, <1>2 DEF Fresh

\* A job that begins is still of its epoch.
LEMMA BeginFresh ==
  ASSUME Types, Fresh, Begin
  PROVE  Fresh'
<1>1. /\ jobs # <<>> /\ jobs' = Tail(jobs) /\ jobs \in Seq(Job) /\ UNCHANGED <<epoch, delivered>>
  BY DEF Begin, onlyCur, Types, WorkTypes
<1>2. /\ \A i \in DOMAIN jobs' : i + 1 \in DOMAIN jobs /\ jobs'[i] = jobs[i + 1]
      /\ 1 \in DOMAIN jobs /\ Head(jobs) = jobs[1]
  BY <1>1
<1> DEFINE j == jobs[1]
<1>3. cur'.pc = "idle" \/ (cur'.id = j.id /\ cur'.epoch = j.epoch)
  BY <1>2 DEF Begin, NoJob
<1> HIDE DEF j
<1>4. j.epoch = epoch => j.id \in delivered
  BY <1>2 DEF Fresh, j
<1> QED
  BY <1>1, <1>2, <1>3, <1>4 DEF Fresh

\* After a change that was heard, no work is of the new epoch; after a death
\* there is none.
LEMMA ForgottenFresh ==
  ASSUME Types, Epochs, Fresh, OnChanged \/ Kill
  PROVE  Fresh'
<1>1. CASE OnChanged
  <2>1. epoch' = epoch + 1 /\ UNCHANGED <<jobs, cur>>
    BY <1>1 DEF OnChanged
  <2> QED
    BY <2>1, EpochTypes DEF Fresh, Epochs
<1>2. CASE Kill
  <2>1. DOMAIN jobs' = {} /\ cur'.pc = "idle"
    BY <1>2 DEF Kill, NoJob
  <2> QED
    BY <2>1 DEF Fresh
<1> QED
  BY <1>1, <1>2

\* Every step keeps it.
LEMMA FreshStep ==
  ASSUME Types, Types', Epochs, Fresh, Next
  PROVE  Fresh'
<1>1. CASE UNCHANGED <<jobs, cur, epoch, delivered>>
  BY <1>1 DEF Fresh
<1>2. CASE Hear
  <2>1. UNCHANGED <<jobs, delivered>> \/ receive(Head(down))
    BY <1>2 DEF Hear
  <2> QED
    BY <1>1, <1>2, <2>1, ReceiveFresh DEF Hear
<1>3. CASE PollAnswer
  <2>1. UNCHANGED <<jobs, delivered>> \/ receive(link.cmd)
    BY <1>3 DEF PollAnswer
  <2> QED
    BY <1>1, <1>3, <2>1, ReceiveFresh DEF PollAnswer
<1>4. CASE Begin
  BY <1>4, BeginFresh
<1>5. CASE ReadState \/ Decide \/ SaveCursor \/ StorageError \/ StartOrAnswer \/ Answer
  <2>1. cur \in Taking /\ NoJob.pc = "idle" /\ UNCHANGED <<jobs, epoch, delivered>>
    BY <1>5, NoJobType DEF Types, WorkTypes, ReadState, Decide, SaveCursor, StorageError, StartOrAnswer, Answer, onlyCur, history
  <2>2. cur' = NoJob \/ (cur.pc # "idle" /\ cur'.id = cur.id /\ cur'.epoch = cur.epoch)
    BY <1>5, <2>1 DEF ReadState, Decide, SaveCursor, StorageError, StartOrAnswer, Answer, Taking
  <2> QED
    BY <2>1, <2>2 DEF Fresh
<1>6. CASE OnChanged \/ Kill
  BY <1>6, ForgottenFresh
<1>7. \/ Hear \/ PollAnswer \/ Begin \/ ReadState \/ Decide \/ SaveCursor \/ StorageError \/ StartOrAnswer \/ Answer
      \/ OnChanged \/ Kill \/ UNCHANGED <<jobs, cur, epoch, delivered>>
  BY DEF Next, RelayStep, ConnectionStep, TakeStep, ControlStep, worker, history, Toggle, ChangePolicy, Register, Unregister,
     RemoveToken, changeStorage, Enqueue, Age, Expire, ReceiveAck, Revoke, ServeHello, ServeWelcome, ServePoll, Connect,
     OpenSocket, StartPoll, HearClose, PollHandled, Disconnect
<1> QED
  BY <1>1, <1>2, <1>3, <1>4, <1>5, <1>6, <1>7

-----------------------------------------------------------------------------
(* The theorems *)

\* The inductive invariant.
DeliveryInv == Types /\ Owned /\ Session /\ Epochs /\ Ahead /\ Heard /\ KeptInQueue /\ Spared /\ NoGap /\ Fresh

\* The invariant holds at the start.
LEMMA DeliveryInit ==
  ASSUME Init
  PROVE  DeliveryInv
<1> USE BoundsHold DEF Bounds
<1>1. /\ issuedTo = <<>> /\ Issued = {} /\ DOMAIN jobs = {} /\ DOMAIN down = {}
      /\ link.phase = "none" /\ link.epoch = 0 /\ server.st = "closed" /\ cur.pc = "idle" /\ cur.epoch = 0
  BY DEF Init, Issued, NoLink, NoServer, NoJob
<1>2. Types
  <2>1. RelayTypes /\ WireTypes
    BY EmptySeq DEF Init, RelayTypes, WireTypes, NoServer
  <2>2. StorageTypes
    <3>1. changes \in Seq(SUBSET {"pause", "resume", "settings"})
      BY EmptySeq DEF Init
    <3>2. leaving \in BOOLEAN /\ enabled \in BOOLEAN /\ token \in Device
      BY DEF Init
    <3>3. cursor \in [Device -> 0 .. MaxCmd]
      BY DEF Init
    <3> QED
      BY <3>1, <3>2, <3>3 DEF StorageTypes
  <2>3. LinkTypes
    BY DEF Init, LinkTypes, NoLink
  <2>4. WorkTypes
    BY NoJobType, EmptySeq DEF Init, WorkTypes
  <2>5. HistoryTypes
    BY DEF Init, HistoryTypes
  <2> QED
    BY <2>1, <2>2, <2>3, <2>4, <2>5 DEF Types
<1>3. Owned
  BY <1>1 DEF Init, Owned, OwnedQueue, OwnedMessages, OwnedWork
<1>4. Session /\ Epochs
  BY <1>1 DEF Init, Session, Epochs
<1>5. Ahead
  BY <1>1 DEF Init, Ahead
<1>6. Heard
  BY <1>1 DEF Heard
<1>7. \A d : owed(d) = {}
  BY <1>1 DEF owed
<1>8. KeptInQueue /\ Spared
  BY <1>1, <1>7 DEF Init, KeptInQueue, Spared, Behind
<1>9. NoGap
  BY <1>1 DEF NoGap, CurFirst, JobsGapless, MessagesGapless, AllSent
<1>10. Fresh
  BY <1>1 DEF Fresh
<1> QED
  BY <1>2, <1>3, <1>4, <1>5, <1>6, <1>8, <1>9, <1>10 DEF DeliveryInv

\* Every step keeps the invariant.
LEMMA DeliveryStep ==
  ASSUME DeliveryInv, [Next]_vars
  PROVE  DeliveryInv'
<1>1. CASE Next
  <2>1. Types'
    BY <1>1, TypesStep DEF DeliveryInv
  <2>2. Owned' /\ Session' /\ Epochs'
    BY <1>1, <2>1, SessionStep DEF DeliveryInv
  <2>3. Ahead' /\ Heard'
    BY <1>1, <2>1, HeardStep DEF DeliveryInv
  <2>4. KeptInQueue' /\ Spared'
    BY <1>1, <2>1, SparedStep DEF DeliveryInv, NoGap
  <2>5. NoGap'
    BY <1>1, <2>1, GaplessStep DEF DeliveryInv
  <2>6. Fresh'
    BY <1>1, <2>1, FreshStep DEF DeliveryInv
  <2> QED
    BY <2>1, <2>2, <2>3, <2>4, <2>5, <2>6 DEF DeliveryInv
<1>2. CASE UNCHANGED vars
  <2>1. /\ UNCHANGED <<queue, issuedTo, stale, server, down, acks, enabled, token, cursor, changes>>
        /\ UNCHANGED <<epoch, accepting, link, jobs, cur>>
        /\ UNCHANGED <<revoked, leaving, delivered, taken, starts, answered, killed, passedOver, paired, used>>
    BY <1>2 DEF vars, relay, storage, worker, history
  <2>2. Types'
    BY <2>1, TypesStay DEF DeliveryInv, Types, relay, storage, history
  <2>3. Owned' /\ Session' /\ Epochs'
    BY <2>1 DEF DeliveryInv, Owned, OwnedQueue, OwnedMessages, OwnedWork, Session, Epochs, Issued
  <2>4. Ahead' /\ Heard'
    BY <2>1 DEF DeliveryInv, Ahead, Heard, pendingChange, Issued
  <2>5. KeptInQueue' /\ Spared'
    BY <2>1, SparedStays DEF DeliveryInv
  <2>6. NoGap'
    BY <2>1, NoGapStays DEF DeliveryInv
  <2>7. Fresh'
    BY <2>1 DEF DeliveryInv, Fresh
  <2> QED
    BY <2>2, <2>3, <2>4, <2>5, <2>6, <2>7 DEF DeliveryInv
<1> QED
  BY <1>1, <1>2

\* The invariant holds whatever the interleaving, the losses and the deaths.
THEOREM DeliverySafe == Spec => []DeliveryInv
<1>1. Init => DeliveryInv
  BY DeliveryInit
<1>2. DeliveryInv /\ [Next]_vars => DeliveryInv'
  BY DeliveryStep
<1> QED
  BY <1>1, <1>2, PTL DEF Spec

\* Every variable keeps its type.
THEOREM DeliveryTypes == Spec => []TypeOK
<1>1. DeliveryInv => TypeOK
  BY DEF DeliveryInv, Types, RelayTypes, WireTypes, StorageTypes, LinkTypes, WorkTypes, HistoryTypes,
     TypeOK, Job, Taking
<1> QED
  BY <1>1, DeliverySafe, PTL

\* A command that was neither taken nor old, of a device that is not revoked,
\* leaves its queue only if it was passed over (worker.js acknowledges what a
\* cursor or an ack says).
THEOREM LostOnlyPassedOver == Spec => []OnlyPassedOverIsLost
<1>1. DeliveryInv => OnlyPassedOverIsLost
  <2> SUFFICES ASSUME DeliveryInv, NEW id \in Issued, id \notin taken \cup stale \cup passedOver, issuedTo[id] \notin revoked
               PROVE  id \in queue[issuedTo[id]]
    BY DEF OnlyPassedOverIsLost
  <2>1. issuedTo[id] \in Device
    BY DEF DeliveryInv, Types, RelayTypes, Issued
  <2>2. id \in owed(issuedTo[id])
    BY DEF owed
  <2> QED
    BY <2>1, <2>2 DEF DeliveryInv, KeptInQueue
<1> QED
  BY <1>1, DeliverySafe, PTL

\* A browser action begins once, and after it none of an earlier command of
\* its device.
THEOREM StartsInOrder == Spec => StartsOnceInOrder
<1> DEFINE Once == \A id \in Issued : starts'[id] > starts[id] =>
                     \A j \in Issued : j >= id /\ issuedTo[j] = issuedTo[id] => starts[j] = 0
<1>1. DeliveryInv /\ [Next]_vars => [Once]_vars
  <2> SUFFICES ASSUME DeliveryInv, [Next]_vars, NEW id \in Issued, starts'[id] > starts[id],
                      NEW j \in Issued, j >= id, issuedTo[j] = issuedTo[id]
               PROVE  starts[j] = 0
    OBVIOUS
  <2>1. id \in Cmd /\ j \in Cmd /\ starts[id] \in Nat /\ starts[j] \in Nat
    BY Numbers DEF DeliveryInv, Types, HistoryTypes
  <2>2. starts' # starts
    BY <2>1
  <2>3. StartOrAnswer
    BY <2>2 DEF Next, RelayStep, ConnectionStep, TakeStep, ControlStep, vars, history, changeStorage,
       Enqueue, Age, Expire, ReceiveAck, Revoke, ServeHello, ServeWelcome, ServePoll, Connect, OpenSocket,
       StartPoll, Hear, HearClose, receive, PollAnswer, PollHandled, Disconnect, Begin, ReadState, Decide, SaveCursor,
       StorageError, Answer, Toggle, ChangePolicy, Register, Unregister, RemoveToken, OnChanged, Kill
  <2>4. cur.pc = "saved" /\ id = cur.id
    BY <2>1, <2>3 DEF StartOrAnswer, DeliveryInv, Types, HistoryTypes
  <2>5. issuedTo[id] = cur.token
    BY <2>4 DEF DeliveryInv, Owned, OwnedWork, Ahead
  <2>6. starts[j] > 0 => j < cur.id
    BY <2>1, <2>4, <2>5 DEF DeliveryInv, Ahead
  <2> QED
    BY <2>1, <2>4, <2>6, Numbers DEF DeliveryInv
<1> QED
  BY <1>1, DeliverySafe, PTL DEF Spec, StartsOnceInOrder

\* What starts was received since the worker last heard of a change, and was
\* read in a state that still holds, or whose change is still to be heard.
THEOREM NothingStartsAfterControl == Spec => QuietAfterControl
<1> DEFINE Quiet == \A id \in Issued : starts'[id] > starts[id] =>
                      /\ id \in delivered
                      /\ enabled \/ pendingChange("pause")
                      /\ token = issuedTo[id] \/ pendingChange("settings")
<1>1. DeliveryInv /\ [Next]_vars => [Quiet]_vars
  <2> SUFFICES ASSUME DeliveryInv, [Next]_vars, NEW id \in Issued, starts'[id] > starts[id]
               PROVE  /\ id \in delivered
                      /\ enabled \/ pendingChange("pause")
                      /\ token = issuedTo[id] \/ pendingChange("settings")
    OBVIOUS
  <2>1. id \in Cmd /\ starts[id] \in Nat
    BY Numbers DEF DeliveryInv, Types, HistoryTypes
  <2>2. starts' # starts
    BY <2>1
  <2>3. StartOrAnswer
    BY <2>2 DEF Next, RelayStep, ConnectionStep, TakeStep, ControlStep, vars, history, changeStorage,
       Enqueue, Age, Expire, ReceiveAck, Revoke, ServeHello, ServeWelcome, ServePoll, Connect, OpenSocket,
       StartPoll, Hear, HearClose, receive, PollAnswer, PollHandled, Disconnect, Begin, ReadState, Decide, SaveCursor,
       StorageError, Answer, Toggle, ChangePolicy, Register, Unregister, RemoveToken, OnChanged, Kill
  <2>4. cur.pc = "saved" /\ id = cur.id /\ cur.epoch = epoch
    BY <2>1, <2>2, <2>3 DEF StartOrAnswer, current, DeliveryInv, Types, HistoryTypes
  <2>5. issuedTo[id] = cur.token /\ cur.on
    BY <2>4 DEF DeliveryInv, Owned, OwnedWork, Ahead
  <2> QED
    BY <2>4, <2>5 DEF DeliveryInv, Heard, Fresh
<1> QED
  BY <1>1, DeliverySafe, PTL DEF Spec, QuietAfterControl

\* A command whose cursor was saved has a result, or is being run, or died with
\* the worker.
THEOREM TakenAnswered == Spec => []TakenIsAnswered
<1>1. Init => TakenIsAnswered
  BY DEF Init, TakenIsAnswered
<1>2. DeliveryInv /\ TakenIsAnswered /\ [Next]_vars => TakenIsAnswered'
  <2> SUFFICES ASSUME DeliveryInv, TakenIsAnswered, [Next]_vars PROVE TakenIsAnswered'
    OBVIOUS
  <2>1. CASE Begin
    BY <2>1 DEF Begin, NoJob, TakenIsAnswered
  <2>2. CASE ReadState
    BY <2>2 DEF ReadState, history, TakenIsAnswered
  <2>3. CASE Decide
    BY <2>3 DEF Decide, TakenIsAnswered
  <2>4. CASE SaveCursor
    BY <2>4 DEF SaveCursor, TakenIsAnswered, Types
  <2>5. CASE StorageError
    BY <2>5 DEF StorageError, TakenIsAnswered
  <2>6. CASE StartOrAnswer
    BY <2>6 DEF StartOrAnswer, TakenIsAnswered, DeliveryInv, Types, WorkTypes, Taking
  <2>7. CASE Answer
    BY <2>7 DEF Answer, TakenIsAnswered
  <2>8. CASE Kill
    BY <2>8 DEF Kill, TakenIsAnswered
  <2>9. CASE UNCHANGED <<cur, taken, answered, killed>>
    BY <2>9 DEF TakenIsAnswered
  <2> QED
    BY <2>1, <2>2, <2>3, <2>4, <2>5, <2>6, <2>7, <2>8, <2>9 DEF Next, RelayStep, ConnectionStep, TakeStep,
       ControlStep, vars, worker, history, changeStorage, Enqueue, Age, Expire, ReceiveAck, Revoke, ServeHello,
       ServeWelcome, ServePoll, Connect, OpenSocket, StartPoll, Hear, HearClose, receive, PollAnswer, PollHandled, Disconnect,
       Toggle, ChangePolicy, Register, Unregister, RemoveToken, OnChanged
<1> QED
  BY <1>1, <1>2, DeliverySafe, PTL DEF Spec
-----------------------------------------------------------------------------
(* At most one control change *)

\* Nothing has been paused or paired anew.
Untouched == enabled /\ paired = {token} /\ changes = <<>> /\ ~leaving /\ accepting

\* What the worker holds was delivered to a device the extension was paired with.
HeldIsPaired ==
  /\ token \in paired \cup {None}
  /\ link.phase # "none" => link.token \in paired
  /\ \A i \in DOMAIN jobs : jobs[i].origin \in paired
  /\ cur.pc # "idle" => cur.origin \in paired

\* Commands for d are not taken.
shut(d) == ~enabled \/ token # d

\* What the worker goes by when it passes a command over is so.
ShutIsSo ==
  /\ ~accepting => ~enabled \/ token = None
  /\ pendingChange("pause") \/ leaving => ~enabled
  /\ cur.pc = "read" /\ ~(cur.on /\ cur.token = cur.origin) => shut(cur.origin)

\* What was passed over for d.
waiting(d) == {c \in passedOver : issuedTo[c] = d /\ d \notin revoked} \ (taken \cup stale)

\* A command for d that was passed over is still queued, and nothing behind it
\* is taken or acknowledged.
Waits(c, d) ==
  /\ used.control = 1 /\ shut(d)
  /\ c \in queue[d] /\ cursor[d] < c
  /\ \A a \in acks : a.token = d => a.seq < c
  /\ link.phase \in {"ticket", "open", "poll"} /\ link.token = d => link.after < c
  /\ cur.pc = "read" /\ cur.token = d => ~cur.on
  /\ cur.pc \in {"saving", "saved"} => cur.token # d

PassedOverWaits == \A d \in Device : \A c \in waiting(d) : Waits(c, d)

Held == (used.control = 0 => Untouched) /\ HeldIsPaired /\ passedOver \subseteq Issued

OneChange == used.control <= 1 => ShutIsSo /\ PassedOverWaits

\* What counts as a control change.
Change == Toggle \/ ChangePolicy \/ (\E d \in Device : Register(d)) \/ Unregister \/ (token \in Device /\ Revoke(token))

\* Control changes are counted.
LEMMA ControlCounts ==
  ASSUME Types, Types', [Next]_vars
  PROVE  /\ used.control \in Nat /\ used'.control \in Nat /\ used.control <= used'.control
         /\ \/ UNCHANGED <<used, enabled, token, paired, changes, leaving>>
            \/ used'.control = used.control /\ UNCHANGED <<enabled, token, paired, leaving>>
            \/ used'.control = used.control /\ RemoveToken
            \/ used'.control = used.control + 1 /\ Change
<1>1. used \in [control : 0 .. MaxControl, kills : 0 .. MaxKills, drops : 0 .. MaxDrops] /\ used.control \in Nat /\ used'.control \in Nat
  BY BoundsHold DEF Bounds, Types, HistoryTypes
<1>2. CASE Change
  <2>1. used' = [used EXCEPT !.control = used.control + 1]
    BY <1>2 DEF Change, Toggle, ChangePolicy, Register, Unregister, Revoke, countControl
  <2>. QED BY <1>1, <1>2, <2>1
<1>3. CASE OnChanged
  BY <1>1, <1>3 DEF OnChanged, history
<1>4. CASE Kill
  <2>1. used' = [used EXCEPT !.kills = @ + 1] /\ UNCHANGED <<enabled, token, paired, leaving>>
    BY <1>4 DEF Kill
  <2>. QED BY <1>1, <2>1
<1>5. CASE Disconnect
  <2>1. used' = [used EXCEPT !.drops = @ + 1] /\ UNCHANGED <<enabled, token, paired, leaving>>
    BY <1>5 DEF Disconnect, storage
  <2>. QED BY <1>1, <2>1
<1>6. CASE UNCHANGED <<used, enabled, token, paired, changes, leaving>>
  BY <1>1, <1>6
<1>7. RemoveToken => used'.control = used.control
  BY DEF RemoveToken
<1>8. ASSUME NEW d \in Device, Revoke(d) PROVE Change \/ UNCHANGED <<used, enabled, token, paired, changes, leaving>>
  BY <1>8 DEF Change, Revoke, storage
<1>9. Change \/ OnChanged \/ Kill \/ Disconnect \/ RemoveToken \/ UNCHANGED <<used, enabled, token, paired, changes, leaving>>
  BY <1>8 DEF Change, Next, RelayStep, ConnectionStep, TakeStep, ControlStep, vars, history, storage, onlyCur,
     Enqueue, Age, Expire, ReceiveAck, ServeHello, ServeWelcome, ServePoll, Connect, OpenSocket, StartPoll, Hear, HearClose, receive, PollAnswer,
     PollHandled, Begin, ReadState, Decide, SaveCursor, StorageError, StartOrAnswer, Answer
<1> QED
  BY <1>1, <1>2, <1>3, <1>4, <1>5, <1>6, <1>7, <1>9

\* Until the first control change the extension is as it was paired.
LEMMA UntouchedStep ==
  ASSUME Types, Types', used.control = 0 => Untouched, [Next]_vars
  PROVE  used'.control = 0 => Untouched'
<1> SUFFICES ASSUME used'.control = 0 PROVE Untouched'
  OBVIOUS
<1>1. used.control = 0 /\ Untouched
  BY ControlCounts
<1>2. UNCHANGED <<enabled, token, paired, leaving>>
  <2>1. used'.control # used.control + 1
    BY <1>1
  <2>2. ~RemoveToken
    BY <1>1 DEF Untouched, RemoveToken
  <2> QED
    BY <2>1, <2>2, ControlCounts
<1>3. changes' = <<>>
  <2>0. ~Change /\ ~RemoveToken
    <3>1. used \in [control : 0 .. MaxControl, kills : 0 .. MaxKills, drops : 0 .. MaxDrops]
      BY DEF Types, HistoryTypes
    <3>2. used' # [used EXCEPT !.control = used.control + 1]
      BY <1>1, <3>1
    <3> QED
      BY <1>1, <3>2 DEF Change, Toggle, ChangePolicy, Register, Unregister, Revoke, countControl, RemoveToken, Untouched
  <2>1. UNCHANGED changes \/ Disconnect \/ Kill \/ OnChanged
    BY <2>0 DEF Change, Next, RelayStep, ConnectionStep, TakeStep, ControlStep, vars, history, storage, onlyCur,
       Enqueue, Age, Expire, ReceiveAck, Revoke, ServeHello, ServeWelcome, ServePoll, Connect, OpenSocket, StartPoll, Hear, HearClose, receive, PollAnswer,
       PollHandled, Begin, ReadState, Decide, SaveCursor, StorageError, StartOrAnswer, Answer
  <2> QED
    BY <1>1, <2>1 DEF Untouched, Disconnect, Kill, OnChanged, storage
<1>4. accepting'
  <2>1. token \in Device /\ token # None
    BY <1>1, BoundsHold DEF Bounds, Untouched, Types, HistoryTypes
  <2>2. ~OnChanged
    BY <1>1 DEF OnChanged, Untouched
  <2>3. CASE Connect
    BY <1>1, <2>1, <2>3 DEF Connect, Untouched
  <2>4. CASE Kill
    BY <2>4 DEF Kill
  <2>5. UNCHANGED accepting \/ Connect \/ Kill
    BY <2>2 DEF Next, RelayStep, ConnectionStep, TakeStep, ControlStep, vars, worker, onlyCur, Toggle, ChangePolicy, Register, Unregister, RemoveToken, changeStorage,
       Enqueue, Age, Expire, ReceiveAck, Revoke, ServeHello, ServeWelcome, ServePoll, OpenSocket, StartPoll, Hear, HearClose, receive, PollAnswer,
       PollHandled, Disconnect, Begin, ReadState, Decide, SaveCursor, StorageError, StartOrAnswer, Answer
  <2> QED
    BY <1>1, <2>3, <2>4, <2>5 DEF Untouched
<1> QED
  BY <1>1, <1>2, <1>3, <1>4 DEF Untouched

\* A session, a poll and the work they schedule belong to a device the
\* extension stored.
LEMMA HeldIsPairedStep ==
  ASSUME Types, Types', HeldIsPaired, [Next]_vars
  PROVE  HeldIsPaired'
<1>1. paired \subseteq paired' /\ token' \in paired' \cup {None}
  <2>1. CASE UNCHANGED <<token, paired>>
    BY <2>1 DEF HeldIsPaired
  <2>2. CASE RemoveToken \/ \E d \in Device : Register(d)
    BY <2>2 DEF Register, RemoveToken, HeldIsPaired
  <2>3. UNCHANGED <<token, paired>> \/ RemoveToken \/ \E d \in Device : Register(d)
    BY ControlCounts DEF Change, Toggle, ChangePolicy, Unregister, Revoke, storage
  <2> QED
    BY <2>1, <2>2, <2>3
<1>2. link'.phase # "none" => link'.token \in paired
  <2>1. CASE Connect
    <3> DEFINE r == [NoLink EXCEPT !.phase = "ticket", !.token = token, !.after = cursor[token], !.epoch = epoch]
    <3>1. (token # None /\ link' = r) \/ link' = NoLink
      BY <2>1 DEF Connect
    <3>2. NoLink.phase = "none" /\ r.token = token
      BY DEF NoLink
    <3> HIDE DEF r
    <3> QED
      BY <3>1, <3>2 DEF HeldIsPaired
  <2>2. CASE StartPoll
    <3> DEFINE r == [NoLink EXCEPT !.phase = "poll", !.token = token, !.after = cursor[token], !.epoch = epoch]
    <3>1. (token # None /\ link' = r) \/ link' = NoLink
      BY <2>2 DEF StartPoll
    <3>2. NoLink.phase = "none" /\ r.token = token
      BY DEF NoLink
    <3> HIDE DEF r
    <3> QED
      BY <3>1, <3>2 DEF HeldIsPaired
  <2>3. CASE link' = link \/ link'.phase = "none" \/ (link.phase # "none" /\ link'.token = link.token)
    BY <2>3 DEF HeldIsPaired
  <2>4. CASE ServePoll
    <3>1. link'.token = link.token /\ link.phase # "none"
      BY <2>4 DEF ServePoll, Types, LinkTypes
    <3> QED
      BY <2>3, <3>1
  <2>5. CASE OpenSocket \/ Hear \/ HearClose \/ PollAnswer \/ PollHandled \/ Disconnect \/ OnChanged \/ Kill
    <3>1. NoLink.phase = "none" /\ (OpenSocket => link.phase = "ticket") /\ (Hear => link.phase # "none") /\ (PollAnswer => link.phase = "reply")
      BY DEF NoLink, OpenSocket, Hear, PollAnswer
    <3>2. link' = link \/ link' = NoLink \/ (link.phase # "none" /\ \E p : link' = [link EXCEPT !.phase = p])
      BY <2>5, <3>1 DEF OpenSocket, Hear, HearClose, receive, PollAnswer, PollHandled, Disconnect, OnChanged, Kill, disconnected
    <3> QED
      BY <2>3, <3>1, <3>2 DEF Types, LinkTypes
  <2>6. UNCHANGED link \/ Connect \/ StartPoll \/ ServePoll \/ OpenSocket \/ Hear \/ HearClose \/ PollAnswer \/ PollHandled \/ Disconnect \/ OnChanged \/ Kill
    BY DEF Next, RelayStep, ConnectionStep, TakeStep, ControlStep, vars, worker, onlyCur, Toggle, ChangePolicy, Register, Unregister, RemoveToken, changeStorage,
       Enqueue, Age, Expire, ReceiveAck, Revoke, ServeHello, ServeWelcome, Begin, ReadState, Decide, SaveCursor, StorageError, StartOrAnswer, Answer
  <2> QED
    BY <2>1, <2>2, <2>3, <2>4, <2>5, <2>6
<1>3. \A i \in DOMAIN jobs' : jobs'[i].origin \in paired
  <2>0. jobs \in Seq(Job)
    BY DEF Types, WorkTypes
  <2>1. CASE UNCHANGED jobs
    BY <2>1 DEF HeldIsPaired
  <2>2. CASE jobs' = <<>>
    BY <2>2
  <2>3. CASE Begin
    <3>1. jobs' = Tail(jobs) /\ jobs # <<>>
      BY <2>3 DEF Begin
    <3>2. \A i \in DOMAIN jobs' : i + 1 \in DOMAIN jobs /\ jobs'[i] = jobs[i + 1]
      BY <2>0, <3>1
    <3> QED
      BY <3>2 DEF HeldIsPaired
  <2>4. ASSUME NEW j, jobs' = Append(jobs, j), j.origin = link.token, link.phase # "none"
        PROVE  \A i \in DOMAIN jobs' : jobs'[i].origin \in paired
    <3>1. \A i \in DOMAIN jobs' : i \in DOMAIN jobs \/ jobs'[i] = j
      BY <2>0, <2>4
    <3>2. \A i \in DOMAIN jobs : jobs'[i] = jobs[i]
      BY <2>0, <2>4
    <3> QED
      BY <2>4, <3>1, <3>2 DEF HeldIsPaired
  <2>5. CASE Hear
    <3> DEFINE j == [id |-> Head(down), epoch |-> link.epoch, origin |-> link.token]
    <3>1. jobs' = jobs \/ jobs' = Append(jobs, j)
      BY <2>5 DEF Hear, receive
    <3> QED
      BY <2>1, <2>4, <2>5, <3>1 DEF Hear
  <2>6. CASE PollAnswer
    <3> DEFINE j == [id |-> link.cmd, epoch |-> link.epoch, origin |-> link.token]
    <3>1. jobs' = jobs \/ jobs' = Append(jobs, j)
      BY <2>6 DEF PollAnswer, receive
    <3> QED
      BY <2>1, <2>4, <2>6, <3>1 DEF PollAnswer
  <2>7. UNCHANGED jobs \/ jobs' = <<>> \/ Begin \/ Hear \/ PollAnswer
    BY DEF HearClose, Next, RelayStep, ConnectionStep, TakeStep, ControlStep, vars, worker, onlyCur, Toggle, ChangePolicy, Register, Unregister, RemoveToken, changeStorage,
       Enqueue, Age, Expire, ReceiveAck, Revoke, ServeHello, ServeWelcome, ServePoll, Connect, OpenSocket, StartPoll,
       PollHandled, Disconnect, ReadState, Decide, SaveCursor, StorageError, StartOrAnswer, Answer, OnChanged, Kill
  <2> QED
    BY <2>1, <2>2, <2>3, <2>5, <2>6, <2>7
<1>4. cur'.pc # "idle" => cur'.origin \in paired
  <2>1. CASE cur' = NoJob \/ cur' = cur \/ (cur.pc # "idle" /\ cur'.origin = cur.origin)
    BY <2>1, NoJobType DEF HeldIsPaired
  <2>2. CASE Begin
    <3> DEFINE j == Head(jobs)
               r == [NoJob EXCEPT !.pc = "reading", !.id = j.id, !.epoch = j.epoch, !.origin = j.origin]
    <3>1. jobs # <<>> /\ (cur' = NoJob \/ cur' = r)
      BY <2>2 DEF Begin
    <3>2. 1 \in DOMAIN jobs /\ j = jobs[1]
      BY <3>1 DEF Types, WorkTypes
    <3>3. r.origin = j.origin
      BY DEF NoJob
    <3> HIDE DEF r
    <3> QED
      BY <2>1, <3>1, <3>2, <3>3 DEF HeldIsPaired
  <2>3. CASE ReadState \/ Decide \/ SaveCursor \/ StorageError \/ StartOrAnswer \/ Answer
    <3>1. cur \in Taking
      BY DEF Types, WorkTypes
    <3>2. cur' = NoJob \/ (cur.pc # "idle" /\ cur'.origin = cur.origin)
      BY <2>3, <3>1 DEF ReadState, Decide, SaveCursor, StorageError, StartOrAnswer, Answer, Taking
    <3> QED
      BY <2>1, <3>2
  <2>4. UNCHANGED cur \/ cur' = NoJob \/ Begin \/ ReadState \/ Decide \/ SaveCursor \/ StorageError \/ StartOrAnswer \/ Answer
    BY DEF Next, RelayStep, ConnectionStep, TakeStep, ControlStep, vars, worker, onlyCur, Toggle, ChangePolicy, Register, Unregister, RemoveToken, changeStorage,
       Enqueue, Age, Expire, ReceiveAck, Revoke, ServeHello, ServeWelcome, ServePoll, Connect, OpenSocket, StartPoll, Hear, HearClose, receive, PollAnswer,
       PollHandled, Disconnect, OnChanged, Kill
  <2> QED
    BY <2>1, <2>2, <2>3, <2>4
<1> QED
  BY <1>1, <1>2, <1>3, <1>4 DEF HeldIsPaired

\* After at most one change, the state that made the worker pass a command
\* over is the state that holds.
LEMMA ShutIsSoStep ==
  ASSUME Types, Types', Held, Epochs, used'.control <= 1, used.control <= 1 => ShutIsSo, [Next]_vars
  PROVE  ShutIsSo'
<1>0. /\ used.control \in Nat /\ used.control <= 1 /\ ShutIsSo /\ changes \in Seq(SUBSET {"pause", "resume", "settings"})
      /\ cur \in Taking /\ None \notin Device /\ paired \subseteq Device
  <2>1. used.control \in Nat /\ used.control <= 1 /\ ShutIsSo
    BY ControlCounts
  <2>2. changes \in Seq(SUBSET {"pause", "resume", "settings"}) /\ cur \in Taking /\ None \notin Device /\ paired \subseteq Device
    BY BoundsHold DEF Bounds, Types, StorageTypes, WorkTypes, HistoryTypes
  <2> QED
    BY <2>1, <2>2
<1>1. CASE \/ UNCHANGED <<used, enabled, token, paired, changes, leaving>>
           \/ used'.control = used.control /\ UNCHANGED <<enabled, token, paired, leaving>>
  <2>0. UNCHANGED <<enabled, token, leaving>>
    BY <1>1
  <2>1. pendingChange("pause")' => pendingChange("pause")
    <3>1. changes' = changes \/ changes' = <<>> \/ (changes # <<>> /\ changes' = Tail(changes))
      <4>1. CASE Change \/ RemoveToken
        <5>0. ~RemoveToken
          BY <1>1 DEF RemoveToken
        <5>1. used \in [control : 0 .. MaxControl, kills : 0 .. MaxKills, drops : 0 .. MaxDrops]
              /\ used' = [used EXCEPT !.control = used.control + 1]
          BY <4>1, <5>0 DEF Change, Toggle, ChangePolicy, Register, Unregister, Revoke, countControl, Types, HistoryTypes
        <5>2. used'.control = used.control + 1
          BY <5>1
        <5> QED
          BY <1>0, <1>1, <5>2
      <4> QED
        BY <4>1 DEF Change, Next, RelayStep, ConnectionStep, TakeStep, ControlStep, vars, storage, onlyCur, OnChanged, Kill,
           Enqueue, Age, Expire, ReceiveAck, Revoke, ServeHello, ServeWelcome, ServePoll, Connect, OpenSocket, StartPoll, Hear, HearClose, receive, PollAnswer,
           PollHandled, Disconnect, Begin, ReadState, Decide, SaveCursor, StorageError, StartOrAnswer, Answer
    <3>2. ASSUME changes # <<>>, changes' = Tail(changes), NEW i \in DOMAIN changes' PROVE \E k \in DOMAIN changes : changes'[i] = changes[k]
      <4>1. i + 1 \in DOMAIN changes /\ changes'[i] = changes[i + 1]
        BY <1>0, <3>2
      <4> QED
        BY <4>1
    <3> QED
      BY <3>1, <3>2 DEF pendingChange
  <2>2. ~accepting' => ~enabled \/ token = None
    <3>1. CASE Connect
      BY <3>1 DEF Connect
    <3>2. CASE OnChanged
      <4>1. "pause" \in Head(changes) => pendingChange("pause")
        <5>1. changes # <<>> => 1 \in DOMAIN changes /\ Head(changes) = changes[1]
          BY <1>0
        <5> QED
          BY <3>2, <5>1 DEF OnChanged, pendingChange
      <4>2. accepting /\ "pause" \notin Head(changes) => accepting'
        <5>1. accepting' = IF "pause" \in Head(changes) THEN FALSE ELSE "resume" \in Head(changes) \/ accepting
          BY <3>2 DEF OnChanged
        <5> QED
          BY <5>1, Zenon
      <4> QED
        BY <1>0, <4>1, <4>2 DEF ShutIsSo
    <3>3. CASE Kill
      BY <3>3 DEF Kill
    <3>4. UNCHANGED accepting \/ Connect \/ OnChanged \/ Kill
      BY DEF Next, RelayStep, ConnectionStep, TakeStep, ControlStep, vars, worker, onlyCur, Toggle, ChangePolicy, Register, Unregister, RemoveToken, changeStorage,
         Enqueue, Age, Expire, ReceiveAck, Revoke, ServeHello, ServeWelcome, ServePoll, OpenSocket, StartPoll, Hear, HearClose, receive, PollAnswer,
         PollHandled, Disconnect, Begin, ReadState, Decide, SaveCursor, StorageError, StartOrAnswer, Answer
    <3> QED
      BY <1>0, <3>1, <3>2, <3>3, <3>4 DEF ShutIsSo
  <2>3. cur'.pc = "read" /\ ~(cur'.on /\ cur'.token = cur'.origin) => ~enabled \/ token # cur'.origin
    <3>1. CASE ReadState
      <4> DEFINE n == IF token = None THEN 0 ELSE cursor[token]
      <4>1. cur' = [cur EXCEPT !.pc = "read", !.token = token, !.on = enabled, !.cursor = n]
        BY <3>1 DEF ReadState
      <4> HIDE DEF n
      <4>2. cur'.on = enabled /\ cur'.token = token
        BY <1>0, <4>1 DEF Taking
      <4> QED
        BY <4>2
    <3>2. CASE cur' = cur \/ cur'.pc # "read"
      BY <1>0, <3>2 DEF ShutIsSo, shut
    <3>3. CASE Begin \/ Decide \/ SaveCursor \/ StorageError \/ StartOrAnswer \/ Answer \/ Kill
      <4>1. NoJob.pc = "idle"
        BY NoJobType
      <4>2. cur'.pc # "read"
        BY <1>0, <3>3, <4>1 DEF Begin, Decide, SaveCursor, StorageError, StartOrAnswer, Answer, Kill, NoJob, Taking
      <4> QED
        BY <3>2, <4>2
    <3>4. UNCHANGED cur \/ ReadState \/ Begin \/ Decide \/ SaveCursor \/ StorageError \/ StartOrAnswer \/ Answer \/ Kill
      BY DEF Next, RelayStep, ConnectionStep, TakeStep, ControlStep, vars, worker, onlyCur, Toggle, ChangePolicy, Register, Unregister, RemoveToken, changeStorage,
         Enqueue, Age, Expire, ReceiveAck, Revoke, ServeHello, ServeWelcome, ServePoll, Connect, OpenSocket, StartPoll, Hear, HearClose, receive, PollAnswer,
         PollHandled, Disconnect, OnChanged
    <3> QED
      BY <3>1, <3>2, <3>3, <3>4
  <2>4. pendingChange("pause") \/ leaving => ~enabled
    BY <1>0 DEF ShutIsSo
  <2> QED
    BY <2>0, <2>1, <2>2, <2>3, <2>4 DEF ShutIsSo, shut
<1>2. CASE used'.control = used.control + 1 /\ Change
  <2>1. Untouched
    BY <1>0, <1>2 DEF Held
  <2>2. UNCHANGED <<accepting, cur>>
    BY <1>2 DEF Change, Toggle, ChangePolicy, Register, Unregister, Revoke, changeStorage, worker
  <2>3. pendingChange("pause")' => ~enabled'
    <3>1. CASE Toggle
      BY <2>1, <3>1 DEF Toggle, Untouched
    <3>2. CASE ChangePolicy \/ \E d \in Device : Register(d)
      <4>1. changes' = Append(changes, {"settings"}) /\ changes = <<>>
        BY <2>1, <3>2 DEF ChangePolicy, Register, changeStorage, Untouched
      <4>2. \A i \in DOMAIN changes' : changes'[i] = {"settings"}
        BY <1>0, <4>1
      <4> QED
        BY <4>2 DEF pendingChange
    <3>3. CASE Unregister
      BY <3>3 DEF Unregister
    <3>4. CASE token \in Device /\ Revoke(token)
      <4>1. DOMAIN changes' = {}
        BY <2>1, <3>4 DEF Revoke, storage, Untouched
      <4> QED
        BY <4>1 DEF pendingChange
    <3> QED
      BY <1>2, <3>1, <3>2, <3>3, <3>4 DEF Change
  <2>5. leaving' => ~enabled'
    BY <1>2, <2>1 DEF Change, Toggle, ChangePolicy, Register, Unregister, Revoke, storage, Untouched
  <2>4. cur.pc = "read" /\ ~(cur.on /\ cur.token = cur.origin) => ~enabled' \/ token' # cur.origin
    <3>1. CASE Toggle
      BY <2>1, <3>1 DEF Toggle, Untouched
    <3>2. CASE ChangePolicy
      BY <1>0, <3>2 DEF ChangePolicy, ShutIsSo, shut
    <3>3. CASE \E d \in Device : Register(d)
      BY <3>3 DEF Register, Held, HeldIsPaired
    <3>4. CASE Unregister
      BY <3>4 DEF Unregister
    <3>5. CASE token \in Device /\ Revoke(token)
      BY <1>0, <3>5 DEF Revoke, storage, ShutIsSo, shut
    <3> QED
      BY <1>2, <3>1, <3>2, <3>3, <3>4, <3>5 DEF Change
  <2> QED
    BY <2>1, <2>2, <2>3, <2>4, <2>5 DEF ShutIsSo, shut, Untouched
<1>3. CASE used'.control = used.control /\ RemoveToken
  <2>1. ~enabled /\ ~enabled' /\ ~leaving' /\ UNCHANGED <<accepting, cur>>
    BY <1>0, <1>3 DEF RemoveToken, changeStorage, worker, ShutIsSo
  <2> QED
    BY <2>1 DEF ShutIsSo, shut
<1> QED
  BY <1>1, <1>2, <1>3, ControlCounts

\* Everything passed over was enqueued (takeAndRun).
LEMMA PassedOverIssued ==
  ASSUME Types, Types', Owned, passedOver \subseteq Issued, [Next]_vars
  PROVE  passedOver' \subseteq Issued'
<1>1. Issued \subseteq Issued'
  <2>1. CASE UNCHANGED issuedTo
    BY <2>1 DEF Issued
  <2>2. ASSUME NEW d \in Device, Enqueue(d) PROVE Issued \subseteq Issued'
    BY <2>2, OwedGrows DEF Issued
  <2> QED
    BY <2>1, <2>2 DEF Next, RelayStep, ConnectionStep, TakeStep, ControlStep, vars, relay, onlyCur, Toggle, ChangePolicy, Register, Unregister, RemoveToken,
       changeStorage, Age, Expire, ReceiveAck, Revoke, ServeHello, ServeWelcome, ServePoll, Connect, OpenSocket, StartPoll, Hear, HearClose, receive, PollAnswer,
       PollHandled, Disconnect, Begin, ReadState, Decide, SaveCursor, StorageError, StartOrAnswer, Answer, OnChanged, Kill
<1>2. passedOver' \subseteq Issued
  <2>1. CASE Begin
    <3>1. jobs # <<>> /\ jobs \in Seq(Job) => Head(jobs) = jobs[1] /\ 1 \in DOMAIN jobs
      OBVIOUS
    <3>2. Head(jobs).id \in Issued
      BY <2>1, <3>1 DEF Begin, Owned, OwnedWork, Types, WorkTypes
    <3> QED
      BY <2>1, <3>2 DEF Begin
  <2>2. CASE Decide \/ StorageError
    BY <2>2 DEF Decide, StorageError, Owned, OwnedWork
  <2> QED
    BY <2>1, <2>2 DEF Next, RelayStep, ConnectionStep, TakeStep, ControlStep, vars, history, onlyCur, Toggle, ChangePolicy, Register, Unregister, RemoveToken,
       changeStorage, Enqueue, Age, Expire, ReceiveAck, Revoke, ServeHello, ServeWelcome, ServePoll, Connect, OpenSocket, StartPoll, Hear, HearClose, receive, PollAnswer,
       PollHandled, Disconnect, ReadState, SaveCursor, StartOrAnswer, Answer, OnChanged, Kill
<1> QED
  BY <1>1, <1>2

\* What was waiting may be joined only by a command that is passed over now.
LEMMA WaitingStep ==
  ASSUME Types, Types', Owned, passedOver \subseteq Issued, ~StorageFails, [Next]_vars,
         NEW d \in Device, NEW c \in waiting(d)'
  PROVE  /\ c \in Issued /\ c \in Nat /\ d \notin revoked'
         /\ \/ c \in waiting(d)
            \/ c \in owed(d) /\ (Begin \/ Decide) /\ c \in passedOver'
<1>1. UNCHANGED issuedTo \/ (\E e \in Device : Enqueue(e))
  BY DEF Next, RelayStep, ConnectionStep, TakeStep, ControlStep, vars, relay, onlyCur, Toggle, ChangePolicy, Register, Unregister, RemoveToken,
     changeStorage, Age, Expire, ReceiveAck, Revoke, ServeHello, ServeWelcome, ServePoll, Connect, OpenSocket, StartPoll, Hear, HearClose, receive, PollAnswer,
     PollHandled, Disconnect, Begin, ReadState, Decide, SaveCursor, StorageError, StartOrAnswer, Answer, OnChanged, Kill
<1>2. taken \subseteq taken' /\ stale \subseteq stale' /\ revoked \subseteq revoked'
  BY DEF Next, RelayStep, ConnectionStep, TakeStep, ControlStep, vars, relay, history, onlyCur, Toggle, ChangePolicy, Register, Unregister, RemoveToken,
     changeStorage, Enqueue, Age, Expire, ReceiveAck, Revoke, ServeHello, ServeWelcome, ServePoll, Connect, OpenSocket, StartPoll, Hear, HearClose, receive, PollAnswer,
     PollHandled, Disconnect, Begin, ReadState, Decide, SaveCursor, StorageError, StartOrAnswer, Answer, OnChanged, Kill
<1>3. UNCHANGED passedOver \/ Begin \/ Decide
  BY DEF Next, RelayStep, ConnectionStep, TakeStep, ControlStep, vars, history, onlyCur, Toggle, ChangePolicy, Register, Unregister, RemoveToken,
     changeStorage, Enqueue, Age, Expire, ReceiveAck, Revoke, ServeHello, ServeWelcome, ServePoll, Connect, OpenSocket, StartPoll, Hear, HearClose, receive, PollAnswer,
     PollHandled, Disconnect, ReadState, SaveCursor, StorageError, StartOrAnswer, Answer, OnChanged, Kill
<1>4. c \in passedOver' /\ issuedTo'[c] = d /\ c \notin taken' /\ c \notin stale' /\ d \notin revoked'
  BY DEF waiting
<1>5. c \in Issued
  <2>1. CASE UNCHANGED issuedTo
    BY <1>4, <2>1, PassedOverIssued DEF Issued
  <2>2. CASE \E e \in Device : Enqueue(e)
    BY <1>4, <2>2 DEF Enqueue, history
  <2> QED
    BY <1>1, <2>1, <2>2
<1>6. issuedTo[c] = d /\ c \in Nat
  <2>1. CASE UNCHANGED issuedTo
    BY <1>4, <1>5, <2>1, Numbers
  <2>2. ASSUME NEW e \in Device, Enqueue(e) PROVE issuedTo[c] = d /\ c \in Nat
    BY <1>4, <1>5, <2>2, OwedGrows, Numbers
  <2> QED
    BY <1>1, <2>1, <2>2
<1>7. CASE c \in passedOver
  BY <1>2, <1>4, <1>5, <1>6, <1>7 DEF waiting
<1>8. CASE c \notin passedOver
  BY <1>2, <1>3, <1>4, <1>5, <1>6, <1>8 DEF owed
<1> QED
  BY <1>4, <1>5, <1>6, <1>7, <1>8

\* A command is passed over by a worker that goes by a state that holds, and
\* waits from then on (takeAndRun).
LEMMA PassedOverNow ==
  ASSUME DeliveryInv, Held, ShutIsSo, used.control <= 1, Begin \/ Decide,
         NEW d \in Device, NEW c \in owed(d), c \in passedOver'
  PROVE  Waits(c, d)'
<1>0. /\ Types /\ Owned /\ KeptInQueue /\ Spared
      /\ c \notin passedOver /\ c \in Issued /\ issuedTo[c] = d /\ cur \in Taking
      /\ used.control \in Nat
  BY BoundsHold DEF Bounds, DeliveryInv, owed, Types, WorkTypes, HistoryTypes
<1>1. cur' = NoJob /\ shut(d) /\ d \in paired
  <2>1. CASE Begin
    <3>1. c = Head(jobs).id /\ Head(jobs).epoch = epoch /\ ~accepting /\ jobs # <<>>
      BY <1>0, <2>1 DEF Begin
    <3>2. 1 \in DOMAIN jobs /\ Head(jobs) = jobs[1]
      BY <1>0, <3>1 DEF Types, WorkTypes
    <3>3. Head(jobs).origin = d /\ d \in paired
      BY <1>0, <3>1, <3>2 DEF Owned, OwnedWork, Held, HeldIsPaired
    <3>4. cur' = NoJob
      BY <2>1, <3>1 DEF Begin, current
    <3>5. d # None
      BY BoundsHold DEF Bounds
    <3> QED
      BY <3>1, <3>3, <3>4, <3>5 DEF ShutIsSo, shut
  <2>2. CASE Decide
    <3>1. c = cur.id /\ ~(accepting /\ cur.on /\ cur.token = cur.origin) /\ cur.pc = "read"
      BY <1>0, <2>2 DEF Decide
    <3>2. cur.origin = d /\ d \in paired /\ d # None
      BY <1>0, <3>1, BoundsHold DEF Bounds, Owned, OwnedWork, Held, HeldIsPaired
    <3>3. cur' = NoJob
      BY <2>2, <3>1 DEF Decide, mayTake, current
    <3> QED
      BY <3>1, <3>2, <3>3 DEF ShutIsSo, shut
  <2> QED
    BY <2>1, <2>2
<1>2. used.control = 1
  BY <1>0, <1>1 DEF Held, Untouched, shut
<1>3. c \in queue[d] /\ cursor[d] < c /\ (\A a \in acks : a.token = d => a.seq < c)
      /\ (link.phase \in {"ticket", "open", "poll"} /\ link.token = d => link.after < c)
  BY <1>0 DEF KeptInQueue, Spared, Behind
<1>4. UNCHANGED <<used, queue, cursor, acks, link, enabled, token>>
  BY DEF Begin, Decide, onlyCur, relay, storage
<1>5. cur'.pc = "idle"
  BY <1>1, NoJobType
<1> QED
  BY <1>1, <1>2, <1>3, <1>4, <1>5 DEF Waits, shut

\* What waits goes on waiting: no acknowledgement, poll or hello is of a cursor
\* behind it, and none of its device is taken.
LEMMA WaitsOn ==
  ASSUME Types, Types', Session, Ahead, used'.control <= 1, [Next]_vars,
         NEW d \in Device, NEW c \in Nat, c \notin stale, d \notin revoked', ShutIsSo, Waits(c, d)
  PROVE  Waits(c, d)'
<1>0. /\ used.control = 1 /\ shut(d) /\ c \in queue[d] /\ cursor[d] < c
      /\ \A a \in acks : a.token = d => a.seq < c
      /\ link.phase \in {"ticket", "open", "poll"} /\ link.token = d => link.after < c
      /\ cur.pc = "read" /\ cur.token = d => ~cur.on
      /\ cur.pc \in {"saving", "saved"} => cur.token # d
  BY DEF Waits
<1>1. used'.control = 1 /\ shut(d)'
  <2>1. used'.control = 1 /\ (UNCHANGED <<enabled, token>> \/ RemoveToken)
    BY <1>0, ControlCounts
  <2>2. RemoveToken => ~enabled'
    BY DEF RemoveToken, ShutIsSo
  <2> QED
    BY <1>0, <2>1, <2>2 DEF shut
<1>2. c \in queue'[d]
  <2>1. queue \in [Device -> SUBSET Cmd]
    BY DEF Types, RelayTypes
  <2>2. ASSUME NEW e, NEW n, queue' = unacked(queue, e, n), e = d => n < c PROVE c \in queue'[d]
    BY <1>0, <2>1, <2>2 DEF unacked
  <2>3. ASSUME NEW e \in Device, Enqueue(e) PROVE c \in queue'[d]
    BY <1>0, <2>1, <2>3 DEF Enqueue
  <2>4. ASSUME NEW e \in Device, Expire(e) PROVE c \in queue'[d]
    BY <1>0, <2>1, <2>4 DEF Expire
  <2>5. ASSUME NEW a \in acks, ReceiveAck(a) PROVE c \in queue'[d]
    BY <1>0, <2>2, <2>5 DEF ReceiveAck
  <2>6. CASE ServeHello
    BY <1>0, <2>2, <2>6 DEF ServeHello, Session
  <2>7. CASE ServePoll
    BY <1>0, <2>2, <2>7 DEF ServePoll
  <2>8. ASSUME NEW e \in Device, Revoke(e) PROVE c \in queue'[d]
    BY <1>0, <2>1, <2>8 DEF Revoke
  <2> QED
    BY <1>0, <2>3, <2>4, <2>5, <2>6, <2>7, <2>8 DEF Next, RelayStep, ConnectionStep, TakeStep, ControlStep, vars, relay, onlyCur,
       Toggle, ChangePolicy, Register, Unregister, RemoveToken, changeStorage, Age, ServeWelcome, Connect, OpenSocket, StartPoll, Hear, HearClose, receive, PollAnswer,
       PollHandled, Disconnect, Begin, ReadState, Decide, SaveCursor, StorageError, StartOrAnswer, Answer, OnChanged, Kill
<1>3. cursor'[d] < c
  <2>1. CASE SaveCursor
    BY <1>0, <2>1 DEF SaveCursor, Types, StorageTypes
  <2> QED
    BY <1>0, <2>1 DEF Next, RelayStep, ConnectionStep, TakeStep, ControlStep, vars, storage, onlyCur, Toggle, ChangePolicy, Register, Unregister, RemoveToken,
       changeStorage, Enqueue, Age, Expire, ReceiveAck, Revoke, ServeHello, ServeWelcome, ServePoll, Connect, OpenSocket, StartPoll, Hear, HearClose, receive, PollAnswer,
       PollHandled, Disconnect, Begin, ReadState, Decide, StorageError, StartOrAnswer, Answer, OnChanged, Kill
<1>4. \A a \in acks' : a.token = d => a.seq < c
  <2>1. CASE StartOrAnswer
    <3>1. cur.pc = "saved" /\ (acks' = acks \/ acks' = acks \cup {[token |-> cur.token, seq |-> cur.id]})
      BY <2>1 DEF StartOrAnswer, sendAck
    <3> QED
      BY <1>0, <3>1
  <2>2. acks' \subseteq acks \/ StartOrAnswer
    BY DEF Next, RelayStep, ConnectionStep, TakeStep, ControlStep, vars, onlyCur, Toggle, ChangePolicy, Register, Unregister, RemoveToken,
       changeStorage, Enqueue, Age, Expire, ReceiveAck, Revoke, ServeHello, ServeWelcome, ServePoll, Connect, OpenSocket, StartPoll, Hear, HearClose, receive, PollAnswer,
       PollHandled, Disconnect, Begin, ReadState, Decide, SaveCursor, StorageError, Answer, OnChanged, Kill
  <2> QED
    BY <1>0, <2>1, <2>2
<1>5. link'.phase \in {"ticket", "open", "poll"} /\ link'.token = d => link'.after < c
  <2>0. link.phase \in {"ticket", "open", "poll"} /\ link.token = d => link.after < c
    BY <1>0
  <2>1. ASSUME NEW phase, link' = [NoLink EXCEPT !.phase = phase, !.token = token, !.after = cursor[token], !.epoch = epoch]
        PROVE  link'.token = d => link'.after < c
    BY <1>0, <2>1 DEF NoLink
  <2>2. NoLink.phase = "none"
    BY DEF NoLink
  <2>3. CASE Connect
    BY <2>1, <2>2, <2>3 DEF Connect
  <2>4. CASE StartPoll
    BY <2>1, <2>2, <2>4 DEF StartPoll
  <2>5. CASE link'.phase \notin {"ticket", "open", "poll"} \/ link' = link
             \/ (link.phase = "ticket" /\ link'.token = link.token /\ link'.after = link.after)
    BY <2>0, <2>5
  <2>6. CASE OpenSocket
    BY <2>2, <2>5, <2>6 DEF OpenSocket, disconnected, Types, LinkTypes
  <2>7. CASE ServePoll
    BY <2>5, <2>7 DEF ServePoll, Types, LinkTypes
  <2>8. CASE Hear \/ HearClose \/ PollAnswer \/ PollHandled \/ Disconnect \/ OnChanged \/ Kill
    BY <2>2, <2>5, <2>8 DEF Hear, HearClose, receive, PollAnswer, PollHandled, Disconnect, OnChanged, Kill, disconnected, Types, LinkTypes
  <2>9. UNCHANGED link \/ Connect \/ StartPoll \/ ServePoll \/ OpenSocket \/ Hear \/ HearClose \/ PollAnswer \/ PollHandled \/ Disconnect \/ OnChanged \/ Kill
    BY DEF Next, RelayStep, ConnectionStep, TakeStep, ControlStep, vars, worker, onlyCur, Toggle, ChangePolicy, Register, Unregister, RemoveToken, changeStorage,
       Enqueue, Age, Expire, ReceiveAck, Revoke, ServeHello, ServeWelcome, Begin, ReadState, Decide, SaveCursor, StorageError, StartOrAnswer, Answer
  <2> QED
    BY <2>3, <2>4, <2>5, <2>6, <2>7, <2>8, <2>9
<1>6. /\ cur'.pc = "read" /\ cur'.token = d => ~cur'.on
      /\ cur'.pc \in {"saving", "saved"} => cur'.token # d
  <2>0. cur \in Taking /\ NoJob.pc = "idle"
    BY NoJobType DEF Types, WorkTypes
  <2>1. CASE cur' = cur \/ cur'.pc \notin {"read", "saving", "saved"}
    BY <1>0, <2>1
  <2>2. CASE ReadState
    <3> DEFINE n == IF token = None THEN 0 ELSE cursor[token]
    <3>1. cur' = [cur EXCEPT !.pc = "read", !.token = token, !.on = enabled, !.cursor = n]
      BY <2>2 DEF ReadState
    <3> HIDE DEF n
    <3>2. cur'.pc = "read" /\ cur'.on = enabled /\ cur'.token = token
      BY <2>0, <3>1 DEF Taking
    <3> QED
      BY <1>0, <3>2 DEF shut
  <2>3. CASE Decide
    <3>1. cur.pc = "read" /\ (cur' = NoJob \/ (cur.on /\ cur' = [cur EXCEPT !.pc = "saving"]))
      BY <2>3 DEF Decide, mayTake
    <3>2. CASE cur.on /\ cur' = [cur EXCEPT !.pc = "saving"]
      <4>1. cur'.pc = "saving" /\ cur'.token = cur.token
        BY <2>0, <3>2 DEF Taking
      <4> QED
        BY <1>0, <3>1, <3>2, <4>1
    <3> QED
      BY <2>0, <2>1, <3>1, <3>2
  <2>4. CASE SaveCursor
    <3>1. cur.pc = "saving" /\ cur'.pc = "saved" /\ cur'.token = cur.token
      BY <2>0, <2>4 DEF SaveCursor, Taking
    <3> QED
      BY <1>0, <3>1
  <2>5. CASE Begin \/ StorageError \/ StartOrAnswer \/ Answer \/ Kill
    <3>1. cur' = cur \/ cur'.pc \notin {"read", "saving", "saved"}
      BY <2>0, <2>5 DEF Begin, StorageError, StartOrAnswer, Answer, Kill, NoJob, Taking
    <3> QED
      BY <2>1, <3>1
  <2>6. UNCHANGED cur \/ Begin \/ ReadState \/ Decide \/ SaveCursor \/ StorageError \/ StartOrAnswer \/ Answer \/ Kill
    BY DEF Next, RelayStep, ConnectionStep, TakeStep, ControlStep, vars, worker, onlyCur, Toggle, ChangePolicy, Register, Unregister, RemoveToken, changeStorage,
       Enqueue, Age, Expire, ReceiveAck, Revoke, ServeHello, ServeWelcome, ServePoll, Connect, OpenSocket, StartPoll, Hear, HearClose, receive, PollAnswer,
       PollHandled, Disconnect, OnChanged
  <2> QED
    BY <2>1, <2>2, <2>3, <2>4, <2>5, <2>6
<1> QED
  BY <1>1, <1>2, <1>3, <1>4, <1>5, <1>6 DEF Waits

\* With at most one control change and a storage that works, what was passed
\* over waits.
LEMMA OneChangeStep ==
  ASSUME DeliveryInv, Held, OneChange, ~StorageFails, [Next]_vars
  PROVE  Held' /\ OneChange'
<1>1. DeliveryInv' /\ Types /\ Types' /\ Owned /\ Session /\ Epochs /\ Ahead
  BY DeliveryStep DEF DeliveryInv
<1>2. Held'
  BY <1>1, UntouchedStep, HeldIsPairedStep, PassedOverIssued DEF Held
<1>3. ASSUME used'.control <= 1 PROVE ShutIsSo' /\ PassedOverWaits'
  <2>1. used.control <= 1 /\ ShutIsSo /\ PassedOverWaits
    BY <1>1, <1>3, ControlCounts DEF OneChange
  <2>2. ShutIsSo'
    BY <1>1, <1>3, <2>1, ShutIsSoStep
  <2>3. ASSUME NEW d \in Device, NEW c \in waiting(d)' PROVE Waits(c, d)'
    <3>1. /\ c \in Issued /\ c \in Nat /\ d \notin revoked'
          /\ \/ c \in waiting(d)
             \/ c \in owed(d) /\ (Begin \/ Decide) /\ c \in passedOver'
      BY <1>1, <2>3, WaitingStep DEF Held
    <3>2. CASE c \in waiting(d)
      <4>1. Waits(c, d) /\ c \notin stale
        BY <2>1, <3>2 DEF PassedOverWaits, waiting
      <4> QED
        BY <1>1, <1>3, <2>1, <3>1, <4>1, WaitsOn
    <3>3. CASE c \in owed(d) /\ (Begin \/ Decide) /\ c \in passedOver'
      BY <2>1, <3>3, PassedOverNow
    <3> QED
      BY <3>1, <3>2, <3>3
  <2> QED
    BY <2>2, <2>3 DEF PassedOverWaits
<1> QED
  BY <1>2, <1>3 DEF OneChange

\* "A command that had not been taken stays on the relay" (README.md:108-109),
\* unless its device is revoked, as the device before a new pairing is: true
\* while storage works and the user pauses, resumes, pairs or changes a
\* setting at most once, whatever else happens.  A second change may hide the
\* first from the worker, which then passes a command over and takes a later
\* one; storage that rejects a call passes one over without any change.
THEOREM UntakenStays ==
  ASSUME ~StorageFails
  PROVE  Spec => [](used.control <= 1 => UntakenStaysQueued)
<1>1. Init => Held /\ OneChange
  <2> SUFFICES ASSUME Init PROVE Held /\ OneChange
    OBVIOUS
  <2>1. link.phase = "none" /\ cur.pc = "idle" /\ DOMAIN jobs = {} /\ DOMAIN changes = {} /\ used.control = 0
    BY DEF Init, NoLink, NoJob
  <2>2. Held
    BY <2>1 DEF Init, Held, Untouched, HeldIsPaired
  <2>3. ShutIsSo
    BY <2>1 DEF Init, ShutIsSo, pendingChange
  <2>4. PassedOverWaits
    BY DEF Init, PassedOverWaits, waiting
  <2> QED
    BY <2>2, <2>3, <2>4 DEF OneChange
<1>2. DeliveryInv /\ Held /\ OneChange /\ [Next]_vars => Held' /\ OneChange'
  BY OneChangeStep
<1>3. DeliveryInv /\ Held /\ OneChange => (used.control <= 1 => UntakenStaysQueued)
  <2> SUFFICES ASSUME DeliveryInv, PassedOverWaits, NEW id \in Issued, id \notin taken, id \notin stale,
                      issuedTo[id] \notin revoked
               PROVE  id \in queue[issuedTo[id]]
    BY DEF UntakenStaysQueued, OneChange
  <2>1. issuedTo[id] \in Device
    BY DEF DeliveryInv, Types, RelayTypes, Issued
  <2>2. CASE id \in passedOver
    BY <2>1, <2>2 DEF PassedOverWaits, waiting, Waits
  <2>3. CASE id \notin passedOver
    BY <2>1, <2>3 DEF owed, DeliveryInv, KeptInQueue
  <2> QED
    BY <2>2, <2>3
<1> QED
  BY <1>1, <1>2, <1>3, DeliverySafe, PTL DEF Spec

-----------------------------------------------------------------------------
(* The course of a command *)

\* What was taken is behind the cursor, and what has begun or ended was taken.
Counted ==
  /\ \A j \in taken : j \in Issued /\ j <= cursor[issuedTo[j]]
  /\ \A j \in Cmd : starts[j] > 0 \/ j \in answered \cup killed => j \in taken
  /\ \A j \in answered : j \notin killed

\* The command whose cursor was saved has not ended yet.
UnderWay ==
  /\ cur.pc \in {"saved", "running"} => cur.id \in taken /\ cur.id \notin answered \cup killed
  /\ cur.pc = "running" => starts[cur.id] > 0
  /\ cur.pc = "saved" => starts[cur.id] = 0

CourseInv == DeliveryInv /\ TakenIsAnswered /\ Counted /\ UnderWay

\* Nothing is taken, started or ended.
Unmoved ==
  /\ UNCHANGED <<taken, starts, answered, killed, cursor>>
  /\ cur'.pc \in {"saved", "running"} => cur' = cur
  /\ UNCHANGED issuedTo \/ \E d \in Device : Enqueue(d)

\* Only four steps take, start or end anything.
LEMMA CourseGoesOn ==
  ASSUME Types, Next
  PROVE  SaveCursor \/ StartOrAnswer \/ Answer \/ Kill \/ Unmoved
<1>0. cur \in Taking
  BY DEF Types, WorkTypes
<1>1. CASE RelayStep
  BY <1>1 DEF RelayStep, Unmoved, Enqueue, Expire, Age, ReceiveAck, Revoke, ServeHello, ServeWelcome, ServePoll,
     relay, storage, worker, history
<1>2. CASE ConnectionStep
  BY <1>2 DEF ConnectionStep, Unmoved, Connect, OpenSocket, StartPoll, Hear, HearClose, receive, PollAnswer, PollHandled, Disconnect,
     relay, storage, history
<1>3. CASE Begin
  <2>1. cur'.pc \in {"idle", "reading"}
    BY <1>3 DEF Begin, NoJob
  <2> QED
    BY <1>3, <2>1 DEF Begin, Unmoved, onlyCur, relay, storage
<1>4. CASE ReadState
  <2>1. cur'.pc = "read"
    BY <1>0, <1>4 DEF ReadState, Taking
  <2> QED
    BY <1>4, <2>1 DEF ReadState, Unmoved, onlyCur, relay, storage, history
<1>5. CASE Decide
  <2>1. cur'.pc \in {"saving", "idle"}
    BY <1>0, <1>5 DEF Decide, Taking, NoJob
  <2> QED
    BY <1>5, <2>1 DEF Decide, Unmoved, onlyCur, relay, storage
<1>6. CASE StorageError
  BY <1>6 DEF StorageError, NoJob, Unmoved, onlyCur, relay, storage
<1>7. CASE ControlStep
  BY <1>7 DEF ControlStep, Unmoved, Toggle, ChangePolicy, Register, Unregister, RemoveToken, changeStorage, OnChanged, relay, worker, history
<1> QED
  BY <1>1, <1>2, <1>3, <1>4, <1>5, <1>6, <1>7 DEF Next, TakeStep

\* The command about to be taken is later than all that was, of its device.
LEMMA TakenIsNew ==
  ASSUME CourseInv, cur.pc = "saving"
  PROVE  /\ cur.id \in Issued /\ cur.id \in Cmd /\ cur.token \in Device /\ issuedTo[cur.id] = cur.token
         /\ cursor[cur.token] \in Nat /\ cur.id > cursor[cur.token]
         /\ \A j \in Issued : j >= cur.id /\ issuedTo[j] = cur.token =>
              j \notin taken /\ j \notin answered /\ j \notin killed /\ starts[j] = 0
<1>1. Types /\ cur.pc # "idle"
  BY DEF CourseInv, DeliveryInv
<1>2. cur.id \in Issued /\ cur.id \in Cmd /\ cur.origin \in Device /\ cur.origin = issuedTo[cur.id]
  BY <1>1 DEF CourseInv, DeliveryInv, Owned, OwnedWork, Types, WorkTypes
<1>3. cur.token = cur.origin /\ cur.token # None /\ cur.id > cursor[cur.token]
  <2>1. cur.token = cur.origin
    BY DEF CourseInv, DeliveryInv, Ahead
  <2>2. cur.token # None
    BY <1>2, <2>1, BoundsHold DEF Bounds
  <2> QED
    BY <2>1, <2>2 DEF CourseInv, DeliveryInv, Ahead
<1>4. cursor[cur.token] \in Nat /\ cur.id \in Nat
  BY <1>1, <1>2, <1>3, Numbers
<1>5. ASSUME NEW j \in Issued, j >= cur.id, issuedTo[j] = cur.token
      PROVE  j \notin taken /\ j \notin answered /\ j \notin killed /\ starts[j] = 0
  <2>1. j \in Nat /\ j \in Cmd /\ starts[j] \in Nat
    BY <1>1, Numbers DEF Types, HistoryTypes
  <2>2. j \notin taken
    BY <1>3, <1>4, <1>5, <2>1 DEF CourseInv, Counted
  <2> QED
    BY <2>1, <2>2 DEF CourseInv, Counted
<1> QED
  BY <1>2, <1>3, <1>4, <1>5

\* Every step keeps what is said of the course.
LEMMA CourseKept ==
  ASSUME CourseInv, [Next]_vars
  PROVE  Counted' /\ UnderWay'
<1>1. Types /\ starts \in [Cmd -> Nat] /\ taken \subseteq Cmd /\ cur.id \in Nat
  BY Numbers DEF CourseInv, DeliveryInv, Types, HistoryTypes
<1>2. ASSUME UNCHANGED <<taken, starts, answered, killed, cursor, issuedTo>>, cur'.pc \in {"saved", "running"} => cur' = cur
      PROVE  Counted' /\ UnderWay'
  BY <1>2 DEF CourseInv, Counted, UnderWay, Issued
<1>3. ASSUME NEW d \in Device, Enqueue(d) PROVE Counted' /\ UnderWay'
  <2>1. UNCHANGED <<taken, starts, answered, killed, cursor, cur>> /\ issuedTo' = Append(issuedTo, d)
    BY <1>3 DEF Enqueue, storage, worker, history
  <2>2. issuedTo \in Seq(Device)
    BY <1>1 DEF Types, RelayTypes
  <2>3. \A j \in Issued : j \in Issued' /\ issuedTo'[j] = issuedTo[j]
    BY <2>1, <2>2 DEF Issued
  <2> QED
    BY <2>1, <2>3 DEF CourseInv, Counted, UnderWay
<1>4. CASE SaveCursor
  <2>1. /\ cur.pc = "saving" /\ cursor' = [cursor EXCEPT ![cur.token] = cur.id] /\ cur' = [cur EXCEPT !.pc = "saved"]
        /\ taken' = taken \cup {cur.id} /\ UNCHANGED <<starts, answered, killed, issuedTo>>
    BY <1>4 DEF SaveCursor, relay
  <2>2. cur'.pc = "saved" /\ cur'.id = cur.id
    BY <1>1, <2>1 DEF Types, WorkTypes, Taking
  <2>3. /\ cur.id \in Issued /\ cur.id \in Cmd /\ cur.token \in Device /\ issuedTo[cur.id] = cur.token
        /\ cursor[cur.token] \in Nat /\ cur.id > cursor[cur.token]
        /\ cur.id \notin taken /\ cur.id \notin answered /\ cur.id \notin killed /\ starts[cur.id] = 0
    BY <1>1, <2>1, TakenIsNew
  <2>4. \A j \in taken' : j \in Issued' /\ j <= cursor'[issuedTo'[j]]
    <3> SUFFICES ASSUME NEW j \in taken' PROVE j \in Issued /\ j <= cursor'[issuedTo[j]]
      BY <2>1 DEF Issued
    <3>1. cursor \in [Device -> 0 .. MaxCmd]
      BY <1>1 DEF Types, StorageTypes
    <3>2. CASE j = cur.id
      BY <2>1, <2>3, <3>1, <3>2, <1>1
    <3>3. CASE j \in taken
      <4>1. j \in Issued /\ j <= cursor[issuedTo[j]] /\ j \in Nat /\ issuedTo[j] \in Device
        BY <1>1, <3>3, Numbers DEF CourseInv, Counted, Types, RelayTypes, Issued
      <4>2. cursor'[issuedTo[j]] = IF issuedTo[j] = cur.token THEN cur.id ELSE cursor[issuedTo[j]]
        BY <2>1, <3>1, <4>1
      <4> QED
        BY <1>1, <2>3, <4>1, <4>2
    <3> QED
      BY <2>1, <3>2, <3>3
  <2>5. Counted'
    BY <2>1, <2>4 DEF CourseInv, Counted
  <2>6. UnderWay'
    BY <2>1, <2>2, <2>3 DEF UnderWay
  <2> QED
    BY <2>5, <2>6
<1>5. CASE StartOrAnswer
  <2>1. cur.pc = "saved" /\ UNCHANGED <<taken, killed, cursor, issuedTo>>
    BY <1>5 DEF StartOrAnswer, onlyCur, relay, storage
  <2>2. cur.id \in taken /\ cur.id \notin answered \cup killed /\ starts[cur.id] = 0 /\ cur.id \in Cmd
    BY <1>1, <2>1 DEF CourseInv, UnderWay
  <2>3. \/ /\ starts' = [starts EXCEPT ![cur.id] = @ + 1] /\ cur' = [cur EXCEPT !.pc = "running"] /\ answered' = answered
        \/ answered' = answered \cup {cur.id} /\ cur' = NoJob /\ starts' = starts
    BY <1>5 DEF StartOrAnswer
  <2>4. ASSUME starts' = [starts EXCEPT ![cur.id] = @ + 1], cur' = [cur EXCEPT !.pc = "running"], answered' = answered
        PROVE  Counted' /\ UnderWay'
    <3>1. cur'.pc = "running" /\ cur'.id = cur.id
      BY <1>1, <2>4 DEF Types, WorkTypes, Taking
    <3>2. starts'[cur.id] = 1 /\ \A j \in Cmd : j # cur.id => starts'[j] = starts[j]
      BY <1>1, <2>2, <2>4
    <3>3. Counted'
      BY <2>1, <2>2, <2>4, <3>2 DEF CourseInv, Counted, Issued
    <3> QED
      BY <2>1, <2>2, <2>4, <3>1, <3>2, <3>3 DEF UnderWay
  <2>5. ASSUME answered' = answered \cup {cur.id}, cur' = NoJob, starts' = starts PROVE Counted' /\ UnderWay'
    BY <2>1, <2>2, <2>5 DEF CourseInv, Counted, UnderWay, NoJob, Issued
  <2> QED
    BY <2>3, <2>4, <2>5
<1>6. CASE Answer
  <2>1. /\ cur.pc = "running" /\ answered' = answered \cup {cur.id} /\ cur' = NoJob
        /\ UNCHANGED <<taken, starts, killed, cursor, issuedTo>>
    BY <1>6 DEF Answer, onlyCur, relay, storage
  <2>2. cur.id \in taken /\ cur.id \notin killed
    BY <2>1 DEF CourseInv, UnderWay
  <2> QED
    BY <2>1, <2>2 DEF CourseInv, Counted, UnderWay, NoJob, Issued
<1>7. CASE Kill
  <2>1. /\ killed' = (IF cur.pc \in {"saved", "running"} THEN killed \cup {cur.id} ELSE killed) /\ cur' = NoJob
        /\ UNCHANGED <<taken, starts, answered, cursor, issuedTo>>
    BY <1>7 DEF Kill, relay
  <2>2. cur.pc \in {"saved", "running"} => cur.id \in taken /\ cur.id \notin answered
    BY DEF CourseInv, UnderWay
  <2> QED
    BY <2>1, <2>2 DEF CourseInv, Counted, UnderWay, NoJob, Issued
<1>8. CASE UNCHANGED vars
  BY <1>2, <1>8 DEF vars, relay, storage, worker, history
<1> QED
  BY <1>1, <1>2, <1>3, <1>4, <1>5, <1>6, <1>7, <1>8, CourseGoesOn DEF Unmoved

\* How far a command has come.
LEMMA CourseOf ==
  ASSUME NEW c \in Cmd
  PROVE  course[c] = (IF c \in killed THEN "died" ELSE IF c \in answered THEN "answered"
                      ELSE IF starts[c] > 0 THEN "started" ELSE IF c \in taken THEN "taken" ELSE "waiting")
BY DEF course

\* One command comes further.
LEMMA OneMoves ==
  ASSUME NEW c \in Cmd, NEW how, course'[c] = how,
         \A j \in Cmd \ {c} : /\ j \in taken' <=> j \in taken
                              /\ j \in answered' <=> j \in answered
                              /\ j \in killed' <=> j \in killed
                              /\ starts'[j] = starts[j]
  PROVE  course' = [course EXCEPT ![c] = how]
<1>1. course = [j \in Cmd |-> course[j]] /\ course' = [j \in Cmd |-> course'[j]]
  BY DEF course
<1>2. \A j \in Cmd \ {c} : course'[j] = course[j]
  BY DEF course
<1>3. \A f, g : f = [j \in Cmd |-> f[j]] /\ g = [j \in Cmd |-> g[j]] /\ (\A j \in Cmd \ {c} : g[j] = f[j]) /\ g[c] = how
                => g = [f EXCEPT ![c] = how]
  OBVIOUS
<1> QED
  BY <1>1, <1>2, <1>3

\* Every step is a step of the course, or none.
LEMMA NextCourse ==
  ASSUME CourseInv, [Next]_vars
  PROVE  [Course!Next]_Course!vars
<1>1. Types /\ starts \in [Cmd -> Nat] /\ taken \subseteq Cmd /\ answered \subseteq Cmd /\ killed \subseteq Cmd
  BY DEF CourseInv, DeliveryInv, Types, HistoryTypes
<1>2. cur.pc \in {"saved", "running"} => cur.id \in Cmd
  BY <1>1 DEF Types, WorkTypes
<1>3. ASSUME UNCHANGED <<taken, starts, answered, killed>> PROVE course' = course
  BY <1>3 DEF course
<1>4. CASE UNCHANGED vars
  BY <1>3, <1>4 DEF vars, relay, history, Course!vars
<1>5. CASE Unmoved
  <2>1. course' = course
    BY <1>3, <1>5 DEF Unmoved
  <2>2. ASSUME NEW d \in Device, Enqueue(d) PROVE Course!Issue(d)
    <3>1. issuedTo' = Append(issuedTo, d) /\ Len(issuedTo) + 1 <= MaxCmd
      BY <2>2 DEF Enqueue
    <3>2. Len(issuedTo) + 1 \in Cmd
      BY <1>1, <3>1, Numbers, BoundsHold DEF Bounds, Cmd
    <3> QED
      BY <2>1, <3>1, <3>2 DEF Course!Issue
  <2> QED
    BY <1>5, <2>1, <2>2 DEF Unmoved, Course!Next, Course!vars
<1>6. CASE SaveCursor
  <2>1. cur.pc = "saving" /\ taken' = taken \cup {cur.id} /\ UNCHANGED <<starts, answered, killed, issuedTo>>
    BY <1>6 DEF SaveCursor, relay
  <2>2. /\ cur.id \in Issued /\ cur.id \in Cmd /\ issuedTo[cur.id] = cur.token
        /\ \A j \in Issued : j >= cur.id /\ issuedTo[j] = cur.token =>
             j \notin taken /\ j \notin answered /\ j \notin killed /\ starts[j] = 0
    BY <2>1, TakenIsNew
  <2>3. cur.id \in Nat /\ Issued = DOMAIN issuedTo /\ Issued \subseteq Cmd
    BY <1>1, Numbers DEF Issued, Types, RelayTypes
  <2>4. \A j \in DOMAIN issuedTo : j >= cur.id /\ issuedTo[j] = issuedTo[cur.id] => course[j] = "waiting"
    BY <2>2, <2>3, CourseOf
  <2>5. \A j \in Cmd : ~Course!UnderWay(j)
    <3> SUFFICES ASSUME NEW j \in Cmd PROVE course[j] \notin {"taken", "started"}
      BY DEF Course!UnderWay
    <3>1. j \in taken => j \in answered \cup killed
      BY <2>1 DEF CourseInv, TakenIsAnswered
    <3>2. starts[j] > 0 => j \in taken
      BY DEF CourseInv, Counted
    <3> QED
      BY <3>1, <3>2, CourseOf
  <2>6. course' = [course EXCEPT ![cur.id] = "taken"]
    <3>1. cur.id \notin killed' /\ cur.id \notin answered' /\ starts'[cur.id] = 0 /\ cur.id \in taken'
      BY <2>1, <2>2, <2>3
    <3>2. course'[cur.id] = "taken"
      BY <2>2, <3>1 DEF course
    <3> QED
      BY <2>1, <2>2, <3>2, OneMoves
  <2>7. Course!Take(cur.id)
    BY <2>1, <2>2, <2>3, <2>4, <2>5, <2>6 DEF Course!Take
  <2> QED
    BY <2>2, <2>7 DEF Course!Next
<1>7. CASE StartOrAnswer
  <2>1. cur.pc = "saved" /\ UNCHANGED <<taken, killed, issuedTo>>
    BY <1>7 DEF StartOrAnswer, onlyCur, relay
  <2>2. cur.id \in Cmd /\ cur.id \in taken /\ cur.id \notin answered /\ cur.id \notin killed /\ starts[cur.id] = 0
    BY <1>2, <2>1 DEF CourseInv, UnderWay
  <2>3. course[cur.id] = "taken"
    BY <2>2, CourseOf
  <2>4. ASSUME starts' = [starts EXCEPT ![cur.id] = @ + 1], answered' = answered PROVE Course!Start(cur.id)
    <3>1. starts'[cur.id] = 1 /\ \A j \in Cmd \ {cur.id} : starts'[j] = starts[j]
      BY <1>1, <2>2, <2>4
    <3>2. course'[cur.id] = "started"
      BY <2>1, <2>2, <2>4, <3>1 DEF course
    <3>3. course' = [course EXCEPT ![cur.id] = "started"]
      BY <2>1, <2>2, <2>4, <3>1, <3>2, OneMoves
    <3> QED
      BY <2>1, <2>3, <3>3 DEF Course!Start
  <2>5. ASSUME answered' = answered \cup {cur.id}, starts' = starts PROVE Course!End(cur.id)
    <3>1. course'[cur.id] = "answered"
      BY <2>1, <2>2, <2>5 DEF course
    <3>2. course' = [course EXCEPT ![cur.id] = "answered"]
      BY <2>1, <2>2, <2>5, <3>1, OneMoves
    <3> QED
      BY <2>1, <2>3, <3>2 DEF Course!End, Course!UnderWay
  <2> QED
    BY <1>7, <2>2, <2>4, <2>5 DEF StartOrAnswer, Course!Next
<1>8. CASE Answer
  <2>1. cur.pc = "running" /\ answered' = answered \cup {cur.id} /\ UNCHANGED <<taken, starts, killed, issuedTo>>
    BY <1>8 DEF Answer, onlyCur, relay
  <2>2. cur.id \in Cmd /\ cur.id \notin answered /\ cur.id \notin killed /\ starts[cur.id] > 0
    BY <1>2, <2>1 DEF CourseInv, UnderWay
  <2>3. course[cur.id] = "started"
    BY <2>2, CourseOf
  <2>4. course'[cur.id] = "answered"
    BY <2>1, <2>2 DEF course
  <2>5. course' = [course EXCEPT ![cur.id] = "answered"]
    BY <2>1, <2>2, <2>4, OneMoves
  <2>6. Course!End(cur.id)
    BY <2>1, <2>3, <2>5 DEF Course!End, Course!UnderWay
  <2> QED
    BY <2>2, <2>6 DEF Course!Next
<1>9. CASE Kill
  <2>1. /\ killed' = (IF cur.pc \in {"saved", "running"} THEN killed \cup {cur.id} ELSE killed)
        /\ UNCHANGED <<taken, starts, answered, issuedTo>>
    BY <1>9 DEF Kill, relay
  <2>2. CASE cur.pc \in {"saved", "running"}
    <3>1. /\ cur.id \in Cmd /\ cur.id \in taken /\ cur.id \notin answered /\ cur.id \notin killed
      BY <1>2, <2>2 DEF CourseInv, UnderWay
    <3>2. course[cur.id] \in {"taken", "started"}
      BY <3>1, CourseOf
    <3>3. course'[cur.id] = "died"
      BY <2>1, <2>2, <3>1 DEF course
    <3>4. course' = [course EXCEPT ![cur.id] = "died"]
      BY <2>1, <2>2, <3>1, <3>3, OneMoves
    <3>5. Course!End(cur.id)
      BY <2>1, <3>2, <3>4 DEF Course!End, Course!UnderWay
    <3> QED
      BY <3>1, <3>5 DEF Course!Next
  <2>3. CASE cur.pc \notin {"saved", "running"}
    BY <1>3, <2>1, <2>3 DEF Course!vars
  <2> QED
    BY <2>2, <2>3
<1> QED
  BY <1>1, <1>4, <1>5, <1>6, <1>7, <1>8, <1>9, CourseGoesOn

\* Relay and extension implement the course of commands: over every
\* interleaving of re-sends, losses, deaths and control changes each command is
\* taken when nothing is under way and nothing later of its device was, begins
\* at most once and ends at most once (worker.js:30-33, background.js:1837-1870).
THEOREM DeliveryIsCourse == Spec => RunsItsCourse
<1>1. Init => Course!Init
  <2> SUFFICES ASSUME Init PROVE Course!Init
    OBVIOUS
  <2>1. \A c \in Cmd : course[c] = "waiting"
    BY DEF Init, course
  <2>2. course = [c \in Cmd |-> "waiting"]
    BY <2>1 DEF course
  <2> QED
    BY <2>2 DEF Init, Course!Init
<1>2. Init => Counted /\ UnderWay
  BY DEF Init, Counted, UnderWay, NoJob
<1>3. DeliveryInv /\ TakenIsAnswered /\ Counted /\ UnderWay /\ [Next]_vars => Counted' /\ UnderWay'
  BY CourseKept DEF CourseInv
<1>4. DeliveryInv /\ TakenIsAnswered /\ Counted /\ UnderWay /\ [Next]_vars => [Course!Next]_Course!vars
  BY NextCourse DEF CourseInv
<1> QED
  BY <1>1, <1>2, <1>3, <1>4, DeliverySafe, TakenAnswered, PTL DEF Spec, Course!Spec, RunsItsCourse
=============================================================================
