---------------------------- MODULE RelayLiveProofs ----------------------------
(***************************************************************************)
(* Theorems about RelayLive for every value of its constants.              *)
(***************************************************************************)
EXTENDS RelayLive, FiniteSetTheorems, TLAPS

\* What has not been enqueued has no row.
Unissued ==
  \A c \in Cmd : c > issued => owner[c] = "none" /\ idem[c] = "none" /\ c \notin queued

\* None of these is inductive without the types and Unissued.
Safe ==
  /\ TypeOK /\ Unissued
  /\ NobodySleepsOnSettled /\ WaitersCounted
  /\ WelcomedHasAll /\ RevokedIsCutOff /\ SocketsBounded

\* Drivers are finitely many, so those that wait can be counted.
LEMMA WaitingFinite == IsFiniteSet(Waiting) /\ Cardinality(Waiting) \in Nat
BY RelayLiveAssumption, FS_Subset, FS_CardinalityType DEF Waiting

\* So are sockets, and no set of them is larger than all of them.
LEMMA SocketsFinite == \A S \in SUBSET Socket : IsFiniteSet(S) /\ Cardinality(S) \in Nat
BY RelayLiveAssumption, FS_Subset, FS_CardinalityType

\* wake() takes as many from the count as stop waiting.
LEMMA WakeCounts ==
  ASSUME TypeOK, WaitersCounted, NEW Q \in SUBSET Waiting, Wake(Q)
  PROVE  /\ waiter' \in [Driver -> Entry \cup {Idle}]
         /\ waiterCount' \in Nat
         /\ WaitersCounted'
         /\ Waiting' = Waiting \ Q
<1>2. waiter' \in [Driver -> Entry \cup {Idle}]
  BY DEF Wake, TypeOK
<1>3. Waiting' = Waiting \ Q
  BY <1>2 DEF Wake, Waiting, TypeOK
<1>4. Cardinality(Waiting \ Q) = Cardinality(Waiting) - Cardinality(Q) /\ Cardinality(Q) \in Nat
      /\ Cardinality(Waiting \ Q) \in Nat
  <2>1. IsFiniteSet(Q) /\ IsFiniteSet(Waiting \ Q)
    BY WaitingFinite, FS_Subset
  <2>2. Cardinality(Q) \in Nat /\ Cardinality(Waiting \ Q) \in Nat
    BY <2>1, FS_CardinalityType
  <2>3. Waiting \cap Q = Q
    OBVIOUS
  <2> QED
    BY <2>1, <2>2, <2>3, WaitingFinite, FS_Difference
<1> QED
  BY <1>2, <1>3, <1>4, WaitingFinite, RelayLiveAssumption DEF Wake, WaitersCounted

\* Closing sockets keeps what is said of the open ones.
LEMMA ShutKeeps ==
  ASSUME TypeOK, RevokedIsCutOff, SocketsBounded, NEW S \in SUBSET Socket, Shut(S), NEW D \in SUBSET devices,
         devices' = D, \A s \in Socket : open(s) /\ sock[s].dev \notin D => s \in S
  PROVE  /\ sock' \in [Socket -> [dev : Device \cup {None}, at : {"unused", "hello", "acking", "welcomed", "closed"}]]
         /\ RevokedIsCutOff' /\ SocketsBounded'
         /\ \A s \in Socket : sock'[s].at = "welcomed" => sock[s] = sock'[s]
<1>1. sock' \in [Socket -> [dev : Device \cup {None}, at : {"unused", "hello", "acking", "welcomed", "closed"}]]
  BY DEF Shut, TypeOK
<1>2. \A s \in Socket : sock'[s].dev = sock[s].dev /\ (sock'[s].at = sock[s].at \/ sock'[s].at = "closed")
  BY DEF Shut, TypeOK
<1>3. \A s \in Socket : s \in S => sock'[s].at = "closed"
  BY DEF Shut, TypeOK
<1>4. active' \subseteq active /\ active \subseteq Socket
  BY <1>2, <1>3 DEF active, open
<1>5. Cardinality(active') <= MAX_SOCKETS
  <2>1. Cardinality(active') <= Cardinality(active)
    BY <1>4, SocketsFinite, FS_Subset
  <2>2. Cardinality(active') \in Nat /\ Cardinality(active) \in Nat
    BY <1>4, SocketsFinite
  <2> QED
    BY <2>1, <2>2, RelayLiveAssumption DEF SocketsBounded
<1>6. SocketsBounded'
  BY <1>2, <1>4, <1>5 DEF SocketsBounded
<1>7. RevokedIsCutOff'
  BY <1>2, <1>3 DEF RevokedIsCutOff, open
<1>8. \A s \in Socket : sock'[s].at = "welcomed" => sock[s] = sock'[s]
  BY DEF Shut, TypeOK
<1> QED
  BY <1>1, <1>6, <1>7, <1>8

\* What is pushed was sent to every welcomed socket of the device.
LEMMA PushedType ==
  ASSUME TypeOK, NEW d \in Device, NEW cmds \in SUBSET Cmd, heard' = pushed(d, cmds)
  PROVE  /\ heard' \in [Socket -> SUBSET Cmd]
         /\ \A s \in Socket : heard[s] \subseteq heard'[s]
         /\ \A s \in Socket : sock[s].dev = d /\ sock[s].at \in {"acking", "welcomed"} => cmds \subseteq heard'[s]
BY DEF pushed, TypeOK, socketsFor, open

----------------------------------------------------------------------------

\* The purge and the revocation wake whom they must: a poll sleeps only on rows
\* that stay.
LEMMA ForgetKeeps ==
  ASSUME TypeOK, Safe, NEW over \in SUBSET Cmd, NEW Q \in SUBSET Waiting, Wake(Q),
         results' \subseteq results,
         On("waiters", over) \subseteq Q, On("idemWaiters", {c \in over : idem[c] # "none"}) \subseteq Q,
         owner' = [c \in Cmd |-> IF c \in over THEN "none" ELSE owner[c]],
         idem' = [c \in Cmd |-> IF c \in over THEN "none" ELSE idem[c]]
  PROVE  NobodySleepsOnSettled'
<1> SUFFICES ASSUME NEW q \in Waiting' PROVE (~Ready(waiter[q]) /\ Live(waiter[q]))'
  BY DEF NobodySleepsOnSettled
<1>1. q \in Waiting /\ q \notin Q /\ waiter'[q] = waiter[q]
  BY WakeCounts DEF Safe, Wake, Waiting
<1>2. ~Ready(waiter[q]) /\ Live(waiter[q])
  BY <1>1 DEF Safe, NobodySleepsOnSettled
<1>3. q \in Driver /\ waiter[q].map \in {"waiters", "idemWaiters"} /\ waiter[q].cmd \in Cmd
  BY <1>1 DEF TypeOK, Waiting, Entry
<1>4. CASE waiter[q].map = "waiters"
  BY <1>1, <1>2, <1>3, <1>4 DEF On, Ready, Live
<1>5. CASE waiter[q].map = "idemWaiters"
  BY <1>1, <1>2, <1>3, <1>5 DEF On, Ready, Live
<1> QED
  BY <1>3, <1>4, <1>5

\* Nobody waits and nothing is open at first.
LEMMA InitSafe == Init => Safe
<1> SUFFICES ASSUME Init PROVE Safe
  OBVIOUS
<1>1. Waiting = {} /\ active = {}
  BY DEF Init, Waiting, active, open, NoSocket
<1>2. Cardinality(Waiting) = 0 /\ Cardinality(active) = 0
  BY <1>1, FS_EmptySet
<1>3. TypeOK
  BY RelayLiveAssumption DEF Init, TypeOK, Idle, NoSocket
<1> QED
  BY <1>1, <1>2, <1>3, RelayLiveAssumption
  DEF Init, Safe, Unissued, NobodySleepsOnSettled, WaitersCounted, WelcomedHasAll, RevokedIsCutOff,
      SocketsBounded, NoSocket, open

\* A long poll that begins, is woken or times out keeps the count and waits only for what can come.
LEMMA PollKeeps ==
  ASSUME Safe, NEW q \in Driver, NEW w \in Entry,
         Wait(q, w) \/ WaitTimeout(q)
  PROVE  Safe'
<1> USE DEF Safe
<1>1. CASE Wait(q, w)
  <2>1. w # Idle /\ w \in Entry \cup {Idle}
    BY DEF Idle, Entry
  <2>2. waiter' \in [Driver -> Entry \cup {Idle}]
    BY <1>1, <2>1 DEF Wait, TypeOK
  <2>3. Waiting' = Waiting \cup {q} /\ q \notin Waiting
    BY <1>1, <2>1 DEF Wait, Waiting, TypeOK
  <2>4. Cardinality(Waiting') = Cardinality(Waiting) + 1
    BY <2>3, WaitingFinite, FS_AddElement
  <2>5. TypeOK' /\ WaitersCounted'
    BY <1>1, <2>2, <2>4, RelayLiveAssumption DEF Wait, TypeOK, WaitersCounted, rows, sockets
  <2>6. NobodySleepsOnSettled'
    BY <1>1, <2>3 DEF Wait, NobodySleepsOnSettled, Ready, Live, rows, TypeOK, Waiting
  <2> QED
    BY <1>1, <2>5, <2>6
    DEF Wait, rows, sockets, Unissued, WelcomedHasAll, pending, RevokedIsCutOff, SocketsBounded, active, open
<1>2. CASE WaitTimeout(q)
  <2>1. {q} \in SUBSET Waiting /\ Wake({q})
    BY <1>2 DEF WaitTimeout, Waiting
  <2>2. TypeOK' /\ WaitersCounted' /\ Waiting' = Waiting \ {q}
    BY <1>2, <2>1, WakeCounts DEF WaitTimeout, TypeOK, rows, sockets
  <2>3. NobodySleepsOnSettled'
    BY <1>2, <2>1, <2>2 DEF WaitTimeout, NobodySleepsOnSettled, Ready, Live, rows, TypeOK, Waiting, Wake
  <2> QED
    BY <1>2, <2>2, <2>3
    DEF WaitTimeout, rows, sockets, Unissued, WelcomedHasAll, pending, RevokedIsCutOff, SocketsBounded, active, open
<1> QED
  BY <1>1, <1>2

\* Steps of sockets leave the long polls alone.
LEMMA PollsUnchanged ==
  ASSUME Safe, UNCHANGED <<polls, issued, owner, idem, results>>, queued' \subseteq queued
  PROVE  NobodySleepsOnSettled' /\ WaitersCounted' /\ Unissued'
BY DEF Safe, polls, NobodySleepsOnSettled, WaitersCounted, Waiting, Ready, Live, Unissued

\* A new socket takes the place of its device's old one, within the limit.
LEMMA HandshakeKeeps ==
  ASSUME Safe, NEW s \in Socket, NEW d \in Device, Handshake(s, d)
  PROVE  Safe'
<1> USE DEF Safe
<1>1. TypeOK'
  BY DEF Handshake, TypeOK, rows, polls
<1>2. \A r \in Socket : sock'[r] = IF r = s THEN [dev |-> d, at |-> "hello"]
                          ELSE IF r \in socketsFor(d) THEN [sock[r] EXCEPT !.at = "closed"] ELSE sock[r]
  BY DEF Handshake
<1>3. socketsFor(d) \subseteq active /\ active \subseteq Socket /\ s \notin active
  BY DEF Handshake, socketsFor, active, open
<1>4. active' = (active \ socketsFor(d)) \cup {s}
  BY <1>1, <1>2, <1>3 DEF Handshake, rows, active, open, socketsFor, TypeOK
<1>5. Cardinality(active') <= MAX_SOCKETS
  <2>1. IsFiniteSet(active \ socketsFor(d)) /\ Cardinality(active \ socketsFor(d)) \in Nat
    BY <1>3, SocketsFinite
  <2>2. Cardinality(active') = Cardinality(active \ socketsFor(d)) + 1
    BY <1>3, <1>4, <2>1, FS_AddElement
  <2> QED
    BY <2>1, <2>2, RelayLiveAssumption DEF Handshake, admits
<1>6. \A r, t \in active' : sock'[r].dev = sock'[t].dev => r = t
  <2> SUFFICES ASSUME NEW r \in active', NEW t \in active', sock'[r].dev = sock'[t].dev, r # s PROVE r = t
    BY DEF SocketsBounded
  <2>1. r \in active \ socketsFor(d) /\ r \in Socket /\ sock'[r] = sock[r] /\ sock[r].dev # d
    BY <1>2, <1>3, <1>4 DEF socketsFor, active
  <2>2. sock'[s].dev = d
    <3>1. sock'[s] = [dev |-> d, at |-> "hello"]
      BY DEF Handshake
    <3> QED
      BY <3>1
  <2>3. t # s /\ t \in active \ socketsFor(d) /\ sock'[t] = sock[t]
    BY <1>2, <1>3, <1>4, <2>1, <2>2
  <2> QED
    BY <2>1, <2>3 DEF SocketsBounded
<1>7. RevokedIsCutOff'
  BY <1>2, <1>4 DEF RevokedIsCutOff, open, active, Handshake, rows, TypeOK
<1>8. WelcomedHasAll'
  BY <1>1, <1>2 DEF WelcomedHasAll, Handshake, rows, pending, TypeOK
<1> QED
  BY <1>1, <1>5, <1>6, <1>7, <1>8, PollsUnchanged DEF Handshake, rows, SocketsBounded

\* A message moves a socket on; its device and its being open stay.
LEMMA SameSockets ==
  ASSUME Safe, UNCHANGED devices, \A s \in Socket : sock'[s].dev = sock[s].dev /\ (open(s)' <=> open(s))
  PROVE  RevokedIsCutOff' /\ SocketsBounded'
<1>1. active' = active /\ active \subseteq Socket
  BY DEF active
<1> QED
  BY <1>1 DEF Safe, RevokedIsCutOff, SocketsBounded

\* A hello or its timeout marks one socket or closes it.
LEMMA HelloKeeps ==
  ASSUME Safe, NEW s \in Socket, Hello(s)
  PROVE  Safe'
<1> USE DEF Safe
<1>1. TypeOK'
  BY DEF Hello, TypeOK, rows, polls
<1>2. \A r \in Socket : sock'[r].dev = sock[r].dev /\ (open(r)' <=> open(r)) /\ (sock'[r].at = "welcomed" => sock'[r] = sock[r])
  BY DEF Hello, TypeOK, open
<1>3. WelcomedHasAll'
  BY <1>2 DEF WelcomedHasAll, Hello, rows, pending
<1> QED
  BY <1>1, <1>2, <1>3, SameSockets, PollsUnchanged DEF Hello, rows

\* A closed socket leaves the others as they were.
LEMMA CloseKeeps ==
  ASSUME Safe, NEW S \in SUBSET Socket, Shut(S), UNCHANGED <<rows, heard>>,
         TypeOK', NobodySleepsOnSettled', WaitersCounted'
  PROVE  Safe'
<1> USE DEF Safe
<1>1. devices \in SUBSET devices /\ devices' = devices /\ \A s \in Socket : open(s) /\ sock[s].dev \notin devices => s \in S
  BY DEF rows, RevokedIsCutOff
<1>2. RevokedIsCutOff' /\ SocketsBounded' /\ \A s \in Socket : sock'[s].at = "welcomed" => sock[s] = sock'[s]
  BY <1>1, ShutKeeps
<1>3. WelcomedHasAll'
  BY <1>2 DEF WelcomedHasAll, rows, pending
<1> QED
  BY <1>2, <1>3 DEF Unissued, rows

\* An acknowledgement takes commands from the queue of one device.
LEMMA WelcomeKeeps ==
  ASSUME Safe, NEW s \in Socket, NEW last \in 0 .. MaxCmd, Welcome(s, last)
  PROVE  Safe'
<1> USE DEF Safe
<1> DEFINE d == sock[s].dev
           rest == pending(d) \cap Kept(d, last)
<1>1. d \in Device /\ rest \in SUBSET Cmd /\ queued' \subseteq queued /\ heard' = pushed(d, rest)
  BY DEF Welcome, TypeOK, RevokedIsCutOff, open, Kept, pending
<1>2. /\ heard' \in [Socket -> SUBSET Cmd]
      /\ \A r \in Socket : heard[r] \subseteq heard'[r]
      /\ \A r \in Socket : sock[r].dev = d /\ sock[r].at \in {"acking", "welcomed"} => rest \subseteq heard'[r]
  BY <1>1, PushedType
<1>3. TypeOK'
  BY <1>1, <1>2 DEF Welcome, TypeOK, polls
<1>4. \A r \in Socket : sock'[r].dev = sock[r].dev /\ (open(r)' <=> open(r)) /\ (sock'[r].at = "welcomed" => sock'[r] = sock[r] \/ r = s)
  BY DEF Welcome, TypeOK, open
<1>5. WelcomedHasAll'
  <2> SUFFICES ASSUME NEW r \in Socket, sock'[r].at = "welcomed", NEW c \in pending(sock[r].dev)'
               PROVE  c \in heard'[r]
    BY <1>4 DEF WelcomedHasAll, pending
  <2>1. c \in pending(sock[r].dev)
    BY <1>1, <1>4 DEF pending, Welcome
  <2>2. CASE r = s
    <3>1. c \in rest
      BY <2>1, <2>2, <1>4 DEF Welcome, pending
    <3> QED
      BY <2>2, <3>1, <1>2 DEF Welcome
  <2>3. CASE r # s
    BY <1>2, <1>4, <2>1, <2>3 DEF WelcomedHasAll
  <2> QED
    BY <2>2, <2>3
<1> QED
  BY <1>1, <1>3, <1>4, <1>5, SameSockets, PollsUnchanged DEF Welcome

\* What an acknowledgement drops is owed to no socket any more.
LEMMA AckKeeps ==
  ASSUME Safe, NEW s \in Socket, NEW last \in 0 .. MaxCmd, Ack(s, last)
  PROVE  Safe'
<1> USE DEF Safe
<1>1. queued' \subseteq queued
  BY DEF Ack, Kept
<1>2. TypeOK'
  BY <1>1 DEF Ack, TypeOK, polls, sockets
<1>3. WelcomedHasAll'
  BY <1>1 DEF WelcomedHasAll, Ack, sockets, pending
<1> QED
  BY <1>1, <1>2, <1>3, PollsUnchanged DEF Ack, sockets, RevokedIsCutOff, SocketsBounded, active, open

\* A new command is pushed to its device's socket as it is queued.
LEMMA EnqueueKeeps ==
  ASSUME Safe, NEW d \in Device, NEW keyed \in BOOLEAN, Enqueue(d, keyed)
  PROVE  Safe'
<1> USE DEF Safe
<1> DEFINE c == issued + 1
<1>1. c \in Cmd /\ issued' = c /\ heard' = pushed(d, {c})
  BY RelayLiveAssumption DEF Enqueue, TypeOK, Cmd
<1>2. /\ heard' \in [Socket -> SUBSET Cmd]
      /\ \A r \in Socket : heard[r] \subseteq heard'[r]
      /\ \A r \in Socket : sock[r].dev = d /\ sock[r].at \in {"acking", "welcomed"} => {c} \subseteq heard'[r]
  <2> HIDE DEF c
  <2>1. {c} \in SUBSET Cmd /\ heard' = pushed(d, {c}) /\ TypeOK
    BY <1>1
  <2> QED
    BY <2>1, PushedType
<1>3. TypeOK'
  <2>1. issued' \in 0 .. MaxCmd
    BY <1>1 DEF Cmd
  <2>2. owner' \in [Cmd -> {"none", "open", "done"}] /\ idem' \in [Cmd -> {"none", "bound", "answered"}]
    BY <1>1 DEF Enqueue, TypeOK
  <2>3. device' \in [Cmd -> Device \cup {None}] /\ queued' \subseteq Cmd
    BY <1>1 DEF Enqueue, TypeOK
  <2> QED
    BY <1>2, <2>1, <2>2, <2>3 DEF Enqueue, TypeOK, polls
<1>4. Unissued'
  BY <1>1 DEF Enqueue, Unissued, TypeOK, Cmd
<1>5. owner[c] = "none" /\ idem[c] = "none" /\ c \notin queued
  BY <1>1, RelayLiveAssumption DEF Unissued, TypeOK
<1>6. WelcomedHasAll'
  <2> SUFFICES ASSUME NEW r \in Socket, sock[r].at = "welcomed", NEW b \in pending(sock[r].dev)'
               PROVE  b \in heard'[r]
    BY DEF WelcomedHasAll, Enqueue
  <2>1. CASE b = c
    BY <1>1, <1>2, <2>1 DEF pending, Enqueue, TypeOK
  <2>2. CASE b # c
    BY <1>1, <1>2, <2>2 DEF pending, Enqueue, TypeOK, WelcomedHasAll
  <2> QED
    BY <2>1, <2>2
<1>7. NobodySleepsOnSettled' /\ WaitersCounted'
  <2> SUFFICES ASSUME NEW q \in Waiting PROVE (~Ready(waiter[q]) /\ Live(waiter[q]))'
    BY DEF NobodySleepsOnSettled, Waiting, Enqueue, polls, WaitersCounted
  <2>1. waiter'[q] = waiter[q] /\ ~Ready(waiter[q]) /\ Live(waiter[q])
    BY DEF Enqueue, polls, NobodySleepsOnSettled
  <2>2. waiter[q].cmd # c
    BY <1>5, <2>1 DEF Live
  <2> QED
    BY <1>1, <2>1, <2>2 DEF Ready, Live, Enqueue, TypeOK
<1> QED
  BY <1>3, <1>4, <1>6, <1>7 DEF Enqueue, RevokedIsCutOff, SocketsBounded, active, open

\* A result wakes all that wait for it.
LEMMA AcceptKeeps ==
  ASSUME Safe, NEW c \in Cmd, AcceptResult(c)
  PROVE  Safe'
<1> USE DEF Safe
<1> DEFINE Q == On("waiters", {c}) \cup On("idemWaiters", IF idem[c] = "bound" THEN {c} ELSE {})
<1>1. Q \in SUBSET Waiting /\ Wake(Q)
  BY DEF AcceptResult, On, Waiting, Idle
<1>2. /\ waiter' \in [Driver -> Entry \cup {Idle}]
      /\ waiterCount' \in Nat /\ WaitersCounted' /\ Waiting' = Waiting \ Q
  BY <1>1, WakeCounts
<1>3. TypeOK'
  BY <1>2 DEF AcceptResult, TypeOK, sockets
<1>4. NobodySleepsOnSettled'
  <2> SUFFICES ASSUME NEW q \in Waiting, q \notin Q PROVE (~Ready(waiter[q]) /\ Live(waiter[q]))'
    BY <1>2 DEF NobodySleepsOnSettled
  <2>1. waiter'[q] = waiter[q] /\ ~Ready(waiter[q]) /\ Live(waiter[q]) /\ q \in Driver
    BY <1>1 DEF Wake, NobodySleepsOnSettled, Waiting
  <2>2. waiter[q].map \in {"waiters", "idemWaiters"} /\ waiter[q].cmd \in Cmd
    BY <2>1 DEF TypeOK, Entry, Waiting
  <2>3. CASE waiter[q].cmd = c
    BY <2>1, <2>2, <2>3 DEF On, AcceptResult, Ready, Live, TypeOK
  <2>4. CASE waiter[q].cmd # c
    BY <2>1, <2>2, <2>4 DEF AcceptResult, Ready, Live, TypeOK
  <2> QED
    BY <2>3, <2>4
<1>5. Unissued'
  BY DEF Unissued, AcceptResult, TypeOK
<1> QED
  BY <1>2, <1>3, <1>4, <1>5
  DEF AcceptResult, sockets, WelcomedHasAll, pending, RevokedIsCutOff, SocketsBounded, active, open

\* A result that is consumed was there, so nobody waited for it.
LEMMA ConsumeKeeps ==
  ASSUME Safe, NEW c \in Cmd, Consume(c)
  PROVE  Safe'
BY DEF Safe, Consume, TypeOK, polls, sockets, Unissued, NobodySleepsOnSettled, Waiting, Ready, Live, WaitersCounted,
       WelcomedHasAll, pending, RevokedIsCutOff, SocketsBounded, active, open

\* A purge wakes those it leaves with nothing to wait for.
LEMMA PurgeKeeps ==
  ASSUME Safe, NEW old \in SUBSET Cmd, NEW over \in SUBSET Cmd, NEW gone \in SUBSET Cmd, Purge(old, over, gone)
  PROVE  Safe'
<1> USE DEF Safe
<1> DEFINE Q == On("waiters", over \cup gone) \cup On("idemWaiters", {c \in over : idem[c] # "none"})
<1>1. Q \in SUBSET Waiting /\ Wake(Q)
  BY DEF Purge, On, Waiting, Idle
<1>2. /\ waiter' \in [Driver -> Entry \cup {Idle}]
      /\ waiterCount' \in Nat /\ WaitersCounted'
  BY <1>1, WakeCounts
<1>3. TypeOK'
  BY <1>2 DEF Purge, TypeOK, sockets
<1>4. NobodySleepsOnSettled'
  BY <1>1, ForgetKeeps DEF Purge, On
<1>5. Unissued'
  BY DEF Unissued, Purge
<1>6. WelcomedHasAll'
  BY DEF Purge, sockets, WelcomedHasAll, pending
<1> QED
  BY <1>2, <1>3, <1>4, <1>5, <1>6 DEF Purge, sockets, RevokedIsCutOff, SocketsBounded, active, open

\* A revocation wakes the device's waiters and closes its socket.
LEMMA RemoveDeviceKeeps ==
  ASSUME Safe, NEW d \in Device, RemoveDevice(d)
  PROVE  Safe'
<1> USE DEF Safe
<1> DEFINE mine == {c \in Cmd : device[c] = d}
           Q == On("waiters", mine) \cup On("idemWaiters", {c \in mine : idem[c] # "none"})
<1>1. Q \in SUBSET Waiting /\ Wake(Q)
  BY DEF RemoveDevice, On, Waiting, Idle
<1>2. /\ waiter' \in [Driver -> Entry \cup {Idle}]
      /\ waiterCount' \in Nat /\ WaitersCounted'
  BY <1>1, WakeCounts
<1>3. /\ socketsFor(d) \in SUBSET Socket /\ Shut(socketsFor(d))
      /\ devices' \in SUBSET devices
      /\ \A s \in Socket : open(s) /\ sock[s].dev \notin devices' => s \in socketsFor(d)
  BY DEF RemoveDevice, socketsFor, RevokedIsCutOff
<1>4. /\ sock' \in [Socket -> [dev : Device \cup {None}, at : {"unused", "hello", "acking", "welcomed", "closed"}]]
      /\ RevokedIsCutOff' /\ SocketsBounded'
      /\ \A s \in Socket : sock'[s].at = "welcomed" => sock[s] = sock'[s]
  BY <1>3, ShutKeeps
<1>5. TypeOK'
  BY <1>2, <1>4 DEF RemoveDevice, TypeOK
<1>6. NobodySleepsOnSettled'
  BY <1>1, ForgetKeeps DEF RemoveDevice
<1>7. Unissued'
  BY DEF Unissued, RemoveDevice
<1>8. WelcomedHasAll'
  BY <1>4 DEF RemoveDevice, WelcomedHasAll, pending
<1> QED
  BY <1>2, <1>4, <1>5, <1>6, <1>7, <1>8

\* A crash takes waiters and their count together.
LEMMA CrashKeeps ==
  ASSUME Safe, Crash
  PROVE  Safe'
<1> USE DEF Safe
<1> DEFINE S == {s \in Socket : open(s)}
<1>1. Waiting' = {} /\ Cardinality({}) = 0
  BY FS_EmptySet DEF Crash, Waiting
<1>2. WaitersCounted' /\ NobodySleepsOnSettled'
  BY <1>1, RelayLiveAssumption DEF Crash, WaitersCounted, NobodySleepsOnSettled
<1>3. Shut(S) /\ S \in SUBSET Socket
  BY DEF Crash
<1>4. TypeOK'
  BY RelayLiveAssumption DEF Crash, Shut, TypeOK, rows, Idle
<1> QED
  BY <1>2, <1>3, <1>4, CloseKeeps DEF Crash

\* Every step keeps all of it.
LEMMA NextSafe == Safe /\ [Next]_vars => Safe'
<1> SUFFICES ASSUME Safe, [Next]_vars PROVE Safe'
  OBVIOUS
<1>1. CASE PollStep
  <2>1. ASSUME NEW q \in Driver, NEW map \in {"waiters", "idemWaiters"}, NEW c \in Cmd, Wait(q, [map |-> map, cmd |-> c])
        PROVE  Safe'
    <3>1. [map |-> map, cmd |-> c] \in Entry
      BY DEF Entry
    <3> QED
      BY <2>1, <3>1, PollKeeps
  <2>2. ASSUME NEW q \in Driver, WaitTimeout(q) PROVE Safe'
    <3>1. waiter[q] \in Entry
      BY <2>2 DEF Safe, TypeOK, WaitTimeout
    <3> QED
      BY <2>2, <3>1, PollKeeps
  <2> QED
    BY <1>1, <2>1, <2>2 DEF PollStep
<1>2. CASE SocketStep
  <2> SUFFICES ASSUME NEW s \in Socket,
                 \/ \E d \in Device : Handshake(s, d)
                 \/ Hello(s) \/ HelloTimeout(s) \/ Disconnect(s)
                 \/ \E last \in 0 .. MaxCmd : Welcome(s, last) \/ Ack(s, last)
               PROVE  Safe'
    BY <1>2 DEF SocketStep
  <2>1. ASSUME HelloTimeout(s) \/ Disconnect(s) PROVE Safe'
    <3>1. Shut({s}) /\ UNCHANGED <<rows, polls, heard>>
      BY <2>1 DEF HelloTimeout, Disconnect
    <3>2. TypeOK' /\ NobodySleepsOnSettled' /\ WaitersCounted'
      BY <3>1, PollsUnchanged DEF Shut, rows, polls, Safe, TypeOK
    <3> QED
      BY <3>1, <3>2, CloseKeeps
  <2> QED
    BY <2>1, HandshakeKeeps, HelloKeeps, WelcomeKeeps, AckKeeps
<1>3. CASE Mutation
  <2>1. ASSUME NEW c \in Cmd, Purge({c}, {}, {}) \/ Purge({}, {}, {c}) \/ Purge({c} \cap queued, {c}, {})
        PROVE  Safe'
    BY <2>1, PurgeKeeps
  <2> QED
    BY <1>3, <2>1, EnqueueKeeps, RemoveDeviceKeeps, AcceptKeeps, ConsumeKeeps DEF Mutation
<1>4. CASE Crash
  BY <1>4, CrashKeeps
<1>5. CASE UNCHANGED vars
  BY <1>5 DEF vars, rows, polls, sockets, Safe, TypeOK, Unissued, NobodySleepsOnSettled, Waiting, Ready, Live,
              WaitersCounted, WelcomedHasAll, pending, RevokedIsCutOff, SocketsBounded, active, open
<1> QED
  BY <1>1, <1>2, <1>3, <1>4, <1>5 DEF Next

\* All of it holds in every reachable state.
THEOREM AlwaysSafe == Spec => []Safe
BY InitSafe, NextSafe, PTL DEF Spec

\* The rows and the volatile state of the relay keep their types.
THEOREM LiveTypes == Spec => []TypeOK
<1>1. Safe => TypeOK
  BY DEF Safe
<1> QED
  BY <1>1, AlwaysSafe, PTL

\* No wake-up is lost: a long poll that sleeps waits for something that is still
\* open, whatever answers, purges, revocations and timers did (worker.js:646-664).
THEOREM NobodyEverSleepsOnSettled == Spec => []NobodySleepsOnSettled
<1>1. Safe => NobodySleepsOnSettled
  BY DEF Safe
<1> QED
  BY <1>1, AlwaysSafe, PTL

\* The waiter count never drifts from the number of long polls that wait, and
\* keeps to its limit (worker.js:650-662).
THEOREM WaitersAlwaysCounted == Spec => []WaitersCounted
<1>1. Safe => WaitersCounted
  BY DEF Safe
<1> QED
  BY <1>1, AlwaysSafe, PTL

\* A welcomed socket was sent everything that waits for its device
\* (worker.js:763-776, :806-810).
THEOREM WelcomedAlwaysHasAll == Spec => []WelcomedHasAll
<1>1. Safe => WelcomedHasAll
  BY DEF Safe
<1> QED
  BY <1>1, AlwaysSafe, PTL

\* A revoked device has no open socket (worker.js:515, :923).
THEOREM RevokedAlwaysCutOff == Spec => []RevokedIsCutOff
<1>1. Safe => RevokedIsCutOff
  BY DEF Safe
<1> QED
  BY <1>1, AlwaysSafe, PTL

\* One socket per device, and no more than MAX_SOCKETS (worker.js:924-933).
THEOREM SocketsAlwaysBounded == Spec => []SocketsBounded
<1>1. Safe => SocketsBounded
  BY DEF Safe
<1> QED
  BY <1>1, AlwaysSafe, PTL

\* A connected device is always admitted in place of its own socket
\* (worker.js:930).
THEOREM ReplacementAlwaysAdmitted == Spec => []ReplacementAdmitted
<1>1. Safe => ReplacementAdmitted
  <2> SUFFICES ASSUME Safe, NEW s \in active PROVE admits(sock[s].dev)
    BY DEF ReplacementAdmitted
  <2> DEFINE rest == active \ socketsFor(sock[s].dev)
  <2>1. active \in SUBSET Socket /\ s \in socketsFor(sock[s].dev)
    BY DEF active, socketsFor
  <2>2. rest \in SUBSET (active \ {s})
    BY <2>1
  <2>3. IsFiniteSet(active) /\ IsFiniteSet(active \ {s}) /\ Cardinality(active) \in Nat /\ Cardinality(rest) \in Nat
    BY <2>1, SocketsFinite
  <2>4. Cardinality(active \ {s}) = Cardinality(active) - 1
    BY <2>3, FS_RemoveElement
  <2>5. Cardinality(rest) <= Cardinality(active \ {s})
    BY <2>2, <2>3, FS_Subset
  <2> QED
    BY <2>3, <2>4, <2>5, RelayLiveAssumption DEF Safe, SocketsBounded, admits
<1> QED
  BY <1>1, AlwaysSafe, PTL
=============================================================================
