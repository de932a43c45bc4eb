------------------------ MODULE ResultDeliveryProofs ------------------------
(***************************************************************************)
(* Theorems about ResultDelivery for any devices, any number of results    *)
(* and sockets, any deadlines, and any number of busy episodes and lapses; *)
(* that a busy relay is waited out, for deadlines in the proportions of    *)
(* the source's.                                                           *)
(*                                                                         *)
(* The invariant comes in layers, each proved with those before it: types; *)
(* that results are numbered as they are sent (Numbered); whose everything *)
(* on its way is (Own); what the delivery in progress has sent (Turn); and *)
(* what an answer, on its way or already logged, says of the relay         *)
(* (Acknowledged, Refused).                                                *)
(***************************************************************************)
EXTENDS ResultDelivery, FiniteSetTheorems, TLAPS

-----------------------------------------------------------------------------
(* The inductive invariant *)

Status == {"none", "delivered", "refused", "failed", "late"}

Outcome == [is : Status, failures : 0 .. 1]

Job ==
  [pc : {"idle", "ack", "loop", "request", "sleep"}, id : 0 .. MaxCmd, token : Device \cup {None},
   wait : Nat, delivery : 0 .. DELIVERY, rate : 0 .. BUDGET \cup {None}, failures : 0 .. 1]

\* A result has an owner from the moment it is sent.
Issued(id) == owner[id] # None

\* The relay has forgotten the command, or the device it was taken under.
Lapsed(id) == id \notin owned \/ owner[id] \notin registered

Uploads == posts \cup DOMAIN slots

\* The relay has no result of the command and none is on its way.
Absent(id) ==
  /\ id \notin committed
  /\ \A m \in up : m.id # id
  /\ \A u \in Uploads : u.id # id

Numbered == \E n \in 0 .. MaxCmd : \A c \in Cmd : Issued(c) <=> c <= n

Own ==
  /\ \A m \in up : m.session \in DOMAIN sessions /\ sessions[m.session] = owner[m.id]
  /\ \A m, n \in up : m.id = n.id => m = n
  /\ \A u \in Uploads : u.token = owner[u.id]
  /\ \A r \in down : Issued(r.id)
  /\ \A id \in Cmd : outcome[id].is # "none" => Issued(id)
  /\ Len(sessions) <= MaxSessions /\ (open => sessions # <<>>)

\* A delivery that waits for an acknowledgement has uploaded nothing yet.
Turn ==
  /\ job.pc # "idle" =>
       job.id \in Cmd /\ Issued(job.id) /\ job.token = owner[job.id] /\ outcome[job.id].is = "none"
  /\ answer # None => job.pc = "request"
  /\ job.pc = "ack" => \A u \in Uploads : u.id # job.id

Acknowledged ==
  /\ \A r \in down : r.ok => r.id \in committed
  /\ answer # None /\ answer = "ok" => job.id \in committed
  /\ \A id \in Cmd : outcome[id].is = "delivered" => id \in committed

\* A refusal over HTTP, where a full table has an answer of its own, is always
\* of a command that lapsed; over a socket it may also be of a full table, and
\* then nothing follows that could still bring the result.
Refused ==
  /\ \A r \in down : ~r.ok /\ job.pc = "ack" /\ job.id = r.id => Lapsed(r.id) \/ Absent(r.id)
  /\ answer # None /\ answer = "refused" => Lapsed(job.id)
  /\ \A id \in Cmd : outcome[id].is = "refused" => Lapsed(id) \/ Absent(id)

\* The relay reads no more bodies of results at once than it has readers for.
Readers == IsFiniteSet(DOMAIN slots) /\ Cardinality(DOMAIN slots) + others <= READERS

DeliveryInv == TypeOK /\ Readers /\ Numbered /\ Own /\ Turn /\ Acknowledged /\ Refused /\ BoundedDelivery

-----------------------------------------------------------------------------
(* The delivery in progress *)

\* The constants.
LEMMA Constants ==
  /\ None \notin Device /\ None \notin Nat
  /\ ACK \in Nat \ {0} /\ REQUEST \in Nat \ {0} /\ RETRY \in Nat \ {0} /\ BUDGET \in Nat \ {0}
  /\ DELIVERY \in Nat \ {0} /\ HOLD \in Nat \ {0} /\ READERS \in Nat \ {0}
  /\ MaxCmd \in Nat /\ MaxSessions \in Nat /\ MaxBusy \in Nat /\ MaxLapses \in Nat
BY ResultAssumption

\* The job is one (background.js:1744-1751).
LEMMA JobType == ASSUME TypeOK PROVE job \in Job
BY DEF TypeOK, Job

\* What is left of a delivery is a time (postResult).
LEMMA LeftType == ASSUME NEW j \in Job PROVE left(j) \in Nat
BY Constants DEF Job, left, Least

\* Falling back to HTTP starts the whole delivery (sendResult).
LEMMA PostingJob ==
  ASSUME NEW j \in Job
  PROVE  posting(j) \in Job /\ posting(j).pc = "loop" /\ posting(j).id = j.id /\ posting(j).token = j.token
<1>1. DELIVERY \in 0 .. DELIVERY /\ 0 \in Nat
  BY Constants
<1>. QED BY <1>1 DEF Job, posting

\* A pause is no longer than what is left (postResult).
LEMMA PauseJob ==
  ASSUME NEW j \in Job
  PROVE  /\ pause(j) \in Job /\ pause(j).pc = "sleep" /\ pause(j).id = j.id /\ pause(j).token = j.token
         /\ pause(j).wait <= left(pause(j))
<1>. DEFINE w == Least(RETRY, left(j))
<1>1. w \in Nat /\ w <= left(j)
  BY LeftType, Constants DEF Least
<1>2. pause(j) = [j EXCEPT !.pc = "sleep", !.wait = w]
  BY DEF pause
<1>. HIDE DEF w
<1>3. pause(j) \in Job /\ pause(j).pc = "sleep" /\ pause(j).id = j.id /\ pause(j).token = j.token /\ pause(j).wait = w
  BY <1>1, <1>2 DEF Job
<1>4. left(pause(j)) = left(j)
  BY <1>2 DEF left, Job
<1>. QED BY <1>1, <1>3, <1>4

\* The window of a busy relay (429) is opened before the pause (postResult).
LEMMA BusyJob ==
  ASSUME NEW j \in Job
  PROVE  /\ afterBusy(j) \in Job /\ afterBusy(j).pc = "sleep"
         /\ afterBusy(j).id = j.id /\ afterBusy(j).token = j.token
         /\ afterBusy(j).wait <= left(afterBusy(j))
<1>. DEFINE k == IF j.rate = None THEN [j EXCEPT !.rate = BUDGET] ELSE j
<1>1. k \in Job /\ k.id = j.id /\ k.token = j.token
  BY Constants DEF Job
<1>2. afterBusy(j) = pause(k)
  BY DEF afterBusy
<1>. HIDE DEF k
<1>. QED BY <1>1, <1>2, PauseJob

\* The delivery sleeps before it is tried again.
Sleeps ==
  /\ job' \in Job /\ job'.pc = "sleep" /\ job'.id = job.id /\ job'.token = job.token
  /\ job'.wait <= left(job')
  /\ outcome' = outcome

\* A second try follows a sleep, or the delivery is late (postResult).
LEMMA Retried ==
  ASSUME NEW j \in Job, j.pc = "sleep", j.id = job.id, j.token = job.token, j.wait <= left(j), retry(j)
  PROVE  Sleeps \/ (job' = NoJob /\ outcome' = [outcome EXCEPT ![job.id] = [is |-> "late", failures |-> j.failures]])
BY DEF retry, Sleeps, ends

\* The delivery ends with the result.
EndsAs(result) ==
  \E n \in 0 .. 1 : job' = NoJob /\ outcome' = [outcome EXCEPT ![job.id] = [is |-> result, failures |-> n]]

\* A failed request is repeated or the delivery given up (postResult).
LEMMA FailedEnds ==
  ASSUME TypeOK, failed
  PROVE  Sleeps \/ EndsAs("failed") \/ EndsAs("late")
<1>1. job \in Job /\ job.failures \in 0 .. 1
  BY JobType DEF Job
<1>2. CASE job.failures = 1
  BY <1>1, <1>2 DEF failed, ends, EndsAs
<1>3. CASE job.failures # 1
  <2>. DEFINE k == [job EXCEPT !.failures = 1]
  <2>1. k \in Job /\ k.id = job.id /\ k.token = job.token
    BY <1>1 DEF Job
  <2>2. retry(pause(k))
    BY <1>3 DEF failed
  <2>. HIDE DEF k
  <2>. DEFINE p == pause(k)
  <2>3. p \in Job /\ p.pc = "sleep" /\ p.id = job.id /\ p.token = job.token /\ p.wait <= left(p) /\ retry(p)
    BY <2>1, <2>2, PauseJob
  <2>. HIDE DEF p
  <2>4. p.failures \in 0 .. 1
    BY <2>3 DEF Job
  <2>. QED BY <2>3, <2>4, Retried DEF EndsAs
<1>. QED BY <1>2, <1>3

\* An answer ends the delivery, or it is tried again (postResult).
LEMMA AnswerEnds ==
  ASSUME TypeOK, HearAnswer
  PROVE  \/ answer = "ok" /\ EndsAs("delivered")
         \/ answer = "refused" /\ EndsAs("refused")
         \/ Sleeps \/ EndsAs("failed") \/ EndsAs("late")
<1>1. job \in Job /\ job.failures \in 0 .. 1
  BY JobType DEF Job
<1>2. answer \in {"ok", "refused", "busy", "failed"}
  BY DEF HearAnswer, TypeOK
<1>3. CASE answer = "ok"
  BY <1>1, <1>3 DEF HearAnswer, ends, EndsAs
<1>4. CASE answer = "refused"
  BY <1>1, <1>4 DEF HearAnswer, ends, EndsAs
<1>5. CASE answer = "busy"
  <2>. DEFINE p == afterBusy(job)
  <2>1. retry(p)
    BY <1>5 DEF HearAnswer
  <2>2. p \in Job /\ p.pc = "sleep" /\ p.id = job.id /\ p.token = job.token /\ p.wait <= left(p)
    BY <1>1, BusyJob
  <2>. HIDE DEF p
  <2>3. p.failures \in 0 .. 1
    BY <2>2 DEF Job
  <2>. QED BY <2>1, <2>2, <2>3, Retried DEF EndsAs
<1>6. CASE answer = "failed"
  <2>1. failed
    BY <1>6 DEF HearAnswer
  <2>. QED BY <2>1, FailedEnds
<1>. QED BY <1>2, <1>3, <1>4, <1>5, <1>6

-----------------------------------------------------------------------------
(* Types *)

\* The outcome of a delivery that ends is one (background.js:1744-1751).
LEMMA EndsTypes ==
  ASSUME TypeOK, NEW result \in Status, EndsAs(result)
  PROVE  job' \in Job /\ outcome' \in [Cmd -> Outcome]
<1>1. PICK n \in 0 .. 1 : job' = NoJob /\ outcome' = [outcome EXCEPT ![job.id] = [is |-> result, failures |-> n]]
  BY DEF EndsAs
<1>2. NoJob \in Job
  BY Constants DEF NoJob, Job
<1>3. outcome \in [Cmd -> Outcome] /\ [is |-> result, failures |-> n] \in Outcome
  BY DEF TypeOK, Outcome, Status
<1>. QED BY <1>1, <1>2, <1>3

\* A socket that closes leaves an extension (failPendingResultAcks).
LEMMA ClosedTypes ==
  ASSUME TypeOK, closed
  PROVE  open' = FALSE /\ down' = {} /\ job' \in Job
BY JobType, PostingJob DEF closed

\* The number of the next result (sendResult).
nextId == Cardinality({c \in Cmd : owner[c] # None}) + 1

\* Results are numbered one after the other.
LEMMA NextNumber ==
  ASSUME NEW n \in 0 .. MaxCmd, \A c \in Cmd : Issued(c) <=> c <= n
  PROVE  nextId = n + 1
<1>1. {c \in Cmd : owner[c] # None} = 1 .. n
  BY Constants DEF Issued, Cmd
<1>2. Cardinality(1 .. n) = n
  <2>1. Cardinality(1 .. n) = IF 1 > n THEN 0 ELSE n - 1 + 1
    BY FS_Interval
  <2>. QED BY <2>1
<1>. QED BY <1>1, <1>2 DEF nextId

\* The next result is one nobody has heard of.
LEMMA NextIsNew ==
  ASSUME Numbered, nextId \in Cmd
  PROVE  ~Issued(nextId) /\ \A c \in Cmd : Issued(c) => c < nextId
<1>1. PICK n \in 0 .. MaxCmd : \A c \in Cmd : Issued(c) <=> c <= n
  BY DEF Numbered
<1>2. nextId = n + 1
  BY <1>1, NextNumber
<1>. QED BY <1>1, <1>2, Constants DEF Cmd

\* The job of a result that is sent, and what is sent of it (sendResult).
LEMMA SendsJob ==
  ASSUME TypeOK, NEW d \in Device, NEW origin, NEW small, SendResult(d, origin, small)
  PROVE  /\ nextId \in Cmd /\ job = NoJob
         /\ owner' = [owner EXCEPT ![nextId] = d]
         /\ job' \in Job /\ job'.id = nextId /\ job'.token = d
         /\ \/ /\ job'.pc = "ack" /\ up' = up \cup {[id |-> nextId, session |-> Len(sessions)]}
               /\ open /\ sessions[Len(sessions)] = d
            \/ job'.pc = "loop" /\ up' = up
<1>. DEFINE j == [NoJob EXCEPT !.id = nextId, !.token = d]
<1>1. nextId \in Cmd /\ job = NoJob /\ owner' = [owner EXCEPT ![nextId] = d]
  BY DEF SendResult, nextId
<1>2. nextId \in 0 .. MaxCmd
  BY <1>1 DEF Cmd
<1>3. j \in Job /\ j.id = nextId /\ j.token = d
  <2>1. NoJob \in Job
    BY Constants DEF NoJob, Job
  <2>. QED BY <1>2, <2>1 DEF Job
<1>4. \/ /\ job' = [j EXCEPT !.pc = "ack", !.wait = ACK] /\ up' = up \cup {[id |-> nextId, session |-> Len(sessions)]}
         /\ open /\ sessions[Len(sessions)] = d
      \/ job' = posting(j) /\ up' = up
  BY DEF SendResult, nextId, carries
<1>. HIDE DEF j
<1>5. posting(j) \in Job /\ posting(j).pc = "loop" /\ posting(j).id = j.id /\ posting(j).token = j.token
  BY <1>3, PostingJob
<1>6. ASSUME job' = [j EXCEPT !.pc = "ack", !.wait = ACK]
      PROVE  job' \in Job /\ job'.pc = "ack" /\ job'.id = nextId /\ job'.token = d
  BY <1>3, <1>6, Constants DEF Job
<1>. QED BY <1>1, <1>3, <1>4, <1>5, <1>6

\* Types in four parts: the extension, the wires, the relay and the history.
ExtensionTypes == token \in Device /\ sessions \in Seq(Device) /\ open \in BOOLEAN /\ job \in Job

WireTypes ==
  /\ up \subseteq [id : Cmd, session : 1 .. MaxSessions] /\ down \subseteq [id : Cmd, ok : BOOLEAN]
  /\ posts \subseteq Upload /\ answer \in {None, "ok", "refused", "busy", "failed"}

Slots == slots \in [DOMAIN slots -> 0 .. HOLD] /\ DOMAIN slots \subseteq Upload

RelayTypes ==
  /\ registered \subseteq Device /\ owned \subseteq Cmd /\ full \in BOOLEAN /\ committed \subseteq Cmd
  /\ Slots /\ others \in 0 .. READERS /\ busy \in 0 .. HOLD

HistoryTypes ==
  /\ paired \subseteq Device /\ owner \in [Cmd -> Device \cup {None}]
  /\ outcome \in [Cmd -> Outcome]
  /\ used \in [busy : 0 .. MaxBusy, lapses : 0 .. MaxLapses]

\* The parts are all of TypeOK.
LEMMA TypesApart == TypeOK <=> ExtensionTypes /\ WireTypes /\ RelayTypes /\ HistoryTypes
BY DEF TypeOK, ExtensionTypes, WireTypes, RelayTypes, Slots, HistoryTypes, Job, Outcome, Status

\* The parts are all of TypeOK after a step, too.
LEMMA TypesTogether ==
  ASSUME ExtensionTypes', WireTypes', RelayTypes', HistoryTypes'
  PROVE  TypeOK'
BY DEF TypeOK, ExtensionTypes, WireTypes, RelayTypes, Slots, HistoryTypes, Job, Outcome, Status

\* Initially everything has its type.
LEMMA InitTypes == Init => TypeOK
<1>. SUFFICES ASSUME Init PROVE TypeOK
  OBVIOUS
<1>1. ExtensionTypes
  <2>1. NoJob \in Job
    BY Constants DEF NoJob, Job
  <2>2. <<>> \in Seq(Device)
    OBVIOUS
  <2>. QED BY <2>1, <2>2 DEF Init, ExtensionTypes
<1>2. WireTypes
  BY DEF Init, WireTypes
<1>3. RelayTypes
  <2>1. Slots
    BY DEF Init, Slots
  <2>2. 0 \in 0 .. READERS /\ 0 \in 0 .. HOLD
    BY Constants
  <2>. QED BY <2>1, <2>2 DEF Init, RelayTypes
<1>4. HistoryTypes
  BY Constants DEF Init, HistoryTypes, Outcome, Status
<1>. QED BY <1>1, <1>2, <1>3, <1>4, TypesApart

\* A result that is sent (sendResult).
LEMMA SendTypes ==
  ASSUME TypeOK, Own, NEW d \in Device, NEW origin, NEW small, SendResult(d, origin, small)
  PROVE  TypeOK'
<1>0. ExtensionTypes /\ WireTypes /\ RelayTypes /\ HistoryTypes
  BY TypesApart
<1>1. ExtensionTypes'
  BY <1>0, SendsJob DEF SendResult, ExtensionTypes
<1>2. WireTypes'
  <2>1. open => Len(sessions) \in 1 .. MaxSessions
    BY <1>0 DEF Own, ExtensionTypes
  <2>2. nextId \in Cmd /\ (up' = up \/ (open /\ up' = up \cup {[id |-> nextId, session |-> Len(sessions)]}))
    BY SendsJob
  <2>3. up' \subseteq [id : Cmd, session : 1 .. MaxSessions]
    BY <1>0, <2>1, <2>2 DEF WireTypes
  <2>. QED BY <1>0, <2>3 DEF SendResult, WireTypes
<1>3. RelayTypes'
  BY <1>0 DEF SendResult, RelayTypes, Slots, relay
<1>4. HistoryTypes'
  BY <1>0, SendsJob DEF SendResult, HistoryTypes
<1>. QED BY <1>1, <1>2, <1>3, <1>4, TypesTogether

\* The steps of the delivery in progress (sendResult, postResult).
LEMMA JobTypes ==
  ASSUME TypeOK, Turn,
         (\E r \in down : HearReply(r)) \/ HearAnswer \/ AckTimeout \/ StartRequest \/ RequestFails \/ Awake
  PROVE  TypeOK'
<1>0. ExtensionTypes /\ WireTypes /\ RelayTypes /\ HistoryTypes /\ job \in Job
  BY TypesApart DEF ExtensionTypes
<1>1. ASSUME job' \in Job, outcome' \in [Cmd -> Outcome], down' \subseteq down, posts' \subseteq Upload, answer' \in {answer, None},
             UNCHANGED <<token, sessions, open, up, relay, paired, owner, used>>
      PROVE  TypeOK'
  <2>1. ExtensionTypes'
    BY <1>0, <1>1 DEF ExtensionTypes
  <2>2. WireTypes'
    BY <1>0, <1>1 DEF WireTypes
  <2>3. RelayTypes'
    BY <1>0, <1>1 DEF RelayTypes, Slots, relay
  <2>4. HistoryTypes'
    BY <1>0, <1>1 DEF HistoryTypes
  <2>. QED BY <2>1, <2>2, <2>3, <2>4, TypesTogether
<1>2. ASSUME NEW r \in down, HearReply(r) PROVE TypeOK'
  <2>1. r.ok \in BOOLEAN /\ job.failures \in 0 .. 1
    BY <1>0 DEF WireTypes, Job
  <2>2. UNCHANGED <<job, outcome>> \/ EndsAs("delivered") \/ EndsAs("refused")
    BY <1>2, <2>1 DEF HearReply, settled, ends, EndsAs
  <2>3. job' \in Job /\ outcome' \in [Cmd -> Outcome]
    <3>1. ASSUME UNCHANGED <<job, outcome>> PROVE job' \in Job /\ outcome' \in [Cmd -> Outcome]
      BY <1>0, <3>1 DEF HistoryTypes
    <3>. QED BY <2>2, <3>1, EndsTypes DEF Status
  <2>. QED BY <1>0, <1>1, <1>2, <2>3 DEF HearReply, WireTypes
<1>3. ASSUME Sleeps \/ EndsAs("delivered") \/ EndsAs("refused") \/ EndsAs("failed") \/ EndsAs("late")
      PROVE  job' \in Job /\ outcome' \in [Cmd -> Outcome]
  <2>1. ASSUME Sleeps PROVE job' \in Job /\ outcome' \in [Cmd -> Outcome]
    BY <1>0, <2>1 DEF Sleeps, HistoryTypes
  <2>. QED BY <1>3, <2>1, EndsTypes DEF Status
<1>4. CASE HearAnswer
  BY <1>0, <1>1, <1>3, <1>4, AnswerEnds DEF HearAnswer, WireTypes
<1>5. CASE AckTimeout
  BY <1>0, <1>1, <1>5, PostingJob DEF AckTimeout, WireTypes, HistoryTypes, wires, history
<1>6. CASE StartRequest
  <2>1. job.id \in Cmd /\ job.token \in Device /\ job.failures \in 0 .. 1
    <3>1. job.id \in Cmd /\ job.token = owner[job.id] /\ owner[job.id] # None
      BY <1>6 DEF StartRequest, Turn, Issued
    <3>. QED BY <1>0, <3>1 DEF Job, HistoryTypes
  <2>2. CASE left(job) = 0
    <3>1. EndsAs("late")
      BY <1>6, <2>1, <2>2 DEF StartRequest, ends, EndsAs
    <3>. QED BY <1>0, <1>1, <1>3, <1>6, <2>2, <3>1 DEF StartRequest, WireTypes
  <2>3. CASE left(job) # 0
    <3>. DEFINE w == requestTime(job)
    <3>1. w \in Nat
      BY <1>0, LeftType, Constants DEF requestTime, Least
    <3>2. job' = [job EXCEPT !.pc = "request", !.wait = w] /\ outcome' = outcome
          /\ posts' = posts \cup {[id |-> job.id, token |-> job.token, try |-> job.failures]}
      BY <1>6, <2>3 DEF StartRequest
    <3>. HIDE DEF w
    <3>3. job' \in Job
      BY <1>0, <3>1, <3>2 DEF Job
    <3>4. posts' \subseteq Upload
      BY <1>0, <2>1, <3>2 DEF WireTypes, Upload
    <3>. QED BY <1>0, <1>1, <1>6, <3>2, <3>3, <3>4 DEF StartRequest, HistoryTypes
  <2>. QED BY <2>2, <2>3
<1>7. CASE RequestFails
  BY <1>0, <1>1, <1>3, <1>7, FailedEnds DEF RequestFails, WireTypes
<1>8. CASE Awake
  <2>1. job' = [job EXCEPT !.pc = "loop"]
    BY <1>8 DEF Awake
  <2>2. job' \in Job
    BY <1>0, <2>1 DEF Job
  <2>. QED BY <1>0, <1>1, <1>8, <2>2 DEF Awake, WireTypes, HistoryTypes, wires, history
<1>. QED BY <1>2, <1>4, <1>5, <1>6, <1>7, <1>8

\* The steps of the relay (webSocketMessage, handle /result).
LEMMA RelayStepTypes ==
  ASSUME TypeOK, RelayStep
  PROVE  TypeOK'
<1>0. ExtensionTypes /\ WireTypes /\ RelayTypes /\ HistoryTypes
  BY TypesApart
<1>1. ASSUME job' \in Job, open' \in BOOLEAN, up' \subseteq up, down' \subseteq [id : Cmd, ok : BOOLEAN], posts' \subseteq posts,
             answer' \in {None, "ok", "refused", "busy", "failed"}, committed' \subseteq Cmd, Slots',
             UNCHANGED <<token, sessions, registered, owned, full, others, busy, history>>
      PROVE  TypeOK'
  <2>1. ExtensionTypes'
    BY <1>0, <1>1 DEF ExtensionTypes
  <2>2. WireTypes'
    BY <1>0, <1>1 DEF WireTypes
  <2>3. RelayTypes'
    BY <1>0, <1>1 DEF RelayTypes
  <2>4. HistoryTypes'
    BY <1>0, <1>1 DEF HistoryTypes, history
  <2>. QED BY <2>1, <2>2, <2>3, <2>4, TypesTogether
<1>2. ASSUME NEW d, NEW id \in Cmd, commit(d, id) PROVE committed' \subseteq Cmd
  BY <1>0, <1>2 DEF commit, RelayTypes
<1>3. ASSUME UNCHANGED slots PROVE Slots'
  BY <1>0, <1>3 DEF RelayTypes, Slots
<1>4. ASSUME NEW u \in DOMAIN slots, release(u) PROVE Slots'
  BY <1>0, <1>4 DEF release, RelayTypes, Slots
<1>5. ASSUME NEW m \in up, ReceiveResult(m) PROVE TypeOK'
  <2>1. m.id \in Cmd
    BY <1>0 DEF WireTypes
  <2>2. CASE closed /\ UNCHANGED committed
    <3>1. job' \in Job /\ open' \in BOOLEAN /\ down' \subseteq [id : Cmd, ok : BOOLEAN]
      BY <2>2, ClosedTypes
    <3>. QED BY <1>0, <1>1, <1>3, <1>5, <2>2, <3>1 DEF ReceiveResult, WireTypes, RelayTypes
  <2>3. CASE commit(sessions[m.session], m.id) /\ UNCHANGED <<open, job>>
             /\ (down' = down \/ down' = down \cup {[id |-> m.id, ok |-> verdict(sessions[m.session], m.id) = "ok"]})
    <3>1. committed' \subseteq Cmd
      BY <1>2, <2>1, <2>3
    <3>2. (verdict(sessions[m.session], m.id) = "ok") \in BOOLEAN
      OBVIOUS
    <3>3. down' \subseteq [id : Cmd, ok : BOOLEAN]
      <4>. DEFINE b == verdict(sessions[m.session], m.id) = "ok"
      <4>1. down' = down \/ down' = down \cup {[id |-> m.id, ok |-> b]}
        BY <2>3
      <4>2. b \in BOOLEAN
        BY <3>2
      <4>. HIDE DEF b
      <4>. QED BY <1>0, <2>1, <4>1, <4>2 DEF WireTypes
    <3>. QED BY <1>0, <1>1, <1>3, <1>5, <2>3, <3>1, <3>3 DEF ReceiveResult, WireTypes, ExtensionTypes
  <2>. QED BY <1>5, <2>2, <2>3 DEF ReceiveResult
<1>6. ASSUME NEW u \in posts, AdmitUpload(u) PROVE TypeOK'
  <2>1. answer' \in {None, "ok", "refused", "busy", "failed"}
    BY <1>0, <1>6 DEF AdmitUpload, reply, WireTypes
  <2>2. Slots'
    <3>1. u \in Upload /\ HOLD \in 0 .. HOLD
      BY <1>0, Constants DEF WireTypes
    <3>2. CASE slots' = [v \in DOMAIN slots \cup {u} |-> IF v = u THEN HOLD ELSE slots[v]]
      BY <1>0, <3>1, <3>2 DEF RelayTypes, Slots
    <3>. QED BY <1>3, <1>6, <3>2 DEF AdmitUpload
  <2>. QED BY <1>0, <1>1, <1>6, <2>1, <2>2 DEF AdmitUpload, extension, ExtensionTypes, WireTypes, RelayTypes
<1>7. ASSUME NEW d, NEW id PROVE verdict(d, id) \in {"ok", "refused", "busy"}
  BY DEF verdict
<1>8. ASSUME NEW u \in DOMAIN slots, ReadBody(u) PROVE TypeOK'
  <2>1. u.id \in Cmd
    BY <1>0 DEF RelayTypes, Slots, Upload
  <2>2. committed' \subseteq Cmd
    BY <1>0, <1>2, <1>8, <2>1 DEF ReadBody, RelayTypes
  <2>3. answer' \in {None, "ok", "refused", "busy", "failed"}
    BY <1>0, <1>7, <1>8 DEF ReadBody, reply, WireTypes
  <2>4. Slots'
    BY <1>4, <1>8 DEF ReadBody
  <2>. QED BY <1>0, <1>1, <1>8, <2>2, <2>3, <2>4 DEF ReadBody, extension, ExtensionTypes, WireTypes
<1>9. ASSUME NEW u \in DOMAIN slots, BodyTimeout(u) PROVE TypeOK'
  <2>1. answer' \in {None, "ok", "refused", "busy", "failed"}
    BY <1>0, <1>9 DEF BodyTimeout, reply, WireTypes
  <2>2. Slots'
    BY <1>4, <1>9 DEF BodyTimeout
  <2>. QED BY <1>0, <1>1, <1>9, <2>1, <2>2 DEF BodyTimeout, extension, ExtensionTypes, WireTypes, RelayTypes
<1>. QED BY <1>5, <1>6, <1>8, <1>9 DEF RelayStep

\* Time leaves no more of a timer (setTimeout).
LEMMA LessType == ASSUME NEW n \in Nat PROVE less(n) \in Nat /\ less(n) <= n /\ (n # 0 => less(n) = n - 1)
BY DEF less

\* A second passes for the delivery in progress; the timer it waits for comes
\* no later than what is left (sleep, AbortSignal.timeout).
LEMMA TickJob ==
  ASSUME TypeOK, Tick
  PROVE  /\ job' \in Job /\ job'.pc = job.pc /\ job'.id = job.id /\ job'.token = job.token
         /\ job.wait <= left(job) => job'.wait <= left(job')
<1>1. job \in Job /\ job.wait \in Nat /\ job.delivery \in 0 .. DELIVERY /\ job.rate \in 0 .. BUDGET \cup {None}
  BY JobType DEF Job
<1>. DEFINE w == less(job.wait)
            d == less(job.delivery)
            r == IF job.rate = None THEN None ELSE less(job.rate)
<1>2. job' = [job EXCEPT !.wait = w, !.delivery = d, !.rate = r]
  BY DEF Tick
<1>3. w \in Nat /\ w = job.wait - 1
  BY <1>1, LessType DEF Tick, quiet
<1>4. d \in 0 .. DELIVERY /\ d \in Nat /\ d >= job.delivery - 1
  BY <1>1, LessType, Constants
<1>5. r \in 0 .. BUDGET \cup {None} /\ (job.rate = None => r = None)
      /\ (job.rate # None => job.rate \in Nat /\ r \in Nat /\ r >= job.rate - 1)
  BY <1>1, LessType, Constants
<1>. HIDE DEF w, d, r
<1>6. job' \in Job /\ job'.pc = job.pc /\ job'.id = job.id /\ job'.token = job.token
      /\ job'.wait = w /\ job'.delivery = d /\ job'.rate = r
  BY <1>1, <1>2, <1>3, <1>4, <1>5 DEF Job
<1>7. ASSUME job.wait <= left(job) PROVE job'.wait <= left(job')
  BY <1>1, <1>3, <1>4, <1>5, <1>6, <1>7, Constants DEF left, Least
<1>. QED BY <1>6, <1>7

\* What happens outside the delivery (sockets, pairing, other devices, time).
LEMMA OutsideTypes ==
  ASSUME TypeOK, Readers, Outside
  PROVE  TypeOK'
<1>0. ExtensionTypes /\ WireTypes /\ RelayTypes /\ HistoryTypes
  BY TypesApart
<1>1. ASSUME ExtensionTypes', down' \subseteq down, answer' = answer,
             UNCHANGED <<up, posts, relay, owner, outcome, used>>, paired' \subseteq Device
      PROVE  TypeOK'
  <2>1. WireTypes'
    BY <1>0, <1>1 DEF WireTypes
  <2>2. RelayTypes'
    BY <1>0, <1>1 DEF RelayTypes, Slots, relay
  <2>3. HistoryTypes'
    BY <1>0, <1>1 DEF HistoryTypes
  <2>. QED BY <1>1, <2>1, <2>2, <2>3, TypesTogether
<1>2. ASSUME RelayTypes', used' \in [busy : 0 .. MaxBusy, lapses : 0 .. MaxLapses],
             UNCHANGED <<extension, wires, paired, owner, outcome>>
      PROVE  TypeOK'
  <2>1. ExtensionTypes'
    BY <1>0, <1>2 DEF ExtensionTypes, extension
  <2>2. WireTypes'
    BY <1>0, <1>2 DEF WireTypes, wires
  <2>3. HistoryTypes'
    BY <1>0, <1>2 DEF HistoryTypes
  <2>. QED BY <1>2, <2>1, <2>2, <2>3, TypesTogether
<1>3. used \in [busy : 0 .. MaxBusy, lapses : 0 .. MaxLapses] /\ Slots
  BY <1>0 DEF HistoryTypes, RelayTypes
<1>4. CASE Connect
  <2>1. ExtensionTypes'
    BY <1>0, <1>4 DEF Connect, ExtensionTypes
  <2>. QED BY <1>0, <1>1, <1>4, <2>1 DEF Connect, wires, history, HistoryTypes
<1>5. CASE SocketCloses
  <2>1. ExtensionTypes'
    BY <1>0, <1>5, ClosedTypes DEF SocketCloses, ExtensionTypes
  <2>. QED BY <1>0, <1>1, <1>5, <2>1, ClosedTypes DEF SocketCloses, history, HistoryTypes
<1>6. ASSUME NEW d \in Device, Pair(d) PROVE TypeOK'
  <2>1. ExtensionTypes'
    BY <1>0, <1>6, ClosedTypes DEF Pair, ExtensionTypes
  <2>. QED BY <1>0, <1>1, <1>6, <2>1, ClosedTypes DEF Pair, HistoryTypes
<1>7. ASSUME Slots', UNCHANGED <<registered, owned, full, committed>>, others' \in 0 .. READERS, busy' \in 0 .. HOLD
      PROVE  RelayTypes'
  BY <1>0, <1>7 DEF RelayTypes
<1>8. ASSUME UNCHANGED slots PROVE Slots'
  BY <1>3, <1>8 DEF Slots
<1>9. CASE OthersUpload
  <2>1. others' \in 0 .. READERS
    <3>1. IsFiniteSet(DOMAIN slots) => Cardinality(DOMAIN slots) \in Nat
      BY FS_CardinalityType
    <3>. QED BY <1>9, <3>1, Constants DEF OthersUpload, Readers
  <2>2. HOLD \in 0 .. HOLD
    BY Constants
  <2>3. used' \in [busy : 0 .. MaxBusy, lapses : 0 .. MaxLapses]
    BY <1>3, <1>9, Constants DEF OthersUpload
  <2>. QED BY <1>2, <1>7, <1>8, <1>9, <2>1, <2>2, <2>3 DEF OthersUpload
<1>10. CASE OthersDone
  BY <1>2, <1>3, <1>7, <1>8, <1>10, Constants DEF OthersDone, history
<1>11. CASE Lapse
  <2>1. used' \in [busy : 0 .. MaxBusy, lapses : 0 .. MaxLapses]
    BY <1>3, <1>11, Constants DEF Lapse
  <2>2. RelayTypes'
    BY <1>0, <1>8, <1>11 DEF Lapse, RelayTypes
  <2>. QED BY <1>2, <1>11, <2>1, <2>2 DEF Lapse
<1>12. CASE RoomAgain
  <2>1. RelayTypes'
    BY <1>0, <1>8, <1>12 DEF RoomAgain, RelayTypes
  <2>. QED BY <1>2, <1>3, <1>12, <2>1 DEF RoomAgain, history
<1>13. CASE Tick
  <2>1. \A n \in 0 .. HOLD : less(n) \in 0 .. HOLD
    BY LessType, Constants
  <2>2. Slots'
    BY <1>3, <1>13, <2>1 DEF Tick, Slots
  <2>3. RelayTypes'
    BY <1>0, <1>13, <2>1, <2>2 DEF Tick, RelayTypes
  <2>4. ExtensionTypes'
    BY <1>0, <1>13, TickJob DEF Tick, ExtensionTypes
  <2>5. WireTypes'
    BY <1>0, <1>13 DEF Tick, WireTypes, wires
  <2>6. HistoryTypes'
    BY <1>0, <1>13 DEF Tick, HistoryTypes
  <2>. QED BY <2>3, <2>4, <2>5, <2>6, TypesTogether
<1>. QED BY <1>4, <1>5, <1>6, <1>9, <1>10, <1>11, <1>12, <1>13 DEF Outside

\* Every step keeps the types.
LEMMA TypesStep ==
  ASSUME TypeOK, Readers, Own, Turn, [Next]_vars
  PROVE  TypeOK'
<1>1. CASE ExtensionStep
  BY <1>1, SendTypes, JobTypes DEF ExtensionStep
<1>2. CASE UNCHANGED vars
  BY <1>2 DEF TypeOK, vars, extension, wires, relay, history
<1>. QED BY <1>1, <1>2, RelayStepTypes, OutsideTypes DEF Next

\* The relay's readers are never too many (worker.js:862-870, fetch).
LEMMA ReadersStep ==
  ASSUME TypeOK, Readers, [Next]_vars
  PROVE  Readers'
<1>. DEFINE D == DOMAIN slots
<1>0. IsFiniteSet(D) /\ Cardinality(D) \in Nat /\ others \in 0 .. READERS
  BY FS_CardinalityType DEF TypeOK, Readers
<1>1. ASSUME UNCHANGED <<slots, others>> PROVE Readers'
  BY <1>1 DEF Readers
<1>2. ASSUME NEW u \in D, release(u), others' = others PROVE Readers'
  <2>1. DOMAIN slots' = D \ {u}
    BY <1>2 DEF release
  <2>2. IsFiniteSet(D \ {u}) /\ Cardinality(D \ {u}) <= Cardinality(D) /\ Cardinality(D \ {u}) \in Nat
    BY <1>0, FS_Subset, FS_CardinalityType
  <2>. HIDE DEF D
  <2>3. Cardinality(D) + others <= READERS
    BY DEF Readers, D
  <2>. QED BY <1>0, <1>2, <2>1, <2>2, <2>3, Constants DEF Readers
<1>3. ASSUME NEW u \in posts, AdmitUpload(u) PROVE Readers'
  <2>1. CASE UNCHANGED slots
    BY <1>1, <1>3, <2>1 DEF AdmitUpload
  <2>2. CASE slots' = [v \in D \cup {u} |-> IF v = u THEN HOLD ELSE slots[v]] /\ admits(u)
    <3>1. DOMAIN slots' = D \cup {u}
      BY <2>2
    <3>2. IsFiniteSet(D \cup {u}) /\ Cardinality(D \cup {u}) <= Cardinality(D) + 1 /\ Cardinality(D \cup {u}) \in Nat
      BY <1>0, FS_AddElement, FS_CardinalityType
    <3>3. Cardinality(D) + others < READERS /\ others' = others
      BY <1>3, <2>2 DEF AdmitUpload, admits
    <3>. HIDE DEF D
    <3>. QED BY <1>0, <3>1, <3>2, <3>3, Constants DEF Readers
  <2>. QED BY <1>3, <2>1, <2>2 DEF AdmitUpload
<1>4. CASE OthersUpload
  <2>1. DOMAIN slots' = D /\ others' \in 1 .. READERS - Cardinality(D)
    BY <1>4 DEF OthersUpload
  <2>. HIDE DEF D
  <2>. QED BY <1>0, <2>1, Constants DEF Readers
<1>5. CASE OthersDone
  <2>1. DOMAIN slots' = D /\ others' = 0
    BY <1>5 DEF OthersDone
  <2>2. Cardinality(D) + others <= READERS
    BY DEF Readers
  <2>. HIDE DEF D
  <2>. QED BY <1>0, <2>1, <2>2, Constants DEF Readers
<1>6. CASE Tick
  BY <1>6 DEF Tick, Readers
<1>7. CASE ExtensionStep
  BY <1>1, <1>7 DEF ExtensionStep, SendResult, HearReply, HearAnswer, AckTimeout, StartRequest, RequestFails, Awake, relay
<1>8. CASE RelayStep
  BY <1>1, <1>2, <1>3, <1>8 DEF RelayStep, ReceiveResult, ReadBody, BodyTimeout
<1>9. CASE Connect \/ SocketCloses \/ Lapse \/ RoomAgain \/ (\E d \in Device : Pair(d)) \/ UNCHANGED vars
  BY <1>1, <1>9 DEF Connect, SocketCloses, Lapse, RoomAgain, Pair, vars, relay
<1>. QED BY <1>4, <1>5, <1>6, <1>7, <1>8, <1>9 DEF Next, Outside

-----------------------------------------------------------------------------
(* Ownership and what the log says *)

Honest == Numbered /\ Own /\ Turn /\ Acknowledged /\ Refused

\* Nothing new is sent and no delivery ends: what is on its way is what was on
\* its way, and the relay says only what is so.
LEMMA Carried ==
  ASSUME TypeOK, TypeOK', Honest, UNCHANGED <<owner, outcome>>,
         Len(sessions') <= MaxSessions /\ (open' => sessions' # <<>>),
         \A i \in DOMAIN sessions : i \in DOMAIN sessions' /\ sessions'[i] = sessions[i],
         up' \subseteq up, Uploads' \subseteq Uploads,
         owned' \subseteq owned, registered' \subseteq registered, committed \subseteq committed',
         \A id \in committed' \ committed : ~Absent(id),
         \A r \in down' \ down :
           /\ Issued(r.id)
           /\ r.ok => r.id \in committed'
           /\ ~r.ok => Lapsed(r.id) \/ (job.pc = "ack" /\ job.id = r.id => Absent(r.id)'),
         job'.id = job.id, job'.token = job.token,
         job'.pc = "idle" => job.pc = "idle", job.pc = "idle" => job'.pc = "idle",
         job'.pc = "ack" => job.pc = "ack",
         answer' # None => job'.pc = "request",
         answer' # None /\ answer' = "ok" => (answer = "ok" /\ answer # None) \/ job.id \in committed',
         answer' # None /\ answer' = "refused" => (answer = "refused" /\ answer # None) \/ Lapsed(job.id)
  PROVE  Honest'
<1>0. \A id : Issued(id)' <=> Issued(id)
  BY DEF Issued
<1>1. \A id : Lapsed(id) => Lapsed(id)'
  BY DEF Lapsed
<1>2. \A id : Absent(id) => Absent(id)'
  BY DEF Absent
<1>3. Numbered'
  <2>1. PICK n \in 0 .. MaxCmd : \A c \in Cmd : Issued(c) <=> c <= n
    BY DEF Honest, Numbered
  <2>. QED BY <2>1 DEF Numbered, Issued
<1>4. Own'
  <2>1. \A m \in up' : m.session \in DOMAIN sessions' /\ sessions'[m.session] = owner'[m.id]
    BY DEF Honest, Own
  <2>2. \A m, n \in up' : m.id = n.id => m = n
    BY DEF Honest, Own
  <2>3. \A u \in Uploads' : u.token = owner'[u.id]
    BY DEF Honest, Own
  <2>4. \A r \in down' : Issued(r.id)
    BY DEF Honest, Own
  <2>5. \A id \in Cmd : outcome'[id].is # "none" => Issued(id)
    BY DEF Honest, Own
  <2>. QED BY <1>0, <2>1, <2>2, <2>3, <2>4, <2>5 DEF Own
<1>5. Turn'
  <2>1. job'.pc # "idle" => job'.id \in Cmd /\ Issued(job'.id) /\ job'.token = owner'[job'.id] /\ outcome'[job'.id].is = "none"
    BY DEF Honest, Turn
  <2>2. job'.pc = "ack" => \A u \in Uploads' : u.id # job'.id
    BY DEF Honest, Turn
  <2>. QED BY <1>0, <2>1, <2>2 DEF Turn
<1>6. Acknowledged'
  <2>1. \A r \in down' : r.ok => r.id \in committed'
    BY DEF Honest, Acknowledged
  <2>2. answer' # None /\ answer' = "ok" => job'.id \in committed'
    BY DEF Honest, Acknowledged
  <2>3. \A id \in Cmd : outcome'[id].is = "delivered" => id \in committed'
    BY DEF Honest, Acknowledged
  <2>. QED BY <2>1, <2>2, <2>3 DEF Acknowledged
<1>7. Refused'
  <2>1. ASSUME NEW r \in down', ~r.ok, job'.pc = "ack", job'.id = r.id PROVE Lapsed(r.id)' \/ Absent(r.id)'
    <3>1. CASE r \in down
      BY <1>1, <1>2, <2>1, <3>1 DEF Honest, Refused
    <3>. QED BY <1>1, <2>1, <3>1
  <2>2. answer' # None /\ answer' = "refused" => Lapsed(job.id)'
    BY <1>1 DEF Honest, Refused
  <2>3. \A id \in Cmd : outcome'[id].is = "refused" => Lapsed(id)' \/ Absent(id)'
    BY <1>1, <1>2 DEF Honest, Refused
  <2>. QED BY <2>1, <2>2, <2>3 DEF Refused
<1>. QED BY <1>3, <1>4, <1>5, <1>6, <1>7 DEF Honest

\* A delivery ends: what its log says was so when the answer was heard.
LEMMA Ended ==
  ASSUME TypeOK, TypeOK', Honest, job.pc # "idle", NEW result \in Status \ {"none"}, EndsAs(result),
         UNCHANGED <<sessions, open, up, posts, owner, registered, owned, committed, slots>>,
         down' \subseteq down, answer' = None,
         result = "delivered" => job.id \in committed,
         result = "refused" => Lapsed(job.id) \/ Absent(job.id)
  PROVE  Honest'
<1>0. (\A id : Issued(id)' <=> Issued(id)) /\ (\A id : Lapsed(id)' <=> Lapsed(id)) /\ Uploads' = Uploads
  BY DEF Issued, Lapsed, Uploads
<1>1. \A id : Absent(id)' <=> Absent(id)
  BY <1>0 DEF Absent
<1>2. job' = NoJob /\ job'.pc = "idle"
  BY DEF EndsAs, NoJob
<1>3. \A id \in Cmd : IF id = job.id THEN outcome'[id].is = result ELSE outcome'[id] = outcome[id]
  BY DEF EndsAs, TypeOK
<1>4. Numbered'
  <2>1. PICK n \in 0 .. MaxCmd : \A c \in Cmd : Issued(c) <=> c <= n
    BY DEF Honest, Numbered
  <2>. QED BY <2>1 DEF Numbered, Issued
<1>5. Own'
  <2>1. \A id \in Cmd : outcome'[id].is # "none" => Issued(id)
    BY <1>3 DEF Honest, Own, Turn
  <2>. QED BY <1>0, <2>1 DEF Honest, Own
<1>6. Turn'
  BY <1>2 DEF Turn
<1>7. Acknowledged'
  BY <1>3, Constants DEF Honest, Acknowledged
<1>8. Refused'
  BY <1>0, <1>1, <1>2, <1>3 DEF Honest, Refused
<1>. QED BY <1>4, <1>5, <1>6, <1>7, <1>8 DEF Honest

\* The delivery under way stays the one it was.
Stays ==
  /\ job'.id = job.id /\ job'.token = job.token
  /\ job'.pc = "idle" <=> job.pc = "idle"
  /\ job'.pc = "ack" => job.pc = "ack"

\* Nothing is received: what is on its way becomes less, or time passes.
LEMMA CarriedOn ==
  ASSUME TypeOK, TypeOK', Honest, Stays,
         UNCHANGED <<sessions, up, posts, owner, outcome, committed>>, DOMAIN slots' = DOMAIN slots,
         down' \subseteq down, owned' \subseteq owned, registered' \subseteq registered, open' => open,
         answer' # None => answer' = answer /\ job'.pc = job.pc
  PROVE  Honest'
<1>1. Len(sessions') <= MaxSessions /\ (open' => sessions' # <<>>)
  BY DEF Honest, Own
<1>2. Uploads' \subseteq Uploads
  BY DEF Uploads
<1>3. answer' # None => job'.pc = "request"
  BY DEF Honest, Turn
<1>. QED BY <1>1, <1>2, <1>3, Carried DEF Stays

\* A socket that closes settles the wait: the delivery stays what it was
\* (failPendingResultAcks, waitForResultAck).
LEMMA ClosedStays ==
  ASSUME TypeOK, Honest, closed
  PROVE  Stays /\ ~open' /\ down' \subseteq down /\ (job.pc = "request" => job'.pc = "request")
<1>1. job \in Job
  BY JobType
<1>2. CASE job.pc = "ack"
  BY <1>1, <1>2, PostingJob DEF closed, Stays
<1>3. CASE job.pc # "ack"
  BY <1>1, <1>3 DEF closed, Stays
<1>. QED BY <1>2, <1>3

\* A result that is sent is the next one, under its owner (sendResult).
LEMMA SendHonest ==
  ASSUME TypeOK, TypeOK', Honest, NEW d \in Device, NEW origin, NEW small, SendResult(d, origin, small)
  PROVE  Honest'
<1>1. PICK k \in Cmd :
      /\ k = nextId /\ job = NoJob /\ owner' = [owner EXCEPT ![k] = d]
      /\ job' \in Job /\ job'.id = k /\ job'.token = d
      /\ \/ /\ job'.pc = "ack" /\ up' = up \cup {[id |-> k, session |-> Len(sessions)]}
            /\ open /\ sessions[Len(sessions)] = d
         \/ job'.pc = "loop" /\ up' = up
  BY SendsJob
<1>2. UNCHANGED <<sessions, open, down, posts, answer, registered, owned, committed, slots, outcome>> /\ Uploads' = Uploads
  BY DEF SendResult, relay, Uploads
<1>3. owner \in [Cmd -> Device \cup {None}] /\ d # None /\ sessions \in Seq(Device) /\ up \subseteq [id : Cmd, session : 1 .. MaxSessions]
      /\ Uploads \subseteq Upload /\ down \subseteq [id : Cmd, ok : BOOLEAN]
  BY Constants DEF TypeOK, Uploads
<1>4. owner'[k] = d /\ \A id \in Cmd \ {k} : owner'[id] = owner[id]
  BY <1>1, <1>3
<1>5. ~Issued(k)
  BY <1>1, NextIsNew DEF Honest
<1>6. answer = None
  BY <1>1 DEF Honest, Turn, NoJob
<1>7. \A id \in Cmd : Issued(id) => id # k /\ Issued(id)' /\ (Lapsed(id) => Lapsed(id)') /\ (Absent(id) => Absent(id)')
  <2>. SUFFICES ASSUME NEW id \in Cmd, Issued(id)
                PROVE  id # k /\ Issued(id)' /\ (Lapsed(id) => Lapsed(id)') /\ (Absent(id) => Absent(id)')
    OBVIOUS
  <2>1. id # k
    BY <1>5
  <2>2. Issued(id)' /\ (Lapsed(id) => Lapsed(id)')
    BY <1>2, <1>4, <2>1 DEF Issued, Lapsed
  <2>3. Absent(id) => Absent(id)'
    BY <1>1, <1>2, <2>1 DEF Absent
  <2>. QED BY <2>1, <2>2, <2>3
<1>8. Numbered'
  <2>1. PICK n \in 0 .. MaxCmd : \A c \in Cmd : Issued(c) <=> c <= n
    BY DEF Honest, Numbered
  <2>2. \A c \in Cmd : c < k => Issued(c)
    <3>1. k = n + 1
      BY <1>1, <2>1, NextNumber
    <3>. QED BY <2>1, <3>1, Constants DEF Cmd
  <2>3. \A c \in Cmd : Issued(c)' <=> c <= k
    <3>1. \A c \in Cmd : Issued(c) => c < k
      BY <1>1, NextIsNew DEF Honest
    <3>2. \A c \in Cmd : c = k \/ (Issued(c)' <=> Issued(c))
      BY <1>4 DEF Issued
    <3>3. Issued(k)'
      BY <1>3, <1>4 DEF Issued
    <3>. QED BY <1>1, <2>2, <3>1, <3>2, <3>3, Constants DEF Cmd
  <2>4. k \in 0 .. MaxCmd
    BY Constants DEF Cmd
  <2>. QED BY <2>3, <2>4 DEF Numbered
<1>9. Own'
  <2>1. \A m \in up : m.id \in Cmd /\ m.id # k
    <3>1. \A m \in up : sessions[m.session] \in Device
      BY <1>3 DEF Honest, Own
    <3>. QED BY <1>3, <1>5, <3>1, Constants DEF Honest, Own, Issued
  <2>2. \A u \in Uploads : u.id \in Cmd /\ u.id # k
    BY <1>3, <1>5, Constants DEF Honest, Own, Issued, Upload
  <2>3. \A m \in up' : m.session \in DOMAIN sessions' /\ sessions'[m.session] = owner'[m.id]
    <3>1. open => Len(sessions) \in DOMAIN sessions
      BY <1>3 DEF Honest, Own
    <3>. QED BY <1>1, <1>2, <1>4, <2>1, <3>1 DEF Honest, Own
  <2>4. \A m, n \in up' : m.id = n.id => m = n
    BY <1>1, <2>1 DEF Honest, Own
  <2>5. \A u \in Uploads' : u.token = owner'[u.id]
    BY <1>2, <1>4, <2>2 DEF Honest, Own
  <2>6. \A r \in down' : Issued(r.id)'
    BY <1>2, <1>3, <1>7 DEF Honest, Own
  <2>7. \A id \in Cmd : outcome'[id].is # "none" => Issued(id)'
    BY <1>2, <1>7 DEF Honest, Own
  <2>. QED BY <1>2, <2>3, <2>4, <2>5, <2>6, <2>7 DEF Honest, Own
<1>10. Turn'
  <2>1. Issued(k)' /\ job'.token = owner'[k] /\ outcome'[k].is = "none"
    BY <1>1, <1>2, <1>3, <1>4, <1>5 DEF Issued, Honest, Own
  <2>2. \A u \in Uploads' : u.id # job'.id
    BY <1>1, <1>2, <1>3, <1>5, Constants DEF Honest, Own, Issued, Upload
  <2>. QED BY <1>1, <1>2, <1>6, <2>1, <2>2 DEF Turn
<1>11. Acknowledged'
  BY <1>2, <1>6 DEF Honest, Acknowledged
<1>12. Refused'
  <2>1. \A r \in down' : r.id \in Cmd /\ Issued(r.id) /\ r.id # k
    BY <1>2, <1>3, <1>5 DEF Honest, Own
  <2>2. \A id \in Cmd : outcome'[id].is = "refused" => Lapsed(id)' \/ Absent(id)'
    BY <1>2, <1>7 DEF Honest, Own, Refused
  <2>. QED BY <1>1, <1>2, <1>6, <2>1, <2>2 DEF Refused
<1>. QED BY <1>8, <1>9, <1>10, <1>11, <1>12 DEF Honest

\* The steps of a delivery keep the log true (sendResult, postResult).
LEMMA JobHonest ==
  ASSUME TypeOK, TypeOK', Honest,
         (\E r \in down : HearReply(r)) \/ HearAnswer \/ AckTimeout \/ StartRequest \/ RequestFails \/ Awake
  PROVE  Honest'
<1>0. job \in Job /\ down \subseteq [id : Cmd, ok : BOOLEAN] /\ (job.pc # "idle" => job.id \in Cmd /\ job.token = owner[job.id])
  BY JobType DEF TypeOK, Honest, Turn
<1>1. ASSUME NEW r \in down, HearReply(r) PROVE Honest'
  <2>1. CASE job.pc = "ack" /\ job.id = r.id
    <3>1. job.failures \in 0 .. 1 /\ r.ok \in BOOLEAN
      BY <1>0 DEF Job
    <3>2. (r.ok /\ EndsAs("delivered")) \/ (~r.ok /\ EndsAs("refused"))
      BY <1>1, <2>1, <3>1 DEF HearReply, settled, ends, EndsAs
    <3>3. answer' = None
      BY <1>1, <2>1 DEF HearReply, Honest, Turn
    <3>4. UNCHANGED <<sessions, open, up, posts, owner, registered, owned, committed, slots>> /\ down' \subseteq down
      BY <1>1 DEF HearReply, relay
    <3>5. (r.ok => job.id \in committed) /\ (~r.ok => Lapsed(job.id) \/ Absent(job.id))
      BY <2>1 DEF Honest, Acknowledged, Refused
    <3>. QED BY <2>1, <3>2, <3>3, <3>4, <3>5, Ended DEF Status
  <2>2. CASE ~(job.pc = "ack" /\ job.id = r.id)
    BY <1>1, <2>2, CarriedOn DEF HearReply, Stays, relay
  <2>. QED BY <2>1, <2>2
<1>2. CASE HearAnswer
  <2>1. job.pc = "request" /\ answer # None /\ answer' = None
    BY <1>2 DEF HearAnswer, Honest, Turn
  <2>2. UNCHANGED <<sessions, open, up, posts, owner, registered, owned, committed, slots, down>>
    BY <1>2 DEF HearAnswer, relay
  <2>3. (answer = "ok" => job.id \in committed) /\ (answer = "refused" => Lapsed(job.id) \/ Absent(job.id))
    BY <2>1 DEF Honest, Acknowledged, Refused
  <2>4. CASE Sleeps
    BY <2>1, <2>2, <2>4, CarriedOn DEF Sleeps, Stays
  <2>5. ASSUME NEW result \in Status \ {"none"}, EndsAs(result), result = "delivered" => answer = "ok", result = "refused" => answer = "refused"
        PROVE  Honest'
    BY <2>1, <2>2, <2>3, <2>5, Ended
  <2>. QED BY <1>2, <2>4, <2>5, AnswerEnds DEF Status
<1>3. CASE AckTimeout
  <2>1. Stays
    BY <1>0, <1>3, PostingJob DEF AckTimeout, Stays
  <2>2. answer = None
    BY <1>3 DEF AckTimeout, Honest, Turn
  <2>. QED BY <1>3, <2>1, <2>2, CarriedOn DEF AckTimeout, wires, relay, history
<1>4. CASE StartRequest
  <2>0. job.pc = "loop" /\ answer = None /\ answer' = None
    BY <1>4 DEF StartRequest, Honest, Turn
  <2>1. UNCHANGED <<sessions, open, up, down, owner, registered, owned, committed, slots>>
    BY <1>4 DEF StartRequest, relay
  <2>2. CASE left(job) = 0
    <3>1. EndsAs("late") /\ posts' = posts
      <4>1. job.failures \in 0 .. 1
        BY <1>0 DEF Job
      <4>. QED BY <1>4, <2>2, <4>1 DEF StartRequest, ends, EndsAs
    <3>. QED BY <2>0, <2>1, <3>1, Ended DEF Status
  <2>3. CASE left(job) # 0
    <3>. DEFINE u == [id |-> job.id, token |-> job.token, try |-> job.failures]
    <3>1. job' = [job EXCEPT !.pc = "request", !.wait = requestTime(job)] /\ posts' = posts \cup {u} /\ outcome' = outcome
      BY <1>4, <2>3 DEF StartRequest
    <3>2. job'.pc = "request" /\ job'.id = job.id /\ job'.token = job.token
      BY <1>0, <3>1 DEF Job
    <3>3. u.id = job.id /\ u.token = job.token /\ Uploads' = Uploads \cup {u}
      BY <2>1, <3>1 DEF Uploads
    <3>4. job.id \in Cmd /\ outcome[job.id].is = "none" /\ job.token = owner[job.id] /\ Issued(job.id)
      BY <2>0 DEF Honest, Turn
    <3>. HIDE DEF u
    <3>5. \A id \in Cmd : (Issued(id) <=> Issued(id)') /\ (Lapsed(id) <=> Lapsed(id)') /\ (Absent(id) /\ id # job.id => Absent(id)')
      BY <2>1, <3>3 DEF Issued, Lapsed, Absent
    <3>6. Numbered'
      <4>1. PICK n \in 0 .. MaxCmd : \A c \in Cmd : Issued(c) <=> c <= n
        BY DEF Honest, Numbered
      <4>. QED BY <2>1, <4>1 DEF Numbered, Issued
    <3>7. Own'
      <4>1. \A r \in down' : Issued(r.id)'
        BY <2>1 DEF Honest, Own, Issued
      <4>2. \A id \in Cmd : outcome'[id].is # "none" => Issued(id)'
        BY <3>1, <3>5 DEF Honest, Own
      <4>. QED BY <2>1, <3>3, <3>4, <4>1, <4>2 DEF Honest, Own
    <3>8. Turn'
      <4>1. Issued(job.id)'
        BY <2>1, <3>2, <3>4 DEF Issued
      <4>. QED BY <2>0, <2>1, <3>1, <3>2, <3>4, <4>1 DEF Turn
    <3>9. Acknowledged'
      BY <2>0, <2>1, <3>1 DEF Honest, Acknowledged
    <3>10. Refused'
      <4>1. \A id \in Cmd : outcome'[id].is = "refused" => Lapsed(id)' \/ Absent(id)'
        BY <3>1, <3>4, <3>5 DEF Honest, Refused
      <4>. QED BY <2>0, <3>2, <4>1 DEF Refused
    <3>. QED BY <3>6, <3>7, <3>8, <3>9, <3>10 DEF Honest
  <2>. QED BY <2>2, <2>3
<1>5. CASE RequestFails
  <2>1. job.pc = "request" /\ answer' = None /\ UNCHANGED <<sessions, open, up, posts, owner, registered, owned, committed, slots, down>>
    BY <1>5 DEF RequestFails, relay
  <2>2. CASE Sleeps
    BY <2>1, <2>2, CarriedOn DEF Sleeps, Stays
  <2>3. ASSUME NEW result \in {"failed", "late"}, EndsAs(result) PROVE Honest'
    BY <2>1, <2>3, Ended DEF Status
  <2>4. failed
    BY <1>5 DEF RequestFails
  <2>. QED BY <2>2, <2>3, <2>4, FailedEnds
<1>6. CASE Awake
  <2>1. Stays
    BY <1>0, <1>6 DEF Awake, Stays, Job
  <2>2. answer = None
    BY <1>6 DEF Awake, Honest, Turn
  <2>. QED BY <1>6, <2>1, <2>2, CarriedOn DEF Awake, wires, relay, history
<1>. QED BY <1>1, <1>2, <1>3, <1>4, <1>5, <1>6

\* What the relay answers: accepted is committed, refused is forgotten; busy
\* only where there is no result (acceptResult).
LEMMA Verdicts ==
  ASSUME TypeOK, NEW id \in Cmd, commit(owner[id], id)
  PROVE  /\ committed' \in {committed, committed \cup {id}}
         /\ verdict(owner[id], id) = "ok" => id \in committed'
         /\ verdict(owner[id], id) = "refused" => Lapsed(id)
         /\ verdict(owner[id], id) # "ok" => committed' = committed /\ (Lapsed(id) \/ id \notin committed)
BY DEF commit, verdict, Lapsed

\* What the relay receives, commits and answers keeps the log true
\* (webSocketMessage, handle /result).
LEMMA RelayHonest ==
  ASSUME TypeOK, TypeOK', Honest, RelayStep
  PROVE  Honest'
<1>0. /\ job \in Job /\ Len(sessions) <= MaxSessions /\ (open => sessions # <<>>)
      /\ answer # None => job.pc = "request"
      /\ up \subseteq [id : Cmd, session : 1 .. MaxSessions] /\ Uploads \subseteq Upload
      /\ UNCHANGED <<token, sessions, registered, owned, full, others, busy, history>>
  BY JobType DEF TypeOK, Honest, Own, Turn, Uploads, RelayStep, ReceiveResult, AdmitUpload, ReadBody, BodyTimeout, extension
<1>1. UNCHANGED <<owner, outcome>>
  BY <1>0 DEF history
<1>2. ASSUME NEW m \in up, ReceiveResult(m) PROVE Honest'
  <2>0. m.id \in Cmd /\ sessions[m.session] = owner[m.id] /\ up' = up \ {m} /\ UNCHANGED <<posts, slots, answer>>
    BY <1>0, <1>2 DEF Honest, Own, ReceiveResult
  <2>1. Uploads' = Uploads
    BY <2>0 DEF Uploads
  <2>2. CASE closed /\ UNCHANGED committed
    <3>1. Stays /\ ~open' /\ down' \subseteq down /\ (job.pc = "request" => job'.pc = "request")
      BY <2>2, ClosedStays
    <3>. QED BY <1>0, <1>1, <2>0, <2>1, <2>2, <3>1, Carried DEF Stays
  <2>3. CASE commit(owner[m.id], m.id) /\ UNCHANGED <<open, job>>
             /\ (down' = down \/ down' = down \cup {[id |-> m.id, ok |-> verdict(owner[m.id], m.id) = "ok"]})
    <3>. DEFINE b == verdict(owner[m.id], m.id) = "ok"
                r == [id |-> m.id, ok |-> b]
    <3>1. committed' \in {committed, committed \cup {m.id}} /\ (b => m.id \in committed')
          /\ (~b => committed' = committed /\ (Lapsed(m.id) \/ m.id \notin committed))
      BY <2>0, <2>3, Verdicts
    <3>2. ~Absent(m.id)
      BY DEF Absent
    <3>3. r.id = m.id /\ r.ok = b /\ (down' = down \/ down' = down \cup {r})
      BY <2>3
    <3>4. Issued(m.id)
      <4>1. sessions \in Seq(Device) /\ m.session \in DOMAIN sessions
        BY DEF Honest, Own, TypeOK
      <4>2. sessions[m.session] \in Device
        BY <4>1
      <4>. QED BY <2>0, <4>2, Constants DEF Issued
    <3>. HIDE DEF b, r
    <3>5. ASSUME ~b, ~Lapsed(m.id), job.pc = "ack", job.id = m.id PROVE Absent(m.id)'
      <4>1. m.id \notin committed'
        BY <3>1, <3>5
      <4>2. \A n \in up' : n.id # m.id
        BY <2>0 DEF Honest, Own
      <4>3. \A u \in Uploads' : u.id # m.id
        BY <2>1, <3>5 DEF Honest, Turn
      <4>. QED BY <4>1, <4>2, <4>3 DEF Absent
    <3>6. \A s \in down' \ down : Issued(s.id) /\ (s.ok => s.id \in committed')
            /\ (~s.ok => Lapsed(s.id) \/ (job.pc = "ack" /\ job.id = s.id => Absent(m.id)' /\ s.id = m.id))
      BY <3>1, <3>3, <3>4, <3>5
    <3>7. \A s \in down' \ down : ~s.ok => Lapsed(s.id) \/ (job.pc = "ack" /\ job.id = s.id => Absent(s.id)')
      BY <3>6
    <3>8. committed \subseteq committed' /\ \A id \in committed' \ committed : ~Absent(id)
      BY <3>1, <3>2
    <3>. QED BY <1>0, <1>1, <2>0, <2>1, <2>3, <3>6, <3>7, <3>8, Carried
  <2>. QED BY <1>2, <2>0, <2>2, <2>3 DEF ReceiveResult
<1>3. ASSUME NEW u \in Uploads PROVE u.id \in Cmd /\ u.token = owner[u.id] /\ u.token \in Device
  BY <1>0 DEF Upload, Honest, Own
<1>4. ASSUME NEW u \in Uploads, NEW status \in {"ok", "refused", "busy", "failed"}, reply(u, status) \/ answer' = answer,
             Uploads' \subseteq Uploads, UNCHANGED <<extension, up, down>>,
             committed' \in {committed, committed \cup {u.id}},
             status = "ok" => u.id \in committed', status = "refused" => Lapsed(u.id)
      PROVE  Honest'
  <2>1. UNCHANGED <<sessions, open, job>>
    BY <1>4 DEF extension
  <2>2. answer' = answer \/ (answer' = status /\ job.pc = "request" /\ job.id = u.id)
    BY <1>4 DEF reply, awaited
  <2>3. ~Absent(u.id)
    BY DEF Absent
  <2>4. committed \subseteq committed' /\ \A id \in committed' \ committed : ~Absent(id)
    BY <1>4, <2>3
  <2>. QED BY <1>0, <1>1, <1>4, <2>1, <2>2, <2>4, Carried
<1>5. ASSUME NEW u \in posts, AdmitUpload(u) PROVE Honest'
  <2>1. u \in Uploads /\ Uploads' \subseteq Uploads /\ UNCHANGED <<extension, up, down, committed>>
    BY <1>5 DEF AdmitUpload, Uploads
  <2>2. u.token \notin registered => Lapsed(u.id)
    BY <1>3, <2>1 DEF Lapsed
  <2>. QED BY <1>4, <1>5, <2>1, <2>2 DEF AdmitUpload
<1>6. ASSUME NEW u \in DOMAIN slots, ReadBody(u) PROVE Honest'
  <2>1. u \in Uploads /\ Uploads' \subseteq Uploads /\ UNCHANGED <<extension, up, down>>
    BY <1>6 DEF ReadBody, release, Uploads
  <2>2. u.id \in Cmd /\ u.token = owner[u.id]
    BY <1>3, <2>1
  <2>3. CASE reply(u, "busy") /\ UNCHANGED committed
    BY <1>4, <2>1, <2>3
  <2>4. CASE commit(u.token, u.id) /\ reply(u, verdict(u.token, u.id))
    <3>. DEFINE s == verdict(u.token, u.id)
    <3>1. s \in {"ok", "refused", "busy", "failed"}
      BY DEF verdict
    <3>2. committed' \in {committed, committed \cup {u.id}} /\ (s = "ok" => u.id \in committed') /\ (s = "refused" => Lapsed(u.id))
      BY <2>2, <2>4, Verdicts
    <3>3. reply(u, s)
      BY <2>4
    <3>. HIDE DEF s
    <3>. QED BY <1>4, <2>1, <3>1, <3>2, <3>3
  <2>. QED BY <1>6, <2>3, <2>4 DEF ReadBody
<1>7. ASSUME NEW u \in DOMAIN slots, BodyTimeout(u) PROVE Honest'
  <2>1. u \in Uploads /\ Uploads' \subseteq Uploads /\ UNCHANGED <<extension, up, down, committed>> /\ reply(u, "failed")
    BY <1>7 DEF BodyTimeout, release, Uploads
  <2>. QED BY <1>4, <2>1
<1>. QED BY <1>2, <1>5, <1>6, <1>7 DEF RelayStep

\* What happens outside keeps the log true.
LEMMA OutsideHonest ==
  ASSUME TypeOK, TypeOK', Honest, Outside
  PROVE  Honest'
<1>0. Len(sessions) <= MaxSessions /\ (open => sessions # <<>>) /\ (answer # None => job.pc = "request") /\ sessions \in Seq(Device) /\ token \in Device
  BY DEF Honest, Own, Turn, TypeOK
<1>1. CASE Connect
  <2>1. UNCHANGED <<job, up, down, posts, answer, registered, owned, committed, slots, owner, outcome>>
    BY <1>1 DEF Connect, wires, relay, history
  <2>2. Len(sessions') <= MaxSessions /\ sessions' # <<>>
        /\ \A i \in DOMAIN sessions : i \in DOMAIN sessions' /\ sessions'[i] = sessions[i]
    BY <1>0, <1>1, Constants DEF Connect
  <2>3. Uploads' = Uploads
    BY <2>1 DEF Uploads
  <2>. QED BY <1>0, <2>1, <2>2, <2>3, Carried
<1>2. CASE SocketCloses \/ \E d \in Device : Pair(d)
  <2>1. closed /\ UNCHANGED <<sessions, up, posts, answer, registered, owned, committed, slots, owner, outcome>>
    BY <1>2 DEF SocketCloses, Pair, relay, history
  <2>2. Stays /\ ~open' /\ down' \subseteq down /\ (job.pc = "request" => job'.pc = "request")
    BY <2>1, ClosedStays
  <2>. QED BY <1>0, <2>1, <2>2, CarriedOn
<1>3. CASE OthersUpload \/ OthersDone \/ Lapse \/ RoomAgain
  <2>1. UNCHANGED <<sessions, open, job, up, down, posts, answer, committed, slots, owner, outcome>>
        /\ owned' \subseteq owned /\ registered' \subseteq registered
    BY <1>3 DEF OthersUpload, OthersDone, Lapse, RoomAgain, extension, wires, history
  <2>. QED BY <2>1, CarriedOn DEF Stays
<1>4. CASE Tick
  <2>1. UNCHANGED <<sessions, open, up, down, posts, answer, committed, registered, owned, owner, outcome>> /\ DOMAIN slots' = DOMAIN slots
    BY <1>4 DEF Tick, wires
  <2>2. Stays /\ job'.pc = job.pc
    BY <1>4, TickJob DEF Stays
  <2>. QED BY <2>1, <2>2, CarriedOn
<1>. QED BY <1>1, <1>2, <1>3, <1>4 DEF Outside

\* Every step keeps the log true.
LEMMA HonestStep ==
  ASSUME TypeOK, TypeOK', Honest, [Next]_vars
  PROVE  Honest'
<1>1. CASE ExtensionStep
  BY <1>1, SendHonest, JobHonest DEF ExtensionStep
<1>2. CASE UNCHANGED vars
  <2>1. UNCHANGED <<sessions, open, job, up, down, posts, answer, registered, owned, committed, slots, owner, outcome>>
    BY <1>2 DEF vars, extension, wires, relay, history
  <2>. QED BY <2>1, CarriedOn DEF Stays
<1>. QED BY <1>1, <1>2, RelayHonest, OutsideHonest DEF Next

-----------------------------------------------------------------------------
(* How long a delivery waits *)

\* A timer that is set is due within what is left, and stays so as time passes
\* (sleep, AbortSignal.timeout).
LEMMA BoundedStep ==
  ASSUME TypeOK, Honest, BoundedDelivery, [Next]_vars
  PROVE  BoundedDelivery'
<1>0. job \in Job
  BY JobType
<1>1. ASSUME UNCHANGED job PROVE BoundedDelivery'
  BY <1>1 DEF BoundedDelivery
<1>2. ASSUME job'.pc \notin {"request", "sleep"} PROVE BoundedDelivery'
  BY <1>2 DEF BoundedDelivery
<1>3. ASSUME Sleeps \/ \E result \in Status : EndsAs(result) PROVE BoundedDelivery'
  <2>1. ASSUME Sleeps PROVE BoundedDelivery'
    BY <2>1 DEF Sleeps, BoundedDelivery
  <2>2. ASSUME NEW result \in Status, EndsAs(result) PROVE BoundedDelivery'
    <3>1. job'.pc = "idle"
      BY <2>2 DEF EndsAs, NoJob
    <3>. QED BY <1>2, <3>1
  <2>. QED BY <1>3, <2>1, <2>2
<1>4. ASSUME closed PROVE BoundedDelivery'
  BY <1>0, <1>1, <1>2, <1>4, PostingJob DEF closed
<1>5. ASSUME NEW d \in Device, NEW origin, NEW small, SendResult(d, origin, small) PROVE BoundedDelivery'
  BY <1>2, <1>5, SendsJob
<1>6. ASSUME NEW r \in down, HearReply(r) PROVE BoundedDelivery'
  BY <1>1, <1>2, <1>6 DEF HearReply, settled, ends, NoJob
<1>7. CASE HearAnswer
  BY <1>3, <1>7, AnswerEnds DEF Status
<1>8. CASE AckTimeout
  BY <1>0, <1>2, <1>8, PostingJob DEF AckTimeout
<1>9. CASE StartRequest
  <2>1. CASE left(job) = 0
    BY <1>2, <1>9, <2>1 DEF StartRequest, ends, NoJob
  <2>2. CASE left(job) # 0
    <3>. DEFINE w == requestTime(job)
    <3>1. job' = [job EXCEPT !.pc = "request", !.wait = w]
      BY <1>9, <2>2 DEF StartRequest
    <3>2. w <= left(job)
      BY <1>0, LeftType, Constants DEF requestTime, Least
    <3>. HIDE DEF w
    <3>3. job'.wait = w /\ left(job') = left(job)
      BY <1>0, <3>1 DEF Job, left
    <3>. QED BY <3>2, <3>3 DEF BoundedDelivery
  <2>. QED BY <2>1, <2>2
<1>10. CASE RequestFails
  BY <1>3, <1>10, FailedEnds DEF RequestFails, Status
<1>11. CASE Awake
  BY <1>0, <1>2, <1>11 DEF Awake, Job
<1>12. CASE RelayStep
  BY <1>1, <1>4, <1>12 DEF RelayStep, ReceiveResult, AdmitUpload, ReadBody, BodyTimeout, extension
<1>13. CASE Connect \/ OthersUpload \/ OthersDone \/ Lapse \/ RoomAgain \/ UNCHANGED vars
  BY <1>1, <1>13 DEF Connect, OthersUpload, OthersDone, Lapse, RoomAgain, vars, extension
<1>14. CASE SocketCloses \/ \E d \in Device : Pair(d)
  BY <1>4, <1>14 DEF SocketCloses, Pair
<1>15. CASE Tick
  <2>1. job.pc \in {"request", "sleep"} => job.wait <= left(job)
    BY DEF BoundedDelivery
  <2>. QED BY <1>15, <2>1, TickJob DEF BoundedDelivery
<1>. QED BY <1>5, <1>6, <1>7, <1>8, <1>9, <1>10, <1>11, <1>12, <1>13, <1>14, <1>15 DEF Next, ExtensionStep, Outside

-----------------------------------------------------------------------------
(* The theorems *)

\* The layers are the invariant.
LEMMA InvParts == DeliveryInv <=> TypeOK /\ Readers /\ Honest /\ BoundedDelivery
BY DEF DeliveryInv, Honest

\* Initially nothing has been sent.
LEMMA InitInv == Init => DeliveryInv
<1>. SUFFICES ASSUME Init PROVE DeliveryInv
  OBVIOUS
<1>1. TypeOK
  BY InitTypes
<1>2. Readers
  <2>1. DOMAIN slots = {} /\ others = 0
    BY DEF Init
  <2>. QED BY <2>1, FS_EmptySet, Constants DEF Readers
<1>3. Numbered
  <2>1. 0 \in 0 .. MaxCmd /\ \A c \in Cmd : Issued(c) <=> c <= 0
    BY Constants DEF Init, Issued, Cmd
  <2>. QED BY <2>1 DEF Numbered
<1>4. Uploads = {}
  BY DEF Init, Uploads
<1>5. Own /\ Turn /\ Acknowledged /\ Refused
  BY <1>4, Constants DEF Init, NoJob, Own, Turn, Acknowledged, Refused
<1>6. BoundedDelivery
  BY DEF Init, NoJob, BoundedDelivery
<1>. QED BY <1>1, <1>2, <1>3, <1>5, <1>6 DEF DeliveryInv

\* The invariant is inductive.
LEMMA InvStep == DeliveryInv /\ [Next]_vars => DeliveryInv'
<1>. SUFFICES ASSUME DeliveryInv, [Next]_vars PROVE DeliveryInv'
  OBVIOUS
<1>1. TypeOK /\ Readers /\ Honest /\ BoundedDelivery /\ Own /\ Turn
  BY InvParts DEF DeliveryInv
<1>2. TypeOK' /\ Readers'
  BY <1>1, TypesStep, ReadersStep
<1>3. Honest' /\ BoundedDelivery'
  BY <1>1, <1>2, HonestStep, BoundedStep
<1>. QED BY <1>2, <1>3 DEF DeliveryInv, Honest

\* Every reachable state satisfies the invariant: the extension's delivery and
\* the relay agree on whose result is where (background.js:1637-1751,
\* worker.js:611-644).
THEOREM ResultsSafe == Spec => []DeliveryInv
BY InitInv, InvStep, PTL DEF Spec

\* Everything has its type.
THEOREM ResultTypes == Spec => []TypeOK
<1>1. DeliveryInv => TypeOK
  BY DEF DeliveryInv
<1>. QED BY <1>1, ResultsSafe, PTL

\* A result only travels under the device its command was taken for
\* (background.js:1722-1727).
THEOREM SentAsItsOwner == Spec => []SentAsOwner
<1>1. DeliveryInv => SentAsOwner
  BY DEF DeliveryInv, Own, Uploads, SentAsOwner
<1>. QED BY <1>1, ResultsSafe, PTL

\* What the local log says of a result is so at the relay
\* (background.js:1747-1749, :1811, worker.js:618).
THEOREM LogIsAlwaysTrue == Spec => []LogIsTrue
<1>1. DeliveryInv => LogIsTrue
  BY DEF DeliveryInv, Acknowledged, Refused, Lapsed, Absent, LogIsTrue
<1>. QED BY <1>1, ResultsSafe, PTL

\* A delivery never waits longer than what is left of it
\* (background.js:84-87).
THEOREM DeliveryIsBounded == Spec => []BoundedDelivery
<1>1. DeliveryInv => BoundedDelivery
  BY DEF DeliveryInv
<1>. QED BY <1>1, ResultsSafe, PTL

\* The relay reads no more bodies of results at once than it has readers for
\* (worker.js:862-870).
THEOREM ReadersAreEnough == Spec => []Readers
<1>1. DeliveryInv => Readers
  BY DEF DeliveryInv
<1>. QED BY <1>1, ResultsSafe, PTL

-----------------------------------------------------------------------------
(* Waiting out a busy relay *)

\* The source's timers (background.js:82-87, :58; worker.js:207): the window
\* outlasts a slot that is held to its deadline and the pause after it, and
\* the whole delivery outlasts that on top of a request.
Proportions == HOLD + RETRY < BUDGET /\ REQUEST + HOLD + RETRY < DELIVERY

\* No upload that an earlier delivery abandoned is in the way of one that has
\* not failed yet.
Undisturbed == job.pc = "request" /\ job.failures = 0 => \A u \in DOMAIN slots : u.id = job.id

\* The delivery, which has not failed yet, has been told that the relay is busy.
Waits == job.failures = 0 /\ job.rate # None /\ used.lapses = 0

\* Other devices that are done do not come back while it waits.
OneEpisode == Waits /\ others = 0 => others' = 0

\* Of a delivery that has not failed only the upload that is awaited is left.
Fresh ==
  job.pc # "idle" /\ job.failures = 0 =>
    \A u \in Uploads : u.id = job.id =>
      u.try = 0 /\ job.pc = "request" /\ answer = None /\ (u \in posts => u \notin DOMAIN slots)

\* A delivery that has not failed is never short of time: nothing is taken from
\* it before the first answer but one request, and a pause never ends it.
Timely(j) ==
  /\ j.pc = "ack" => j.rate = None
  /\ j.pc = "loop" => IF j.rate = None THEN j.delivery = DELIVERY ELSE left(j) > 0
  /\ j.pc = "sleep" => j.rate # None /\ j.wait < left(j)
  /\ j.pc = "request" /\ j.rate = None => j.delivery + REQUEST >= DELIVERY + j.wait

\* The others have b left of their deadline: no more of the window than the
\* rest of it has passed, and of the delivery that and the first request.
Covers(j, b) == j.rate + HOLD >= BUDGET + b /\ j.delivery + REQUEST + HOLD >= DELIVERY + b

ToldBusy == answer # None /\ answer = "busy"

\* The others have been busy before anyone is told so, and a pause fits in what
\* is left of the window by then.
Window ==
  used.lapses = 0 =>
    /\ ~full
    /\ \A id \in Cmd : outcome[id].is = "late" => outcome[id].failures = 1
    /\ others > 0 => used.busy > 0
    /\ job.failures = 0 =>
         /\ Timely(job)
         /\ job.rate # None \/ ToldBusy => used.busy > 0
         /\ job.rate # None /\ others > 0 => Covers(job, busy)
         /\ job.rate # None /\ ToldBusy => left(job) > RETRY

WindowInv == DeliveryInv /\ Fresh /\ Window

\* A second's worth less (Tick).
LEMMA TickTimes ==
  ASSUME TypeOK, Tick
  PROVE  /\ job.wait \in Nat /\ job.wait > 0 /\ job'.wait = job.wait - 1
         /\ job'.pc = job.pc /\ job'.failures = job.failures
         /\ job.delivery \in Nat /\ job'.delivery \in Nat /\ job'.delivery >= job.delivery - 1
         /\ IF job.rate = None THEN job'.rate = None
            ELSE job.rate \in Nat /\ job'.rate \in Nat /\ job'.rate # None /\ job'.rate >= job.rate - 1
<1>1. job \in Job /\ job.wait \in Nat /\ job.delivery \in 0 .. DELIVERY /\ job.rate \in 0 .. BUDGET \cup {None}
  BY JobType DEF Job
<1>. DEFINE w == less(job.wait)
            d == less(job.delivery)
            r == IF job.rate = None THEN None ELSE less(job.rate)
<1>2. job' = [job EXCEPT !.wait = w, !.delivery = d, !.rate = r]
  BY DEF Tick
<1>3. job.wait > 0 /\ w = job.wait - 1
  BY <1>1, LessType DEF Tick, quiet
<1>4. job.delivery \in Nat /\ d \in Nat /\ d >= job.delivery - 1
  BY <1>1, LessType, Constants
<1>5. IF job.rate = None THEN r = None ELSE job.rate \in Nat /\ r \in Nat /\ r # None /\ r >= job.rate - 1
  BY <1>1, LessType, Constants
<1>. HIDE DEF w, d, r
<1>6. job'.wait = w /\ job'.delivery = d /\ job'.rate = r /\ job'.pc = job.pc /\ job'.failures = job.failures
  BY <1>1, <1>2 DEF Job
<1>. QED BY <1>1, <1>3, <1>4, <1>5, <1>6

\* A second passes: the timers stay in proportion (Tick).
LEMMA TickTimely ==
  ASSUME TypeOK, Tick, Timely(job)
  PROVE  Timely(job') /\ \A b \in Nat \ {0} : job.rate # None /\ Covers(job, b) => Covers(job', b - 1)
<1>. DEFINE w == job.wait  d == job.delivery  r == job.rate
            w1 == job'.wait  d1 == job'.delivery  r1 == job'.rate
<1>1. /\ w \in Nat /\ w > 0 /\ w1 = w - 1 /\ d \in Nat /\ d1 \in Nat /\ d1 >= d - 1
      /\ IF r = None THEN r1 = None ELSE r \in Nat /\ r1 \in Nat /\ r1 # None /\ r1 >= r - 1
      /\ job'.pc = job.pc
  BY TickTimes
<1>2. left(job) = (IF r = None THEN d ELSE IF d < r THEN d ELSE r) /\ left(job') = (IF r1 = None THEN d1 ELSE IF d1 < r1 THEN d1 ELSE r1)
  BY DEF left, Least
<1>3. job.pc # "loop"
  BY DEF Tick, quiet
<1>4. job.pc = "sleep" => r # None /\ w < left(job)
  BY DEF Timely
<1>5. job.pc = "request" /\ r = None => d + REQUEST >= DELIVERY + w
  BY DEF Timely
<1>6. job.pc = "ack" => r = None
  BY DEF Timely
<1>7. \A b \in Nat \ {0} : r # None /\ Covers(job, b) => Covers(job', b - 1)
  <2>. SUFFICES ASSUME NEW b \in Nat \ {0}, r # None, r + HOLD >= BUDGET + b, d + REQUEST + HOLD >= DELIVERY + b
                PROVE  r1 + HOLD >= BUDGET + (b - 1) /\ d1 + REQUEST + HOLD >= DELIVERY + (b - 1)
    BY DEF Covers
  <2>. HIDE DEF w, d, r, w1, d1, r1
  <2>. QED BY <1>1, Constants
<1>8. Timely(job')
  <2>1. ASSUME r # None, w < left(job) PROVE r1 # None /\ w1 < left(job')
    <3>1. r \in Nat /\ r1 \in Nat /\ r1 # None /\ r1 >= r - 1
      BY <1>1, <2>1
    <3>2. w < (IF d < r THEN d ELSE r) /\ left(job') = (IF d1 < r1 THEN d1 ELSE r1)
      BY <1>2, <2>1, <3>1
    <3>. HIDE DEF w, d, r, w1, d1, r1
    <3>3. w1 < (IF d1 < r1 THEN d1 ELSE r1)
      BY <1>1, <3>1, <3>2
    <3>. QED BY <3>1, <3>2, <3>3
  <2>2. job'.pc = "request" /\ r1 = None => d1 + REQUEST >= DELIVERY + w1
    <3>. HIDE DEF w, d, r, w1, d1, r1
    <3>. QED BY <1>1, <1>5, Constants
  <2>. QED BY <1>1, <1>3, <1>4, <1>6, <2>1, <2>2 DEF Timely
<1>. QED BY <1>7, <1>8

\* A delivery that ends late had failed before.
EndsWell ==
  \E result \in Status, n \in 0 .. 1 :
    /\ job' = NoJob /\ outcome' = [outcome EXCEPT ![job.id] = [is |-> result, failures |-> n]]
    /\ result = "late" => n = 1

\* The delivery goes on after its one failure.
GoesOn == job'.failures = 1 /\ outcome' = outcome

\* A failure leaves one that has failed (postResult).
LEMMA FailedWell == ASSUME TypeOK, failed PROVE EndsWell \/ GoesOn
<1>1. job \in Job /\ job.failures \in 0 .. 1
  BY JobType DEF Job
<1>2. CASE job.failures = 1
  BY <1>2 DEF failed, ends, EndsWell, Status
<1>3. CASE job.failures # 1
  <2>. DEFINE k == [job EXCEPT !.failures = 1]
  <2>1. k \in Job /\ k.failures = 1 /\ retry(pause(k))
    BY <1>1, <1>3 DEF Job, failed
  <2>. HIDE DEF k
  <2>2. pause(k).failures = 1 /\ pause(k).id = k.id
    BY <2>1 DEF pause, Job
  <2>3. k.id = job.id
    BY <1>1, PauseJob DEF k, Job
  <2>. DEFINE p == pause(k)
  <2>4. p.failures = 1 /\ p.id = job.id /\ retry(p)
    BY <2>1, <2>2, <2>3
  <2>. HIDE DEF p
  <2>5. (job' = p /\ outcome' = outcome) \/ (job' = NoJob /\ outcome' = [outcome EXCEPT ![job.id] = [is |-> "late", failures |-> 1]])
    BY <2>4 DEF retry, ends
  <2>. QED BY <2>4, <2>5 DEF EndsWell, GoesOn, Status
<1>. QED BY <1>2, <1>3

\* The job after a 429 (postResult).
LEMMA BusyTimes ==
  ASSUME NEW j \in Job
  PROVE  /\ afterBusy(j).pc = "sleep" /\ afterBusy(j).failures = j.failures /\ afterBusy(j).id = j.id
         /\ afterBusy(j).delivery = j.delivery
         /\ afterBusy(j).rate = (IF j.rate = None THEN BUDGET ELSE j.rate)
         /\ afterBusy(j).wait = Least(RETRY, left(afterBusy(j)))
<1>. DEFINE k == IF j.rate = None THEN [j EXCEPT !.rate = BUDGET] ELSE j
<1>1. /\ k \in Job /\ k.id = j.id /\ k.failures = j.failures /\ k.delivery = j.delivery
      /\ k.rate = (IF j.rate = None THEN BUDGET ELSE j.rate)
  BY Constants DEF Job
<1>2. afterBusy(j) = pause(k)
  BY DEF afterBusy
<1>. HIDE DEF k
<1>. DEFINE w == Least(RETRY, left(k))
<1>3. pause(k) = [k EXCEPT !.pc = "sleep", !.wait = w]
  BY DEF pause
<1>. HIDE DEF w
<1>4. /\ pause(k).pc = "sleep" /\ pause(k).wait = w /\ pause(k).failures = k.failures /\ pause(k).id = k.id
      /\ pause(k).delivery = k.delivery /\ pause(k).rate = k.rate
  BY <1>1, <1>3 DEF Job
<1>5. left(pause(k)) = left(k)
  BY <1>4 DEF left
<1>. QED BY <1>1, <1>2, <1>4, <1>5 DEF w

\* Enough is left when the relay says it is busy: of the whole delivery at
\* first, and of the window while the others are not done.
Enough(j) == IF j.rate = None THEN j.delivery + REQUEST >= DELIVERY ELSE left(j) > RETRY

\* With enough left the delivery sleeps, and then tries again (postResult).
LEMMA BusyTimely ==
  ASSUME Proportions, NEW j \in Job, Enough(j)
  PROVE  /\ left(afterBusy(j)) > 0 /\ Timely(afterBusy(j)) /\ afterBusy(j).rate # None
         /\ \A b \in 0 .. HOLD : (j.rate # None => Covers(j, b)) => Covers(afterBusy(j), b)
<1>. DEFINE k == afterBusy(j)  d == j.delivery  r == j.rate
<1>1. /\ k.pc = "sleep" /\ k.delivery = d /\ k.rate = (IF r = None THEN BUDGET ELSE r) /\ k.wait = Least(RETRY, left(k))
  BY BusyTimes
<1>2. d \in Nat /\ (r # None => r \in Nat) /\ k.rate # None /\ k.rate \in Nat
  BY <1>1, Constants DEF Job
<1>3. left(k) = IF d < k.rate THEN d ELSE k.rate
  BY <1>1, <1>2 DEF left, Least
<1>4. left(k) \in Nat /\ left(k) > RETRY
  <2>1. CASE r = None
    <3>1. k.rate = BUDGET /\ d + REQUEST >= DELIVERY
      BY <1>1, <2>1 DEF Enough
    <3>. HIDE DEF k, d, r
    <3>. QED BY <1>2, <1>3, <3>1, Constants DEF Proportions
  <2>2. CASE r # None
    <3>1. left(j) > RETRY /\ left(j) = IF d < r THEN d ELSE r
      BY <1>2, <2>2 DEF Enough, left, Least
    <3>2. k.rate = r
      BY <1>1, <2>2
    <3>. HIDE DEF k, d, r
    <3>. QED BY <1>2, <1>3, <3>1, <3>2, Constants
  <2>. QED BY <2>1, <2>2
<1>5. k.wait < left(k)
  <2>1. k.wait = IF RETRY < left(k) THEN RETRY ELSE left(k)
    BY <1>1 DEF Least
  <2>. HIDE DEF k
  <2>. QED BY <1>4, <2>1, Constants
<1>6. ASSUME NEW b \in 0 .. HOLD, r # None => Covers(j, b) PROVE Covers(k, b)
  <2>1. CASE r = None
    <3>1. k.rate = BUDGET /\ d + REQUEST >= DELIVERY
      BY <1>1, <2>1 DEF Enough
    <3>2. k.rate + HOLD >= BUDGET + b /\ d + REQUEST + HOLD >= DELIVERY + b
      <4>. HIDE DEF k, d, r
      <4>. QED BY <1>2, <3>1, Constants
    <3>. QED BY <1>1, <3>2 DEF Covers
  <2>2. CASE r # None
    BY <1>1, <1>6, <2>2 DEF Covers
  <2>. QED BY <2>1, <2>2
<1>. QED BY <1>1, <1>2, <1>4, <1>5, <1>6, Constants DEF Timely

\* While others are not done, what is left outlasts the pause.
LEMMA CoversEnough ==
  ASSUME Proportions, NEW j \in Job, j.rate # None, NEW b \in Nat, Covers(j, b)
  PROVE  left(j) > RETRY
<1>. DEFINE d == j.delivery  r == j.rate
<1>1. d \in Nat /\ r \in Nat /\ r + HOLD >= BUDGET + b /\ d + REQUEST + HOLD >= DELIVERY + b
  BY Constants DEF Job, Covers
<1>2. left(j) = IF d < r THEN d ELSE r
  BY DEF left, Least
<1>. HIDE DEF d, r
<1>. QED BY <1>1, <1>2, Constants DEF Proportions

\* While it is new, the upload of the delivery is the one that is awaited.
LEMMA FreshUpload ==
  ASSUME TypeOK, Own, Turn, Fresh, job.pc # "idle", job.failures = 0, NEW u \in Uploads, u.id = job.id
  PROVE  /\ awaited(u) /\ answer = None /\ (u \in posts => u \notin DOMAIN slots)
         /\ \A v \in Uploads : v.id = job.id => v = u
<1>1. \A v \in Uploads : v \in [id : Cmd, token : Device, try : 0 .. 1]
  BY DEF TypeOK, Uploads, Upload
<1>2. \A v \in Uploads : v.id = job.id => v.try = 0 /\ v.token = owner[job.id]
  BY DEF Fresh, Own
<1>3. \A v \in Uploads : v.id = job.id => v = u
  BY <1>1, <1>2
<1>. QED BY <1>3 DEF Fresh, awaited

\* Every step keeps what is left of a new delivery apart.
LEMMA FreshStep ==
  ASSUME TypeOK, Honest, Fresh, [Next]_vars
  PROVE  Fresh'
<1>0. job \in Job /\ Own /\ Turn /\ Numbered
  BY JobType DEF Honest
<1>1. ASSUME UNCHANGED <<posts, answer>>, DOMAIN slots' = DOMAIN slots,
             job'.pc = job.pc, job'.id = job.id, job'.failures = job.failures
      PROVE  Fresh'
  BY <1>1 DEF Fresh, Uploads
<1>2. ASSUME UNCHANGED <<posts, slots>>, job'.pc # "idle" /\ job'.failures = 0 => \A u \in Uploads : u.id # job'.id
      PROVE  Fresh'
  BY <1>2 DEF Fresh, Uploads
<1>3. ASSUME job'.pc = "idle" \/ job'.failures = 1 PROVE Fresh'
  BY <1>3 DEF Fresh
<1>4. ASSUME closed, UNCHANGED <<posts, slots, answer>> PROVE Fresh'
  <2>1. CASE job.pc = "ack"
    <3>1. job'.id = job.id
      BY <1>0, <1>4, <2>1, PostingJob DEF closed
    <3>. QED BY <1>0, <1>2, <1>4, <2>1, <3>1 DEF Turn
  <2>. QED BY <1>1, <1>4, <2>1 DEF closed
<1>5. ASSUME NEW d \in Device, NEW origin, NEW small, SendResult(d, origin, small) PROVE Fresh'
  <2>1. nextId \in Cmd /\ job'.id = nextId /\ UNCHANGED <<posts, slots>>
    BY <1>5, SendsJob DEF SendResult, relay
  <2>2. \A u \in Uploads : u.id \in Cmd /\ owner[u.id] \in Device
    BY <1>0 DEF TypeOK, Uploads, Upload, Own
  <2>3. \A u \in Uploads : u.id # nextId
    BY <1>0, <2>1, <2>2, NextIsNew, Constants DEF Issued
  <2>. QED BY <1>2, <2>1, <2>3
<1>6. ASSUME NEW r \in down, HearReply(r) PROVE Fresh'
  <2>1. CASE job.pc = "ack" /\ job.id = r.id
    BY <1>3, <1>6, <2>1 DEF HearReply, settled, ends, NoJob
  <2>2. CASE ~(job.pc = "ack" /\ job.id = r.id)
    BY <1>1, <1>6, <2>2 DEF HearReply, relay
  <2>. QED BY <2>1, <2>2
<1>7. ASSUME failed PROVE Fresh'
  <2>1. job' = NoJob \/ job'.failures = 1
    BY <1>7, FailedWell DEF EndsWell, GoesOn
  <2>2. job'.pc = "idle" \/ job'.failures = 1
    BY <2>1 DEF NoJob
  <2>. QED BY <1>3, <2>2
<1>8. CASE HearAnswer
  <2>1. answer \in {"ok", "refused", "busy", "failed"} /\ answer # None /\ job.pc = "request"
    BY <1>0, <1>8 DEF HearAnswer, TypeOK, Turn
  <2>2. CASE answer \in {"ok", "refused"}
    <3>1. job' = NoJob
      BY <1>8, <2>2 DEF HearAnswer, ends
    <3>. QED BY <1>3, <3>1 DEF NoJob
  <2>3. CASE answer = "busy"
    <3>1. job' = NoJob \/ job' = afterBusy(job)
      BY <1>8, <2>3 DEF HearAnswer, retry, ends
    <3>2. ASSUME job' = afterBusy(job), job.failures = 0 PROVE \A u \in Uploads : u.id # job'.id
      <4>1. job'.id = job.id
        BY <1>0, <3>2, BusyTimes
      <4>. QED BY <1>0, <2>1, <3>2, <4>1 DEF Fresh
    <3>3. job' = afterBusy(job) => job'.failures = job.failures
      BY <1>0, BusyTimes
    <3>4. UNCHANGED <<posts, slots>>
      BY <1>8 DEF HearAnswer, relay
    <3>. QED BY <1>2, <1>3, <3>1, <3>2, <3>3, <3>4 DEF NoJob
  <2>4. CASE answer = "failed"
    BY <1>7, <1>8, <2>4 DEF HearAnswer
  <2>. QED BY <2>1, <2>2, <2>3, <2>4
<1>9. CASE AckTimeout
  <2>1. job'.id = job.id /\ job.pc = "ack" /\ UNCHANGED <<posts, slots>>
    BY <1>0, <1>9, PostingJob DEF AckTimeout, wires, relay
  <2>. QED BY <1>0, <1>2, <2>1 DEF Turn
<1>10. CASE StartRequest
  <2>1. CASE left(job) = 0
    BY <1>3, <1>10, <2>1 DEF StartRequest, ends, NoJob
  <2>2. CASE left(job) # 0
    <3>. DEFINE u == [id |-> job.id, token |-> job.token, try |-> job.failures]
    <3>0. job' = [job EXCEPT !.pc = "request", !.wait = requestTime(job)] /\ posts' = posts \cup {u} /\ job.pc = "loop"
      BY <1>10, <2>2 DEF StartRequest
    <3>1. u.id = job.id /\ u.try = job.failures
      OBVIOUS
    <3>. HIDE DEF u
    <3>2. job'.pc = "request" /\ job'.id = job.id /\ job'.failures = job.failures
      BY <1>0, <3>0 DEF Job
    <3>3. slots' = slots /\ answer' = answer /\ answer = None
      BY <1>0, <1>10, <3>0 DEF StartRequest, relay, Turn
    <3>4. job.failures = 0 => \A v \in Uploads : v.id # job.id
      BY <3>0 DEF Fresh
    <3>. QED BY <3>0, <3>1, <3>2, <3>3, <3>4 DEF Fresh, Uploads
  <2>. QED BY <2>1, <2>2
<1>11. CASE RequestFails
  BY <1>7, <1>11 DEF RequestFails
<1>12. CASE Awake
  <2>1. job' = [job EXCEPT !.pc = "loop"] /\ job.pc = "sleep" /\ UNCHANGED <<posts, slots>>
    BY <1>12 DEF Awake, wires, relay
  <2>2. job'.id = job.id /\ job'.failures = job.failures
    BY <1>0, <2>1 DEF Job
  <2>. QED BY <1>2, <2>1, <2>2 DEF Fresh
<1>13. ASSUME NEW m \in up, ReceiveResult(m) PROVE Fresh'
  BY <1>1, <1>4, <1>13 DEF ReceiveResult
<1>14. ASSUME NEW u \in Uploads, job' = job, Uploads' \subseteq Uploads, answer' = (IF awaited(u) THEN answer' ELSE answer),
              u.id = job.id /\ answer' # answer => u \notin Uploads',
              u \in posts' => u \notin DOMAIN slots', posts' \subseteq posts, DOMAIN slots' \subseteq DOMAIN slots \cup {u}
       PROVE  Fresh'
  <2>. SUFFICES ASSUME job.pc # "idle", job.failures = 0, NEW v \in Uploads', v.id = job.id
                PROVE  v.try = 0 /\ job.pc = "request" /\ answer' = None /\ (v \in posts' => v \notin DOMAIN slots')
    BY <1>14 DEF Fresh
  <2>1. v.try = 0 /\ job.pc = "request" /\ answer = None /\ (v \in posts => v \notin DOMAIN slots)
    BY <1>14 DEF Fresh
  <2>2. u.id = job.id => v = u
    BY <1>0, <1>14, FreshUpload
  <2>3. answer' = answer
    BY <1>14, <2>2 DEF awaited
  <2>. QED BY <1>14, <2>1, <2>2, <2>3
<1>15. ASSUME NEW u \in posts, AdmitUpload(u) PROVE Fresh'
  <2>1. u \in Uploads /\ job' = job /\ posts' = posts \ {u}
    BY <1>15 DEF AdmitUpload, extension, Uploads
  <2>2. CASE slots' = slots
    <3>1. answer' = (IF awaited(u) THEN answer' ELSE answer)
      BY <1>15 DEF AdmitUpload, reply
    <3>2. job.pc # "idle" /\ job.failures = 0 /\ u.id = job.id => u \notin DOMAIN slots
      BY <2>1 DEF Fresh
    <3>3. CASE job.pc # "idle" /\ job.failures = 0
      BY <1>14, <2>1, <2>2, <3>1, <3>2, <3>3 DEF Uploads
    <3>4. CASE ~(job.pc # "idle" /\ job.failures = 0)
      BY <2>1, <3>4 DEF Fresh
    <3>. QED BY <3>3, <3>4
  <2>3. CASE slots' # slots
    <3>1. answer' = answer /\ DOMAIN slots' = DOMAIN slots \cup {u}
      BY <1>15, <2>3 DEF AdmitUpload, reply
    <3>. QED BY <1>14, <2>1, <3>1 DEF Uploads
  <2>. QED BY <2>2, <2>3
<1>16. ASSUME NEW u \in DOMAIN slots, ReadBody(u) \/ BodyTimeout(u) PROVE Fresh'
  <2>1. u \in Uploads /\ job' = job /\ posts' = posts /\ DOMAIN slots' = DOMAIN slots \ {u}
    BY <1>16 DEF ReadBody, BodyTimeout, release, extension, Uploads
  <2>2. answer' = (IF awaited(u) THEN answer' ELSE answer)
    BY <1>16 DEF ReadBody, BodyTimeout, reply
  <2>3. CASE job.pc # "idle" /\ job.failures = 0
    <3>1. u.id = job.id => u \notin posts
      BY <2>1, <2>3 DEF Fresh
    <3>. QED BY <1>14, <2>1, <2>2, <3>1 DEF Uploads
  <2>4. CASE ~(job.pc # "idle" /\ job.failures = 0)
    BY <2>1, <2>4 DEF Fresh
  <2>. QED BY <2>3, <2>4
<1>17. CASE Connect \/ OthersUpload \/ OthersDone \/ Lapse \/ RoomAgain \/ UNCHANGED vars
  BY <1>1, <1>17 DEF Connect, OthersUpload, OthersDone, Lapse, RoomAgain, vars, extension, wires, relay
<1>18. CASE SocketCloses \/ \E d \in Device : Pair(d)
  BY <1>4, <1>18 DEF SocketCloses, Pair, relay
<1>19. CASE Tick
  <2>1. UNCHANGED <<posts, answer>> /\ DOMAIN slots' = DOMAIN slots
    BY <1>19 DEF Tick, wires
  <2>. QED BY <1>1, <1>19, <2>1, TickTimes, TickJob
<1>. QED BY <1>5, <1>6, <1>8, <1>9, <1>10, <1>11, <1>12, <1>13, <1>15, <1>16, <1>17, <1>18, <1>19 DEF Next, ExtensionStep, RelayStep, Outside

\* Busy is only said while other devices are at it, or of a full table, and
\* then enough is left.
LEMMA BusyIsOthers ==
  ASSUME Proportions, DeliveryInv, Undisturbed, Fresh, Window, job.failures = 0, used.lapses = 0,
         \/ \E u \in posts : AdmitUpload(u)
         \/ \E u \in DOMAIN slots : ReadBody(u) \/ BodyTimeout(u)
  PROVE  /\ ToldBusy' => ToldBusy \/ (others > 0 /\ used.busy > 0)
         /\ job.rate # None /\ ToldBusy' => left(job) > RETRY
<1>0. TypeOK /\ Own /\ Turn /\ job \in Job /\ others \in Nat /\ busy \in Nat
  <2>1. TypeOK /\ Own /\ Turn
    BY DEF DeliveryInv
  <2>2. others \in 0 .. READERS /\ busy \in 0 .. HOLD
    BY <2>1 DEF TypeOK
  <2>. QED BY <2>1, <2>2, JobType, Constants
<1>1. ~full /\ (others > 0 => used.busy > 0) /\ (job.rate # None /\ others > 0 => Covers(job, busy))
      /\ (job.rate # None /\ ToldBusy => left(job) > RETRY)
  BY DEF Window
<1>2. ASSUME NEW u \in posts, AdmitUpload(u), ToldBusy', ~ToldBusy PROVE others > 0
  <2>1. awaited(u) /\ ~admits(u)
    BY <1>2 DEF AdmitUpload, reply, ToldBusy
  <2>2. \A v \in DOMAIN slots : v.id = job.id
    BY <2>1 DEF Undisturbed, awaited
  <2>3. DOMAIN slots = {}
    BY <1>0, <2>1, <2>2, FreshUpload DEF Uploads, awaited
  <2>4. Cardinality(DOMAIN slots) = 0
    BY <2>3, FS_EmptySet
  <2>. QED BY <1>0, <2>1, <2>3, <2>4, Constants DEF admits
<1>3. ASSUME NEW u \in DOMAIN slots, ReadBody(u) \/ BodyTimeout(u), ToldBusy', ~ToldBusy PROVE others > 0
  <2>1. verdict(u.token, u.id) # "busy"
    BY <1>1 DEF verdict
  <2>. QED BY <1>3, <2>1 DEF ReadBody, BodyTimeout, reply, ToldBusy
<1>4. ToldBusy' => ToldBusy \/ others > 0
  BY <1>2, <1>3
<1>5. ASSUME job.rate # None, ToldBusy' PROVE left(job) > RETRY
  BY <1>0, <1>1, <1>4, <1>5, CoversEnough
<1>. QED BY <1>1, <1>4, <1>5

\* Every step leaves a delivery that has not failed enough time.
LEMMA WindowStep ==
  ASSUME Proportions, DeliveryInv, Undisturbed, Fresh, Window, [Next]_vars, [OneEpisode]_vars
  PROVE  Window'
<1>0. /\ job \in Job /\ job.failures \in 0 .. 1 /\ TypeOK /\ Honest /\ Turn /\ Own
      /\ used \in [busy : 0 .. MaxBusy, lapses : 0 .. MaxLapses] /\ outcome \in [Cmd -> Outcome]
      /\ others \in Nat /\ busy \in 0 .. HOLD /\ (job.pc # "idle" => job.id \in Cmd)
  <2>1. TypeOK /\ Honest /\ Turn /\ Own
    BY DEF DeliveryInv, Honest
  <2>2. job \in Job
    BY <2>1, JobType
  <2>3. job.failures \in 0 .. 1
    BY <2>2 DEF Job
  <2>4. others \in 0 .. READERS /\ busy \in 0 .. HOLD /\ used \in [busy : 0 .. MaxBusy, lapses : 0 .. MaxLapses]
    BY <2>1 DEF TypeOK
  <2>5. outcome \in [Cmd -> Outcome]
    BY <2>1 DEF TypeOK, Outcome, Status
  <2>. QED BY <2>1, <2>2, <2>3, <2>4, <2>5, Constants DEF Turn
<1>. DEFINE Relaying == UNCHANGED <<full, others, busy, used>>
            Quick == job'.failures = 0 =>
                       /\ Timely(job')
                       /\ job'.rate # None \/ ToldBusy' => used.busy > 0
                       /\ job'.rate # None /\ others > 0 => Covers(job', busy)
                       /\ job'.rate # None /\ ToldBusy' => left(job') > RETRY
            Logged == \A id \in Cmd : outcome'[id].is = "late" => outcome'[id].failures = 1
<1>1. ASSUME Relaying, used.lapses = 0 => Quick /\ Logged PROVE Window'
  BY <1>1 DEF Window, ToldBusy
<1>2. ASSUME Relaying, outcome' = outcome, used.lapses = 0 => Quick PROVE Window'
  <2>1. used.lapses = 0 => Logged
    BY <1>2 DEF Window
  <2>. QED BY <1>1, <1>2, <2>1
<1>3. ASSUME Relaying, EndsWell, job.pc # "idle", used.lapses = 0, answer' = None PROVE Window'
  <2>1. PICK result \in Status, n \in 0 .. 1 :
          /\ job' = NoJob /\ outcome' = [outcome EXCEPT ![job.id] = [is |-> result, failures |-> n]]
          /\ result = "late" => n = 1
    BY <1>3 DEF EndsWell
  <2>2. job'.pc = "idle" /\ job'.rate = None /\ ~ToldBusy'
    BY <1>3, <2>1 DEF NoJob, ToldBusy
  <2>3. Quick
    BY <2>2 DEF Timely
  <2>4. Logged
    <3>. SUFFICES ASSUME NEW id \in Cmd, outcome'[id].is = "late" PROVE outcome'[id].failures = 1
      OBVIOUS
    <3>1. CASE id = job.id
      <4>1. outcome'[id] = [is |-> result, failures |-> n]
        BY <1>0, <2>1, <3>1
      <4>. QED BY <2>1, <4>1
    <3>2. CASE id # job.id
      <4>1. outcome'[id] = outcome[id]
        BY <1>0, <2>1, <3>2
      <4>. QED BY <1>3, <4>1 DEF Window
    <3>. QED BY <3>1, <3>2
  <2>. QED BY <1>1, <1>3, <2>3, <2>4
<1>4. ASSUME Relaying, failed, job.pc = "request", answer' = None PROVE Window'
  <2>1. CASE EndsWell
    <3>1. CASE used.lapses = 0
      BY <1>3, <1>4, <2>1, <3>1
    <3>2. CASE used.lapses # 0
      BY <1>4, <3>2 DEF Window
    <3>. QED BY <3>1, <3>2
  <2>2. CASE GoesOn
    BY <1>2, <1>4, <2>2 DEF GoesOn
  <2>. QED BY <1>0, <1>4, <2>1, <2>2, FailedWell
<1>5. ASSUME Relaying, UNCHANGED <<job, answer, outcome>> PROVE Window'
  BY <1>5 DEF Window, ToldBusy
<1>6. ASSUME job.pc = "ack", job' = posting(job), UNCHANGED <<answer, outcome>>, Relaying PROVE Window'
  <2>1. job'.pc = "loop" /\ job'.delivery = DELIVERY /\ job'.rate = job.rate /\ job'.failures = job.failures
    BY <1>0, <1>6 DEF posting, Job
  <2>2. ~ToldBusy'
    BY <1>0, <1>6 DEF Turn, ToldBusy
  <2>3. used.lapses = 0 /\ job.failures = 0 => job.rate = None
    BY <1>6 DEF Window, Timely
  <2>4. used.lapses = 0 => Quick
    BY <2>1, <2>2, <2>3 DEF Timely
  <2>. QED BY <1>2, <1>6, <2>4
<1>7. ASSUME closed, UNCHANGED <<answer, outcome>>, Relaying PROVE Window'
  BY <1>5, <1>6, <1>7 DEF closed
<1>8. ASSUME NEW d \in Device, NEW origin, NEW small, SendResult(d, origin, small) PROVE Window'
  <2>. DEFINE j == [NoJob EXCEPT !.id = nextId, !.token = d]
  <2>1. job = NoJob /\ (job' = [j EXCEPT !.pc = "ack", !.wait = ACK] \/ job' = posting(j))
    BY <1>8 DEF SendResult, nextId
  <2>2. j \in Job /\ j.rate = None
    <3>1. NoJob \in Job /\ NoJob.rate = None
      BY Constants DEF NoJob, Job
    <3>2. nextId \in 0 .. MaxCmd
      BY <1>8, SendsJob, <1>0 DEF Cmd
    <3>. QED BY <3>1, <3>2 DEF Job
  <2>. HIDE DEF j
  <2>3. job'.pc = "ack" \/ (job'.pc = "loop" /\ job'.delivery = DELIVERY)
    BY <2>1, <2>2 DEF posting, Job
  <2>4. job'.rate = None
    BY <2>1, <2>2 DEF posting, Job
  <2>5. Relaying /\ UNCHANGED <<answer, outcome>>
    BY <1>8 DEF SendResult, relay
  <2>6. ~ToldBusy'
    BY <1>0, <2>1, <2>5 DEF Turn, ToldBusy, NoJob
  <2>7. Quick
    BY <2>3, <2>4, <2>6 DEF Timely
  <2>. QED BY <1>2, <2>5, <2>7
<1>9. ASSUME NEW r \in down, HearReply(r) PROVE Window'
  <2>1. Relaying /\ answer' = answer
    BY <1>9 DEF HearReply, relay
  <2>2. CASE job.pc = "ack" /\ job.id = r.id
    <3>1. EndsWell
      BY <1>0, <1>9, <2>2 DEF HearReply, settled, ends, EndsWell, Status
    <3>2. answer' = None
      BY <1>0, <2>1, <2>2 DEF Turn
    <3>3. CASE used.lapses = 0
      BY <1>3, <2>1, <2>2, <3>1, <3>2, <3>3
    <3>4. CASE used.lapses # 0
      BY <2>1, <3>4 DEF Window
    <3>. QED BY <3>3, <3>4
  <2>3. CASE ~(job.pc = "ack" /\ job.id = r.id)
    BY <1>5, <1>9, <2>1, <2>3 DEF HearReply
  <2>. QED BY <2>2, <2>3
<1>10. CASE HearAnswer
  <2>1. answer \in {"ok", "refused", "busy", "failed"} /\ answer # None /\ job.pc = "request"
    BY <1>0, <1>10 DEF HearAnswer, TypeOK, Turn
  <2>2. Relaying /\ answer' = None
    BY <1>10 DEF HearAnswer, relay
  <2>. SUFFICES ASSUME used.lapses = 0 PROVE Window'
    BY <2>2 DEF Window
  <2>3. CASE answer \in {"ok", "refused"}
    <3>1. EndsWell
      BY <1>0, <1>10, <2>3 DEF HearAnswer, ends, EndsWell, Status
    <3>. QED BY <1>3, <2>1, <2>2, <3>1
  <2>4. CASE answer = "failed"
    <3>1. failed
      BY <1>10, <2>4 DEF HearAnswer
    <3>. QED BY <1>4, <2>1, <2>2, <3>1
  <2>5. CASE answer = "busy" /\ job.failures = 1
    <3>1. afterBusy(job).failures = 1 /\ afterBusy(job).id = job.id
      BY <1>0, <2>5, BusyTimes
    <3>2. retry(afterBusy(job))
      BY <1>10, <2>5 DEF HearAnswer
    <3>. DEFINE k == afterBusy(job)
    <3>. HIDE DEF k
    <3>3. (job' = k /\ outcome' = outcome) \/ ends(k, "late")
      BY <3>2 DEF retry, k
    <3>4. k.failures = 1 /\ k.id = job.id
      BY <3>1 DEF k
    <3>5. ends(k, "late") => EndsWell
      BY <3>4 DEF ends, EndsWell, Status
    <3>6. job' = k => Quick
      BY <3>4
    <3>. QED BY <1>2, <1>3, <2>1, <2>2, <3>3, <3>5, <3>6
  <2>6. CASE answer = "busy" /\ job.failures = 0
    <3>1. Timely(job) /\ used.busy > 0 /\ (job.rate # None /\ others > 0 => Covers(job, busy))
          /\ (job.rate # None => left(job) > RETRY)
      BY <2>1, <2>6 DEF Window, ToldBusy
    <3>2. Enough(job)
      <4>1. job.rate = None => job.delivery + REQUEST >= DELIVERY + job.wait
        BY <2>1, <3>1 DEF Timely
      <4>2. job.wait \in Nat /\ job.delivery \in Nat
        BY <1>0, Constants DEF Job
      <4>3. job.rate = None => job.delivery + REQUEST >= DELIVERY
        BY <4>1, <4>2, Constants
      <4>. QED BY <3>1, <4>3 DEF Enough
    <3>. DEFINE k == afterBusy(job)
    <3>3. left(k) > 0 /\ Timely(k) /\ k.rate # None /\ (others > 0 => Covers(k, busy))
      BY <1>0, <3>1, <3>2, BusyTimely
    <3>4. retry(k)
      BY <1>10, <2>6 DEF HearAnswer
    <3>. HIDE DEF k
    <3>5. job' = k /\ outcome' = outcome
      BY <3>3, <3>4 DEF retry
    <3>6. ~ToldBusy'
      BY <2>2 DEF ToldBusy
    <3>7. Quick
      BY <3>1, <3>3, <3>5, <3>6
    <3>. QED BY <1>2, <2>2, <3>5, <3>7
  <2>. QED BY <1>0, <2>1, <2>3, <2>4, <2>5, <2>6
<1>11. CASE AckTimeout
  BY <1>6, <1>11 DEF AckTimeout, wires, relay, history
<1>12. CASE StartRequest
  <2>1. Relaying /\ answer' = answer /\ job.pc = "loop" /\ ~ToldBusy' /\ answer' = None
    BY <1>0, <1>12 DEF StartRequest, relay, Turn, ToldBusy
  <2>2. used.lapses = 0 /\ job.failures = 0 =>
          (IF job.rate = None THEN job.delivery = DELIVERY ELSE left(job) > 0)
          /\ (job.rate # None => used.busy > 0) /\ (job.rate # None /\ others > 0 => Covers(job, busy))
    BY <2>1 DEF Window, Timely
  <2>3. CASE left(job) = 0
    <3>1. used.lapses = 0 => job.failures = 1
      BY <1>0, <2>2, <2>3, Constants DEF left
    <3>2. used.lapses = 0 => EndsWell
      BY <1>12, <2>3, <3>1 DEF StartRequest, ends, EndsWell, Status
    <3>3. CASE used.lapses = 0
      BY <1>3, <2>1, <3>2, <3>3
    <3>4. CASE used.lapses # 0
      BY <2>1, <3>4 DEF Window
    <3>. QED BY <3>3, <3>4
  <2>4. CASE left(job) # 0
    <3>. DEFINE w == requestTime(job)
    <3>1. job' = [job EXCEPT !.pc = "request", !.wait = w] /\ outcome' = outcome
      BY <1>12, <2>4 DEF StartRequest
    <3>2. w \in Nat /\ w <= REQUEST
      BY <1>0, LeftType, Constants DEF requestTime, Least
    <3>. HIDE DEF w
    <3>3. /\ job'.pc = "request" /\ job'.wait = w /\ job'.delivery = job.delivery /\ job'.rate = job.rate
          /\ job'.failures = job.failures
      BY <1>0, <3>1 DEF Job
    <3>4. used.lapses = 0 => Quick
      <4>1. used.lapses = 0 /\ job'.failures = 0 /\ job'.rate = None => job'.delivery + REQUEST >= DELIVERY + job'.wait
        BY <2>2, <3>2, <3>3, Constants
      <4>2. used.lapses = 0 /\ job'.failures = 0 => Timely(job')
        BY <3>3, <4>1 DEF Timely
      <4>3. Covers(job, busy) => Covers(job', busy)
        BY <3>3 DEF Covers
      <4>. QED BY <2>1, <2>2, <3>3, <4>2, <4>3
    <3>. QED BY <1>2, <2>1, <3>1, <3>4
  <2>. QED BY <2>3, <2>4
<1>13. CASE RequestFails
  BY <1>4, <1>13 DEF RequestFails, relay
<1>14. CASE Awake
  <2>1. job' = [job EXCEPT !.pc = "loop"] /\ job.pc = "sleep" /\ job.wait = 0
    BY <1>14 DEF Awake
  <2>2. Relaying /\ UNCHANGED <<answer, outcome>> /\ ~ToldBusy'
    BY <1>0, <1>14, <2>1 DEF Awake, wires, relay, history, Turn, ToldBusy
  <2>3. /\ job'.pc = "loop" /\ job'.delivery = job.delivery /\ job'.rate = job.rate /\ job'.failures = job.failures
    BY <1>0, <2>1 DEF Job
  <2>4. left(job') = left(job) /\ (Covers(job, busy) => Covers(job', busy))
    BY <2>3 DEF left, Covers
  <2>5. used.lapses = 0 => Quick
    BY <2>1, <2>2, <2>3, <2>4 DEF Window, Timely
  <2>. QED BY <1>2, <2>2, <2>5
<1>15. ASSUME NEW m \in up, ReceiveResult(m) PROVE Window'
  BY <1>5, <1>7, <1>15 DEF ReceiveResult, history
<1>16. CASE (\E u \in posts : AdmitUpload(u)) \/ (\E u \in DOMAIN slots : ReadBody(u) \/ BodyTimeout(u))
  <2>1. Relaying /\ UNCHANGED <<job, outcome>>
    BY <1>16 DEF AdmitUpload, ReadBody, BodyTimeout, extension, history
  <2>2. used.lapses = 0 /\ job.failures = 0 =>
          (ToldBusy' => ToldBusy \/ (others > 0 /\ used.busy > 0)) /\ (job.rate # None /\ ToldBusy' => left(job) > RETRY)
    BY <1>16, BusyIsOthers
  <2>3. used.lapses = 0 => Quick
    BY <2>1, <2>2 DEF Window
  <2>. QED BY <1>2, <2>1, <2>3
<1>17. CASE Connect \/ SocketCloses \/ \E d \in Device : Pair(d)
  BY <1>5, <1>7, <1>17 DEF Connect, SocketCloses, Pair, wires, relay, history
<1>18. CASE OthersUpload
  <2>1. UNCHANGED <<full, job, answer, outcome>> /\ others = 0 /\ used' = [used EXCEPT !.busy = @ + 1]
    BY <1>18 DEF OthersUpload, extension, wires
  <2>2. used'.busy = used.busy + 1 /\ used'.lapses = used.lapses /\ used.busy \in Nat
    BY <1>0, <2>1
  <2>3. others' > 0
    BY <1>0, <1>18, FS_CardinalityType DEF OthersUpload, DeliveryInv, Readers
  <2>4. used.lapses = 0 /\ job.failures = 0 => job.rate = None
    BY <2>1, <2>3 DEF OneEpisode, Waits, vars, relay
  <2>. QED BY <2>1, <2>2, <2>4 DEF Window, ToldBusy
<1>19. CASE OthersDone
  <2>1. UNCHANGED <<full, job, answer, outcome, used>> /\ others' = 0
    BY <1>19 DEF OthersDone, extension, wires, history
  <2>. QED BY <2>1 DEF Window, ToldBusy
<1>20. CASE Lapse \/ RoomAgain
  <2>1. CASE Lapse
    <3>1. used' = [used EXCEPT !.lapses = @ + 1]
      BY <2>1 DEF Lapse
    <3>2. used'.lapses # 0
      BY <1>0, <3>1
    <3>. QED BY <3>2 DEF Window
  <2>2. CASE RoomAgain
    BY <2>2 DEF RoomAgain, extension, wires, history, Window
  <2>. QED BY <1>20, <2>1, <2>2
<1>21. CASE Tick
  <2>1. UNCHANGED <<full, others, used, answer, outcome>> /\ busy' = less(busy) /\ answer = None /\ (others > 0 => busy > 0)
    BY <1>21 DEF Tick, quiet, wires
  <2>2. busy \in Nat /\ (busy > 0 => busy' = busy - 1)
    BY <1>0, <2>1, LessType, Constants
  <2>3. job'.failures = job.failures /\ (job'.rate # None => job.rate # None)
    BY <1>0, <1>21, TickTimes
  <2>4. ASSUME used.lapses = 0, job.failures = 0
        PROVE  Timely(job') /\ (job.rate # None /\ others > 0 => Covers(job', busy'))
    <3>1. Timely(job) /\ (job.rate # None /\ others > 0 => Covers(job, busy))
      BY <2>4 DEF Window
    <3>. QED BY <1>0, <1>21, <2>1, <2>2, <3>1, TickTimely
  <2>5. ~ToldBusy'
    BY <2>1 DEF ToldBusy
  <2>6. job.failures = 0 /\ used.lapses = 0 /\ job'.rate # None => used.busy > 0
    BY <2>3 DEF Window
  <2>7. used.lapses = 0 => ~full /\ (others > 0 => used.busy > 0) /\ \A id \in Cmd : outcome[id].is = "late" => outcome[id].failures = 1
    BY DEF Window
  <2>. QED BY <2>1, <2>3, <2>4, <2>5, <2>6, <2>7 DEF Window
<1>22. CASE UNCHANGED vars
  BY <1>5, <1>22 DEF vars, extension, wires, relay, history
<1>. QED BY <1>8, <1>9, <1>10, <1>11, <1>12, <1>13, <1>14, <1>15, <1>16, <1>17, <1>18, <1>19, <1>20, <1>21, <1>22 DEF Next, ExtensionStep, RelayStep, Outside

\* Initially nothing waits.
LEMMA InitWindow == Init => Fresh /\ Window
<1>. SUFFICES ASSUME Init PROVE Fresh /\ Window
  OBVIOUS
<1>1. Fresh
  BY DEF Init, NoJob, Fresh
<1>2. job.pc = "idle" /\ job.rate = None /\ answer = None /\ others = 0 /\ ~full
  BY DEF Init, NoJob
<1>3. \A id \in Cmd : outcome[id].is # "late"
  BY DEF Init
<1>. QED BY <1>1, <1>2, <1>3 DEF Window, Timely, ToldBusy

\* The invariant of the window is inductive while nothing else is in the way.
LEMMA WindowInvStep ==
  Proportions /\ WindowInv /\ Undisturbed /\ [Next]_vars /\ [OneEpisode]_vars => WindowInv'
<1>. SUFFICES ASSUME Proportions, WindowInv, Undisturbed, [Next]_vars, [OneEpisode]_vars PROVE WindowInv'
  OBVIOUS
<1>1. DeliveryInv /\ TypeOK /\ Honest
  BY InvParts DEF WindowInv
<1>2. DeliveryInv' /\ Fresh' /\ Window'
  BY <1>1, InvStep, FreshStep, WindowStep DEF WindowInv
<1>. QED BY <1>2 DEF WindowInv

\* With the window only a delivery that has failed is late.
LEMMA WindowIsEnough == WindowInv => BusyIsNotLost
<1>. SUFFICES ASSUME WindowInv, NEW id \in Cmd, outcome[id].is = "late", ~(used.lapses > 0)
              PROVE  outcome[id].failures = 1
  BY DEF BusyIsNotLost
<1>1. used.lapses \in 0 .. MaxLapses
  BY DEF WindowInv, DeliveryInv, TypeOK
<1>2. used.lapses = 0
  BY <1>1, Constants
<1>. QED BY <1>2 DEF WindowInv, Window

\* A 429 is waited out whatever the timers are, in the proportions the source
\* gives them ("Give a 429 enough time to clear", background.js:84-87): of any
\* number of deliveries none is given up as late that has not failed, while no
\* abandoned upload holds a slot and other devices that are done stay away
\* until it is answered.
THEOREM BusyIsWaitedOut ==
  ASSUME Proportions
  PROVE  Spec /\ []Undisturbed /\ [][OneEpisode]_vars => []BusyIsNotLost
<1>1. Init => WindowInv
  BY InitInv, InitWindow DEF WindowInv
<1>2. WindowInv /\ Undisturbed /\ [Next]_vars /\ [OneEpisode]_vars => WindowInv'
  BY WindowInvStep
<1>3. WindowInv => BusyIsNotLost
  BY WindowIsEnough
<1>. QED BY <1>1, <1>2, <1>3, PTL DEF Spec

\* With one delivery and at most one time that other devices hold upload
\* slots, as in the run result_timing, nothing can be in the way: only the
\* proportions are needed.
THEOREM OneBusyIsNotLost ==
  ASSUME Proportions, MaxCmd = 1, MaxBusy <= 1
  PROVE  Spec => []BusyIsNotLost
<1>1. Init => WindowInv
  BY InitInv, InitWindow DEF WindowInv
<1>2. ASSUME WindowInv PROVE Undisturbed
  <2>. SUFFICES ASSUME job.pc = "request", NEW u \in DOMAIN slots PROVE u.id = job.id
    BY DEF Undisturbed
  <2>1. job.id \in Cmd
    BY <1>2 DEF WindowInv, DeliveryInv, Turn
  <2>2. u.id \in Cmd
    BY <1>2 DEF WindowInv, DeliveryInv, TypeOK, Upload
  <2>. QED BY <2>1, <2>2 DEF Cmd
<1>3. ASSUME WindowInv, [Next]_vars PROVE [OneEpisode]_vars
  <2>. SUFFICES ASSUME Waits, others = 0, others' # 0 PROVE FALSE
    BY DEF OneEpisode
  <2>1. used \in [busy : 0 .. MaxBusy, lapses : 0 .. MaxLapses]
    BY <1>3 DEF WindowInv, DeliveryInv, TypeOK
  <2>2. used.busy > 0
    BY <1>3 DEF WindowInv, Window, Waits
  <2>3. OthersUpload
    BY <1>3 DEF Next, ExtensionStep, RelayStep, Outside, vars, relay, SendResult, HearReply, HearAnswer, AckTimeout,
                StartRequest, RequestFails, Awake, ReceiveResult, AdmitUpload, ReadBody, BodyTimeout, Connect, SocketCloses,
                OthersDone, Lapse, RoomAgain, Tick, Pair
  <2>4. used.busy < MaxBusy
    BY <2>3 DEF OthersUpload
  <2>. QED BY <2>1, <2>2, <2>4, Constants
<1>4. WindowInv /\ [Next]_vars => WindowInv'
  BY <1>2, <1>3, WindowInvStep
<1>5. WindowInv => BusyIsNotLost
  BY WindowIsEnough
<1>. QED BY <1>1, <1>4, <1>5, PTL DEF Spec
=============================================================================
