---------------------------- MODULE CommandProofs ----------------------------
(***************************************************************************)
(* Proofs about Command: its types, and that the queue goes on, that the   *)
(* worker's belief in a session is right, that no session stays open, that *)
(* an input goes through its own session and in its own turn, and that     *)
(* reports are honest.                                                     *)
(*                                                                         *)
(* The inductive invariant has five parts about the tab: Turns (one        *)
(* command at a time, a handler that is not over is the awaited one or has *)
(* lost its race), Attaches and Detaches (each call under way to Chrome,   *)
(* and each answer, has the one that waits for it, in the order asked),    *)
(* Session (no attach is under way behind a held session, no detach that   *)
(* nobody waits for ahead of it) and Debugger (what the answers under way  *)
(* say of who has the debugger).  ReportInv follows one command's record:  *)
(* the list and the flag cover every input before the report is written,   *)
(* and an input that may still land is one the report owns up to.          *)
(***************************************************************************)
EXTENDS Command, SequenceTheorems, TLAPS

-----------------------------------------------------------------------------
(* The invariant: who runs, who has the tab, and what is on its way *)

Idle == {"none", "settled"}
Inside == {"bind", "check", "prepare", "ready", "input", "observe", "capture"}

\* A handler whose timer has not fired and that went on with the session it adopted.
holds(c) == handler[c].kind # "tab" /\ ~handler[c].dead /\ handler[c].pc \in Inside

\* An attach under way to Chrome, and its answer under way to the worker.
asks(i) == i \in DOMAIN calls /\ calls[i].op = "attach"
hears(i) == i \in DOMAIN replies /\ replies[i].op \in {"attach", "refused"}

\* A detach under way, or its answer.
drops(i) == i \in DOMAIN calls /\ calls[i].op = "detach"
dropped(i) == i \in DOMAIN replies /\ replies[i].op = "detach"
gone(i) == i \in DOMAIN replies /\ replies[i].op = "gone"

\* Who asked for a detach and waits for it.
waits(b) ==
  IF b = Chain THEN turn.at = "releasing" ELSE b \in Cmd /\ handler[b].pc \in {"leaving", "dropping"}

\* Commands run one at a time, in order; a handler that is not over is that of
\* the command the chain waits for, or has lost its race.
Turns ==
  /\ \A c \in Cmd : c > turn.cmd => handler[c] = NoHandler /\ hit[c] = {}
  /\ \A c \in Cmd : sent[c].at = "sent" <=> c < turn.cmd \/ (c = turn.cmd /\ turn.at = "idle")
  /\ turn.at = "taken" => handler[turn.cmd].pc = "none"
  /\ \A c \in Cmd : handler[c].pc \notin Idle /\ ~handler[c].dead => turn = [cmd |-> c, at |-> "running"]
  /\ turn.at \in {"running", "confirming"} => handler[turn.cmd].pc # "none"

\* Every attach under way is awaited by its handler, and they are in order.
Attaches ==
  /\ \A c \in Cmd : handler[c].pc \in {"attach", "attaching"} => handler[c].kind # "tab"
  /\ \A c \in Cmd : handler[c].pc = "lookup" => handler[c].kind = "tab"
  /\ \A i \in DOMAIN calls : asks(i) => calls[i].by \in Cmd /\ handler[calls[i].by].pc = "attaching"
  /\ \A i \in DOMAIN replies : hears(i) => replies[i].by \in Cmd /\ handler[replies[i].by].pc = "attaching"
  /\ \A i, j \in DOMAIN calls : asks(i) /\ asks(j) /\ i < j => calls[i].by < calls[j].by
  /\ \A i, j \in DOMAIN replies : hears(i) /\ hears(j) /\ i < j => replies[i].by < replies[j].by
  /\ \A i \in DOMAIN replies, j \in DOMAIN calls : hears(i) /\ asks(j) => replies[i].by < calls[j].by

\* Whoever asked for a detach waits for it, and asked once.
Detaches ==
  /\ \A i \in DOMAIN calls : drops(i) => calls[i].by = NoOne \/ waits(calls[i].by)
  /\ \A i \in DOMAIN replies : dropped(i) => replies[i].by = NoOne \/ waits(replies[i].by)
  /\ \A i, j \in DOMAIN calls :
       drops(i) /\ drops(j) /\ i # j => calls[i].by = NoOne \/ calls[i].by # calls[j].by
  /\ \A i, j \in DOMAIN replies :
       dropped(i) /\ dropped(j) /\ i # j => replies[i].by = NoOne \/ replies[i].by # replies[j].by
  /\ \A i \in DOMAIN replies, j \in DOMAIN calls :
       dropped(i) /\ drops(j) => replies[i].by = NoOne \/ replies[i].by # calls[j].by

\* The session belongs to the handler that runs.  Behind it no attach is left
\* under way, and no detach by somebody who would not wait for it to end.
Session ==
  /\ session # 0 => session \in Cmd /\ holds(session)
  /\ \A c \in Cmd : holds(c) => (\A i \in DOMAIN calls : ~asks(i)) /\ (\A i \in DOMAIN replies : ~hears(i))
  /\ session # 0 => \A i \in DOMAIN calls : drops(i) => calls[i].by \in Cmd
  /\ \A i \in DOMAIN calls : drops(i) /\ calls[i].by \notin Cmd =>
       (\A j \in DOMAIN calls : asks(j) => i < j) /\ \A j \in DOMAIN replies : ~hears(j)

\* Who opened the debugger will hear of it, has the session, or it is about to
\* be closed.
Debugger ==
  /\ owner <= turn.cmd
  /\ owner # 0 =>
       \/ \E i \in DOMAIN replies : replies[i] = [op |-> "attach", by |-> owner]
       \/ session = owner
       \/ \E i \in DOMAIN calls : drops(i)
  /\ owner # 0 => \A i \in DOMAIN replies : gone(i) =>
       \E j \in DOMAIN replies : i < j /\ replies[j] = [op |-> "attach", by |-> owner]
  /\ \A i \in DOMAIN replies : replies[i].op = "attach" => owner = 0 \/ replies[i].by <= owner
  /\ \A i \in DOMAIN replies : replies[i].op = "attach" =>
       \/ owner = replies[i].by
       \/ replies[i].by \in undercut
       \/ \E j \in DOMAIN replies : i < j /\ gone(j)
  /\ \A c \in Cmd : holds(c) => owner \in {0, c}
  /\ \A c \in Cmd : handler[c].call = "pending" /\ handler[c].kind # "tab" => owner = c

TabInv == Turns /\ Attaches /\ Detaches /\ Session /\ Debugger /\ ChainGoesOn /\ SessionIsOpen

Bounds ==
  /\ epoch + Len(changes) <= used.control /\ policy <= used.control
  /\ turn.at # "idle" => turn.cmd # 0

\* The constants, as every type argument needs them.
LEMMA Constants ==
  /\ MaxCmd \in Nat /\ MaxStep \in Nat /\ MaxStep > 0 /\ MaxControl \in Nat /\ MaxDismiss \in Nat
  /\ Cmd \subseteq 0 .. MaxCmd /\ Cmd \subseteq Nat /\ 0 \notin Cmd /\ NoOne \notin Cmd /\ Chain \notin Cmd /\ 1 \in Step
  /\ Cmd \subseteq 0 .. NoOne /\ Chain \in 0 .. NoOne /\ NoOne \in 0 .. NoOne
PROOF BY CommandAssumption DEF Cmd, Step, NoOne, Chain

\* The records a handler starts from and ends as.
LEMMA Blank == NoReport \in Report /\ NoHandler \in Handler /\ NoSteps \in [Step -> StepStatus]
PROOF BY Constants DEF NoReport, Report, Status, NoHandler, Handler, NoSteps, StepStatus, Error

\* The last part of a queue that grew, and of one that lost its head.
LEMMA Appended ==
  ASSUME NEW S, NEW s \in Seq(S), NEW e \in S
  PROVE  /\ Append(s, e) \in Seq(S)
         /\ Len(Append(s, e)) = Len(s) + 1
         /\ DOMAIN s = 1 .. Len(s) /\ DOMAIN Append(s, e) = 1 .. Len(s) + 1
         /\ \A i \in 1 .. Len(s) : Append(s, e)[i] = s[i]
         /\ Append(s, e)[Len(s) + 1] = e
         /\ Len(s) \in Nat
PROOF OBVIOUS

\* A queue that lost its head.
LEMMA Popped ==
  ASSUME NEW S, NEW s \in Seq(S), s # <<>>
  PROVE  /\ Tail(s) \in Seq(S) /\ Head(s) \in S /\ Head(s) = s[1]
         /\ Len(s) \in Nat /\ Len(s) > 0 /\ Len(Tail(s)) = Len(s) - 1
         /\ DOMAIN s = 1 .. Len(s) /\ DOMAIN Tail(s) = 1 .. Len(s) - 1
         /\ \A i \in 1 .. Len(s) - 1 : Tail(s)[i] = s[i + 1]
PROOF BY HeadTailProperties

Pc == {"none", "authorize", "lookup", "attach", "attaching", "dropping", "bind", "check", "prepare", "ready",
       "input", "observe", "capture", "leaving", "settled"}

\* The edits of a handler's record.
LEMMA Edited ==
  ASSUME NEW h \in Handler
  PROVE  /\ \A e \in Error : [h EXCEPT !.err = e] \in Handler
         /\ \A e \in Error, r \in Report : [h EXCEPT !.err = e, !.report = r] \in Handler
         /\ \A p \in Pc : [h EXCEPT !.pc = p] \in Handler
         /\ \A p \in Pc : [h EXCEPT !.pc = p, !.call = "none"] \in Handler
         /\ \A p \in Pc, e \in Error : [h EXCEPT !.pc = p, !.err = e] \in Handler
         /\ [h EXCEPT !.dead = TRUE] \in Handler
         /\ \A d \in {"none", "pending", "landed", "cut"} : [h EXCEPT !.call = d] \in Handler
<1>1. \A e \in Error : [h EXCEPT !.err = e] \in Handler
  BY DEF Handler
<1>2. \A e \in Error, r \in Report : [h EXCEPT !.err = e, !.report = r] \in Handler
  BY DEF Handler
<1>3. \A p \in Pc : [h EXCEPT !.pc = p] \in Handler
  BY DEF Handler, Pc
<1>4. \A p \in Pc : [h EXCEPT !.pc = p, !.call = "none"] \in Handler
  <2> SUFFICES ASSUME NEW p \in Pc
               PROVE  [h EXCEPT !.pc = p, !.call = "none"] \in Handler
    OBVIOUS
  <2>1. "none" \in {"none", "pending", "landed", "cut"}
    OBVIOUS
  <2> QED BY <2>1 DEF Handler, Pc
<1>5. \A p \in Pc, e \in Error : [h EXCEPT !.pc = p, !.err = e] \in Handler
  BY DEF Handler, Pc
<1>6. [h EXCEPT !.dead = TRUE] \in Handler
  BY DEF Handler
<1>7. \A d \in {"none", "pending", "landed", "cut"} : [h EXCEPT !.call = d] \in Handler
  BY DEF Handler
<1> QED BY <1>1, <1>2, <1>3, <1>4, <1>5, <1>6, <1>7

\* The types of one handler and its list.
LEMMA OneHandler ==
  ASSUME TypeOK, NEW c \in Cmd
  PROVE  handler[c] \in Handler /\ bag[c] \in [Step -> StepStatus] /\ handler[c].step \in Step
<1>1. handler[c] \in Handler
  BY DEF TypeOK
<1> QED BY <1>1 DEF TypeOK, Handler

\* The types of a handler's surroundings, apart.
LEMMA TabTypes ==
  ASSUME TypeOK
  PROVE  /\ handler \in [Cmd -> Handler] /\ session \in 0 .. MaxCmd /\ owner \in 0 .. MaxCmd
         /\ calls \in Seq(Request) /\ replies \in Seq(Reply) /\ detached \in BOOLEAN
         /\ bag \in [Cmd -> [Step -> StepStatus]]
PROOF BY DEF TypeOK

\* A handler that has ended, or was abandoned, is a handler's record.
LEMMA SettledType ==
  ASSUME NEW c \in Cmd, NEW r \in Handler
  PROVE  settled(c, r) \in Handler
<1>1. [r EXCEPT !.pc = "settled", !.call = "none"] \in Handler
  BY Edited DEF Pc
<1> QED BY <1>1, Blank DEF settled

\* So is what is left of one whose report was sent.
LEMMA RemnantType ==
  ASSUME NEW r \in Handler
  PROVE  remnant(r) \in Handler
<1> DEFINE kind == IF r.kind = "tab" THEN "tab" ELSE "plain"
           step == IF r.pc = "input" THEN r.step ELSE 1
<1>1. kind \in {"tab", "plain", "workflow"} /\ step \in Step
  BY Constants DEF Handler
<1>2. NoHandler \in Handler /\ r.pc \in Pc /\ r.dead \in BOOLEAN /\ r.call \in {"none", "pending", "landed", "cut"}
  BY Blank DEF Handler, Pc
<1> HIDE DEF kind, step
<1>3. [NoHandler EXCEPT !.kind = kind, !.pc = r.pc, !.dead = r.dead, !.call = r.call, !.step = step] \in Handler
  BY <1>1, <1>2 DEF Handler, Pc
<1> QED BY <1>3 DEF remnant, kind, step

\* A marked list is a list.
LEMMA MarkType ==
  ASSUME TypeOK, NEW c \in Cmd, NEW steps \in [Step -> StepStatus], Mark(c, steps)
  PROVE  bag' \in [Cmd -> [Step -> StepStatus]]
PROOF BY Blank DEF TypeOK, Mark

\* A handler that leaves keeps the types.
LEMMA UnwindTypes ==
  ASSUME TypeOK, NEW c \in Cmd, NEW r \in Handler, Unwind(c, r)
  PROVE  handler' \in [Cmd -> Handler] /\ session' \in 0 .. MaxCmd /\ calls' \in Seq(Request)
<1>1. CASE session = c
  <2>1. [r EXCEPT !.pc = "leaving", !.call = "none"] \in Handler
    BY Edited DEF Pc
  <2>2. [op |-> "detach", by |-> c] \in Request
    BY Constants DEF Request
  <2>3. calls' = Append(calls, [op |-> "detach", by |-> c]) /\ calls \in Seq(Request)
    BY <1>1 DEF Unwind, Call, TypeOK
  <2>4. calls' \in Seq(Request)
    BY <2>2, <2>3, Appended
  <2>5. session' = 0 /\ handler' = [handler EXCEPT ![c] = [r EXCEPT !.pc = "leaving", !.call = "none"]]
    BY <1>1 DEF Unwind
  <2> QED BY <2>1, <2>4, <2>5, Constants, TabTypes
<1>2. CASE session # c
  <2>1. settled(c, r) \in Handler
    BY SettledType
  <2> QED BY <1>2, <2>1, TabTypes DEF Unwind
<1> QED BY <1>1, <1>2

\* The errors of a check and of a browser call are errors.
LEMMA TroubleType ==
  ASSUME NEW c \in Cmd
  PROVE  trouble(c) \subseteq {"cancelled", "failed", "uncertain"} /\ trouble(c) \subseteq Error
         /\ callError(c) \in Error
PROOF BY DEF trouble, callError, Error

\* An error outside the steps keeps the types.
LEMMA ThrowTypes ==
  ASSUME TypeOK, NEW c \in Cmd, NEW e \in Error, Throw(c, e)
  PROVE  /\ handler' \in [Cmd -> Handler] /\ session' \in 0 .. MaxCmd /\ calls' \in Seq(Request)
         /\ UNCHANGED <<bag, detached>>
<1>1. [handler[c] EXCEPT !.err = e] \in Handler
  BY OneHandler, Edited
<1> QED BY <1>1, UnwindTypes DEF Throw

\* The report of a workflow is a report.
LEMMA ReportType ==
  ASSUME TypeOK, NEW c \in Cmd, NEW s \in Status
  PROVE  workflowReport(c, s) \in Report
PROOF BY DEF TypeOK, Handler, workflowReport, Report

\* The list of a workflow that stopped is a list.
LEMMA MarkedType ==
  ASSUME NEW steps \in [Step -> StepStatus], NEW n
  PROVE  markUnstarted(steps, n) \in [Step -> StepStatus]
PROOF BY DEF markUnstarted, StepStatus

\* An error of a check before a step keeps the types.
LEMMA CheckThrowsTypes ==
  ASSUME TypeOK, NEW c \in Cmd, NEW e \in Error, CheckThrows(c, e)
  PROVE  /\ handler' \in [Cmd -> Handler] /\ session' \in 0 .. MaxCmd /\ calls' \in Seq(Request)
         /\ bag' \in [Cmd -> [Step -> StepStatus]] /\ UNCHANGED detached
<1>1. checkStatus(c, e) \in Status
  BY DEF checkStatus, Status
<1> DEFINE report == workflowReport(c, checkStatus(c, e))
<1>2. report \in Report
  BY <1>1, ReportType
<1> HIDE DEF report
<1>3. [handler[c] EXCEPT !.err = e, !.report = report] \in Handler
  BY <1>2, OneHandler, Edited
<1>4. Unwind(c, [handler[c] EXCEPT !.err = e, !.report = report])
  BY DEF CheckThrows, report
<1>5. bag' \in [Cmd -> [Step -> StepStatus]]
  <2>1. bag[c] \in [Step -> StepStatus]
    BY DEF TypeOK
  <2> QED BY <2>1, MarkedType, MarkType DEF CheckThrows
<1> QED BY <1>3, <1>4, <1>5, UnwindTypes DEF CheckThrows

\* An error of a step keeps the types.
LEMMA StepThrowsTypes ==
  ASSUME TypeOK, NEW c \in Cmd, NEW e \in Error, StepThrows(c, e)
  PROVE  /\ handler' \in [Cmd -> Handler] /\ session' \in 0 .. MaxCmd /\ calls' \in Seq(Request)
         /\ bag' \in [Cmd -> [Step -> StepStatus]] /\ UNCHANGED detached
<1>1. CASE handler[c].kind # "workflow"
  BY <1>1, ThrowTypes DEF StepThrows, TypeOK
<1>2. CASE handler[c].kind = "workflow"
  <2> DEFINE status == stepStatus(c, e)
             report == workflowReport(c, status)
             marked == IF status = "unobserved" THEN "failed" ELSE status
             list   == [bag[c] EXCEPT ![handler[c].step] = marked]
  <2>1. status \in Status /\ marked \in StepStatus
    BY DEF stepStatus, Status, StepStatus
  <2>2. report \in Report
    BY <2>1, ReportType
  <2>3. list \in [Step -> StepStatus]
    BY <2>1 DEF TypeOK, Handler
  <2>4. /\ Mark(c, markUnstarted(list, handler[c].step + 1))
        /\ Unwind(c, [handler[c] EXCEPT !.err = e, !.report = report])
        /\ UNCHANGED detached
    BY <1>2 DEF StepThrows
  <2> HIDE DEF report, list
  <2>5. [handler[c] EXCEPT !.err = e, !.report = report] \in Handler
    BY <2>2, OneHandler, Edited
  <2>6. bag' \in [Cmd -> [Step -> StepStatus]]
    BY <2>3, <2>4, MarkedType, MarkType
  <2> QED BY <2>4, <2>5, <2>6, UnwindTypes
<1> QED BY <1>1, <1>2

\* What a step of a handler may change.
TabTypesHold ==
  /\ handler' \in [Cmd -> Handler] /\ session' \in 0 .. MaxCmd /\ calls' \in Seq(Request) /\ detached' \in BOOLEAN
  /\ bag' \in [Cmd -> [Step -> StepStatus]]

\* Every error keeps the types.
LEMMA ThrowHolds ==
  ASSUME TypeOK, NEW c \in Cmd, NEW e \in Error, Throw(c, e) \/ StepThrows(c, e) \/ CheckThrows(c, e)
  PROVE  TabTypesHold
<1>1. CASE Throw(c, e)
  BY <1>1, ThrowTypes, TabTypes DEF TabTypesHold
<1>2. CASE StepThrows(c, e)
  BY <1>2, StepThrowsTypes, TabTypes DEF TabTypesHold
<1>3. CASE CheckThrows(c, e)
  BY <1>3, CheckThrowsTypes, TabTypes DEF TabTypesHold
<1> QED BY <1>1, <1>2, <1>3

\* A step of a handler that only changes its own record.
LEMMA EditHolds ==
  ASSUME TypeOK, NEW c \in Cmd, NEW h \in Handler, handler' = [handler EXCEPT ![c] = h], UNCHANGED tabs,
         bag' \in [Cmd -> [Step -> StepStatus]]
  PROVE  TabTypesHold
PROOF BY TabTypes DEF TabTypesHold, tabs

\* A handler that only goes on keeps the types.
LEMMA GotoHolds ==
  ASSUME TypeOK, NEW c \in Cmd, NEW p \in Pc, Goto(c, p), UNCHANGED tabs, UNCHANGED bag
  PROVE  TabTypesHold
<1>1. [handler[c] EXCEPT !.pc = p] \in Handler
  BY OneHandler, Edited
<1>2. handler' = [handler EXCEPT ![c] = [handler[c] EXCEPT !.pc = p]]
  BY TabTypes DEF Goto
<1> QED BY <1>1, <1>2, EditHolds, TabTypes

\* A call to Chrome joins a queue of calls.
LEMMA CallTypes ==
  ASSUME TypeOK, NEW op \in {"attach", "detach"}, NEW b \in 0 .. NoOne, Call(op, b)
  PROVE  calls' \in Seq(Request)
<1>1. [op |-> op, by |-> b] \in Request
  BY DEF Request
<1> QED BY <1>1, TabTypes, Appended DEF Call

\* A step of a handler keeps the types, and leaves the rest alone.
LEMMA HandlerStepTypes ==
  ASSUME TypeOK, NEW c \in Cmd, HandlerStep(c)
  PROVE  TabTypesHold /\ UNCHANGED <<control, chain, chrome, history>>
<1> DEFINE h == handler[c]
<1>0. h \in Handler /\ bag[c] \in [Step -> StepStatus] /\ h.step \in Step
  BY OneHandler
<1>t. trouble(c) \subseteq Error /\ callError(c) \in Error /\ unready(c) \subseteq Error
      /\ "failed" \in Error /\ "cancelled" \in Error /\ "uncertain" \in Error /\ "none" \in Error
  BY TroubleType DEF unready, Error
<1>1. CASE Authorize(c)
  <2>1. CASE \E e \in {"failed", "cancelled"} \cap trouble(c) : Throw(c, e)
    BY <1>1, <1>t, <2>1, ThrowHolds DEF Authorize
  <2>2. CASE ~ \E e \in {"failed", "cancelled"} \cap trouble(c) : Throw(c, e)
    <3> DEFINE g == [h EXCEPT !.pc = IF h.kind = "tab" THEN "lookup" ELSE "attach", !.bagged = h.kind = "workflow"]
    <3>1. g \in Handler
      <4>1. (IF h.kind = "tab" THEN "lookup" ELSE "attach") \in Pc /\ (h.kind = "workflow") \in BOOLEAN
        BY DEF Pc
      <4> QED BY <1>0, <4>1 DEF Handler, Pc
    <3>2. handler' = [handler EXCEPT ![c] = g] /\ UNCHANGED <<bag, tabs>>
      BY <1>1, <2>2, TabTypes DEF Authorize
    <3> QED BY <1>1, <3>1, <3>2, EditHolds, TabTypes DEF Authorize
  <2> QED BY <2>1, <2>2
<1>2. CASE LookUp(c)
  BY <1>2, <1>t, GotoHolds, ThrowHolds DEF LookUp, Pc
<1>3. CASE Attach(c)
  <2>1. CASE Throw(c, "cancelled") \/ Throw(c, "failed")
    BY <1>3, <1>t, <2>1, ThrowHolds DEF Attach
  <2>2. CASE ~(Throw(c, "cancelled") \/ Throw(c, "failed"))
    <3>1. Call("attach", c) /\ Goto(c, "attaching") /\ UNCHANGED <<bag, session>> /\ detached' = FALSE
      BY <1>3, <2>2 DEF Attach
    <3>2. calls' \in Seq(Request)
      BY <3>1, CallTypes, Constants
    <3>3. [h EXCEPT !.pc = "attaching"] \in Handler
      BY <1>0, Edited DEF Pc
    <3> QED BY <1>3, <3>1, <3>2, <3>3, TabTypes DEF Attach, TabTypesHold, Goto
  <2> QED BY <2>1, <2>2
<1>4. CASE Bind(c) \/ BindWorkflow(c)
  BY <1>4, <1>t, GotoHolds, ThrowHolds DEF Bind, BindWorkflow, Pc
<1>5. CASE Check(c)
  <2>1. CASE \E e \in trouble(c) : CheckThrows(c, e)
    BY <1>5, <1>t, <2>1, ThrowHolds DEF Check
  <2>2. CASE ~ \E e \in trouble(c) : CheckThrows(c, e)
    <3>1. [h EXCEPT !.pc = "prepare", !.before = h.dispatched] \in Handler
      BY <1>0 DEF Handler
    <3>2. [bag[c] EXCEPT ![h.step] = "running"] \in [Step -> StepStatus]
      BY <1>0 DEF StepStatus
    <3>3. /\ handler' = [handler EXCEPT ![c] = [h EXCEPT !.pc = "prepare", !.before = h.dispatched]]
          /\ Mark(c, [bag[c] EXCEPT ![h.step] = "running"]) /\ UNCHANGED tabs
      BY <1>5, <2>2, TabTypes DEF Check
    <3>4. bag' \in [Cmd -> [Step -> StepStatus]]
      BY <3>2, <3>3, MarkType
    <3> QED BY <1>5, <3>1, <3>3, <3>4, EditHolds DEF Check
  <2> QED BY <2>1, <2>2
<1>6. CASE Prepare(c)
  <2>1. \/ \E p \in Pc : Goto(c, p) /\ UNCHANGED bag /\ UNCHANGED tabs
        \/ \E e \in Error : StepThrows(c, e)
    BY <1>6, <1>t DEF Prepare, Pc
  <2> QED BY <1>6, <2>1, GotoHolds, ThrowHolds DEF Prepare
<1>7. CASE Dispatch(c)
  <2>1. CASE \E e \in Error : StepThrows(c, e)
    BY <1>7, <2>1, ThrowHolds DEF Dispatch
  <2>2. CASE ~ \E e \in Error : StepThrows(c, e)
    <3> DEFINE call == IF h.kind # "tab" /\ owner = 0 THEN "cut" ELSE "pending"
               g == [h EXCEPT !.pc = "input", !.dispatched = TRUE, !.call = call]
    <3>1. call \in {"none", "pending", "landed", "cut"}
      OBVIOUS
    <3>2. handler' = [handler EXCEPT ![c] = g] /\ UNCHANGED <<bag, tabs>>
      BY <1>7, <1>t, <2>2, TabTypes DEF Dispatch
    <3> HIDE DEF call
    <3>3. g \in Handler
      BY <1>0, <3>1 DEF Handler
    <3> QED BY <1>7, <3>2, <3>3, EditHolds, TabTypes DEF Dispatch
  <2> QED BY <2>1, <2>2
<1>8. CASE InputDone(c)
  <2>1. CASE \E e \in Error : StepThrows(c, e)
    BY <1>8, <2>1, ThrowHolds DEF InputDone
  <2>2. CASE ~ \E e \in Error : StepThrows(c, e)
    <3>1. PICK p \in {"observe", "prepare"} : handler' = [handler EXCEPT ![c].pc = p, ![c].call = "none"] /\ UNCHANGED <<bag, tabs>>
      BY <1>8, <1>t, <2>2 DEF InputDone
    <3>2. [h EXCEPT !.pc = p, !.call = "none"] \in Handler
      BY <1>0, Edited DEF Pc
    <3>3. handler' = [handler EXCEPT ![c] = [h EXCEPT !.pc = p, !.call = "none"]]
      BY <3>1, TabTypes
    <3> QED BY <1>8, <3>1, <3>2, <3>3, EditHolds, TabTypes DEF InputDone
  <2> QED BY <2>1, <2>2
<1>9. CASE InputFails(c)
  BY <1>9, <1>t, ThrowHolds DEF InputFails
<1>10. CASE Observe(c) \/ Loaded(c) \/ Capture(c)
  BY <1>10, <1>t, ThrowHolds DEF Observe, Loaded, Capture
<1>11. CASE StepDone(c)
  <2>1. CASE \E e \in Error : StepThrows(c, e)
    BY <1>11, <2>1, ThrowHolds DEF StepDone
  <2>2. CASE ~ \E e \in Error : StepThrows(c, e)
    <3> DEFINE more == h.step < MaxStep
               p == IF more THEN "check" ELSE "capture"
               n == IF more THEN h.step + 1 ELSE h.step
    <3>1. p \in Pc /\ n \in Step
      BY <1>0, Constants DEF Pc, Step
    <3>2. /\ handler' = [handler EXCEPT ![c] = [h EXCEPT !.pc = p, !.step = n]]
          /\ Mark(c, [bag[c] EXCEPT ![h.step] = "completed"]) /\ UNCHANGED tabs
      BY <1>11, <1>t, <2>2, TabTypes DEF StepDone
    <3> HIDE DEF p, n
    <3>3. [h EXCEPT !.pc = p, !.step = n] \in Handler
      BY <1>0, <3>1 DEF Handler, Pc
    <3>4. [bag[c] EXCEPT ![h.step] = "completed"] \in [Step -> StepStatus]
      BY <1>0 DEF StepStatus
    <3>5. bag' \in [Cmd -> [Step -> StepStatus]]
      BY <3>2, <3>4, MarkType
    <3> QED BY <1>11, <3>2, <3>3, <3>5, EditHolds DEF StepDone
  <2> QED BY <2>1, <2>2
<1> QED BY <1>1, <1>2, <1>3, <1>4, <1>5, <1>6, <1>7, <1>8, <1>9, <1>10, <1>11 DEF HandlerStep

\* The queue between a handler and Chrome, and the answers of runCommand.
LEMMA ReleaseTypes ==
  ASSUME TypeOK, NEW b \in 0 .. NoOne, Release(b)
  PROVE  session' \in 0 .. MaxCmd /\ calls' \in Seq(Request)
<1>1. CASE session # 0
  BY <1>1, CallTypes, Constants DEF Release
<1>2. CASE session = 0
  BY <1>2, TabTypes DEF Release
<1> QED BY <1>1, <1>2

\* What runCommand makes of an error is a report.
LEMMA FailureType ==
  ASSUME TypeOK, NEW c \in Cmd
  PROVE  plainFailure(c) \in Report /\ timedOut(c) \in Report /\ failure(c) \in Report
<1> DEFINE h == handler[c]
<1>0. h \in Handler /\ NoReport \in Report
  BY OneHandler, Blank
<1>1. h.dispatched \in BOOLEAN /\ h.bagged \in BOOLEAN /\ h.report \in Report
  BY <1>0 DEF Handler
<1>2. plainFailure(c) \in Report
  BY <1>0, <1>1 DEF plainFailure, Report, Status
<1> DEFINE p == plainFailure(c)
           status == IF h.dispatched THEN "uncertain" ELSE "cancelled"
<1>3. timedOut(c) \in Report
  <2>1. status \in Status
    BY DEF Status
  <2>2. timedOut(c) = [p EXCEPT !.status = status, !.dispatched = h.dispatched, !.steps = h.bagged]
    BY DEF timedOut
  <2> HIDE DEF p, status
  <2> QED BY <1>1, <1>2, <2>1, <2>2 DEF Report, p
<1>4. outerStatus(c) \in Status /\ "unobserved" \in Status
  BY DEF outerStatus, Status
<1>5. workflowReport(c, outerStatus(c)) \in Report /\ workflowReport(c, "unobserved") \in Report
  BY <1>4, ReportType
<1>6. [workflowReport(c, "unobserved") EXCEPT !.steps = FALSE] \in Report
  BY <1>5 DEF Report
<1> QED BY <1>1, <1>2, <1>3, <1>5, <1>6 DEF failure

\* runCommand returning keeps the types.
LEMMA ReturnTypes ==
  ASSUME TypeOK, NEW r \in Report, Return(r)
  PROVE  /\ outcome' \in Report /\ session' \in 0 .. MaxCmd /\ calls' \in Seq(Request)
         /\ turn' \in [cmd : 0 .. MaxCmd, at : {"idle", "taken", "running", "confirming", "releasing", "sending"}]
         /\ turn'.cmd = turn.cmd /\ turn'.at # "idle"
<1>1. session' \in 0 .. MaxCmd /\ calls' \in Seq(Request)
  BY ReleaseTypes, Constants DEF Return
<1>2. turn \in [cmd : 0 .. MaxCmd, at : {"idle", "taken", "running", "confirming", "releasing", "sending"}]
  BY DEF TypeOK
<1>3. outcome' = r /\ turn' = [turn EXCEPT !.at = IF session # 0 THEN "releasing" ELSE "sending"]
  BY DEF Return
<1> QED BY <1>1, <1>2, <1>3

\* A debugger that closes leaves handlers' records.
LEMMA CutOffType ==
  ASSUME TypeOK
  PROVE  cutOff \in [Cmd -> Handler]
<1>1. ASSUME NEW c \in Cmd
      PROVE  [handler[c] EXCEPT !.call = IF @ # "none" /\ handler[c].kind # "tab" THEN "cut" ELSE @] \in Handler
  <2>1. handler[c] \in Handler
    BY OneHandler
  <2>2. (IF handler[c].call # "none" /\ handler[c].kind # "tab" THEN "cut" ELSE handler[c].call)
           \in {"none", "pending", "landed", "cut"}
    BY <2>1 DEF Handler
  <2> QED BY <2>1, <2>2, Edited
<1> QED BY <1>1 DEF cutOff

\* An answer of Chrome joins a queue of answers.
LEMMA AnswerTypes ==
  ASSUME TypeOK, NEW op \in {"attach", "refused", "detach", "gone"}, NEW b \in 0 .. NoOne, Answer(op, b)
  PROVE  replies' \in Seq(Reply)
<1>1. [op |-> op, by |-> b] \in Reply
  BY DEF Reply
<1> QED BY <1>1, TabTypes, Appended DEF Answer

\* The types of the call that is served and the answer that is heard.
LEMMA HeadTypes ==
  ASSUME TypeOK
  PROVE  /\ calls # <<>> => Tail(calls) \in Seq(Request) /\ Head(calls) \in Request /\ Head(calls).by \in 0 .. NoOne
         /\ replies # <<>> => Tail(replies) \in Seq(Reply) /\ Head(replies) \in Reply /\ Head(replies).by \in 0 .. NoOne
<1>1. ASSUME calls # <<>>
      PROVE  Tail(calls) \in Seq(Request) /\ Head(calls) \in Request /\ Head(calls).by \in 0 .. NoOne
  <2>1. Tail(calls) \in Seq(Request) /\ Head(calls) \in Request
    BY <1>1, TabTypes, Popped
  <2> QED BY <2>1 DEF Request
<1>2. ASSUME replies # <<>>
      PROVE  Tail(replies) \in Seq(Reply) /\ Head(replies) \in Reply /\ Head(replies).by \in 0 .. NoOne
  <2>1. Tail(replies) \in Seq(Reply) /\ Head(replies) \in Reply
    BY <1>2, TabTypes, Popped
  <2> QED BY <2>1 DEF Reply
<1> QED BY <1>1, <1>2

\* What the chain may change.
ChainTypesHold ==
  /\ turn' \in [cmd : 0 .. MaxCmd, at : {"idle", "taken", "running", "confirming", "releasing", "sending"}]
  /\ turn'.cmd = turn.cmd /\ (turn.at = "idle" => turn'.at = "idle")
  /\ outcome' \in Report
  /\ TabTypesHold

\* The answer to attach keeps the types.
LEMMA AttachedTypes ==
  ASSUME TypeOK, NEW c \in Cmd, Attached(c)
  PROVE  TabTypesHold
<1> DEFINE h == handler[c]
           error == IF ~live(c) THEN "cancelled" ELSE IF detached THEN "uncertain" ELSE "failed"
<1>0. h \in Handler /\ error \in Error
  BY OneHandler DEF Error
<1>1. CASE live(c) /\ session = 0 /\ ~detached
  <2>1. [h EXCEPT !.pc = "bind"] \in Handler
    BY <1>0, Edited DEF Pc
  <2>2. Goto(c, "bind") /\ session' = c /\ UNCHANGED <<bag, detached, calls>>
    BY <1>1 DEF Attached
  <2> QED BY <2>1, <2>2, Constants, TabTypes DEF TabTypesHold, Goto
<1>2. CASE ~(live(c) /\ session = 0 /\ ~detached) /\ session = 0
  <2>1. /\ Call("detach", c) /\ UNCHANGED <<bag, session, detached>>
        /\ handler' = [handler EXCEPT ![c] = [h EXCEPT !.pc = "dropping", !.err = error]]
    BY <1>2, TabTypes DEF Attached
  <2> HIDE DEF error
  <2>2. [h EXCEPT !.pc = "dropping", !.err = error] \in Handler
    BY <1>0, Edited DEF Pc
  <2>3. calls' \in Seq(Request)
    BY <2>1, CallTypes, Constants
  <2> QED BY <2>1, <2>2, <2>3, TabTypes DEF TabTypesHold
<1>3. CASE session # 0
  <2>1. detached' = FALSE /\ Unwind(c, [h EXCEPT !.err = error]) /\ UNCHANGED bag
    BY <1>3 DEF Attached
  <2> HIDE DEF error
  <2>2. [h EXCEPT !.err = error] \in Handler
    BY <1>0, Edited
  <2> QED BY <2>1, <2>2, UnwindTypes, TabTypes DEF TabTypesHold
<1> QED BY <1>1, <1>2, <1>3

\* Every step keeps the types and the bounds on the counters.
LEMMA TypesKept ==
  ASSUME TypeOK, Bounds, Attaches, Detaches, [Next]_vars
  PROVE  TypeOK' /\ Bounds'
<1> USE DEF TypeOK, Bounds
<1>e. /\ epoch \in Nat /\ policy \in Nat /\ used.control \in 0 .. MaxControl /\ used.dismiss \in 0 .. MaxDismiss
      /\ Len(changes) \in Nat
  BY Constants
<1>1. ASSUME NEW kind \in {"tab", "plain", "workflow"}, Take(kind)
      PROVE  TypeOK' /\ Bounds'
  <2> DEFINE n == turn.cmd + 1
             g == [handler[n] EXCEPT !.kind = kind, !.policy = policy, !.epoch = epoch]
  <2>1. n \in Cmd
    <3>1. turn.cmd \in 0 .. MaxCmd /\ turn.cmd < MaxCmd
      BY <1>1 DEF Take
    <3> HIDE DEF TypeOK, Bounds
    <3> QED BY <3>1, Constants DEF Cmd
  <2>2. handler' = [handler EXCEPT ![n] = g]
    BY <1>1 DEF Take
  <2>3. handler[n] \in Handler
    BY <2>1, OneHandler
  <2> HIDE DEF n
  <2>4. g \in Handler
    BY <2>3 DEF Handler
  <2>5. handler' \in [Cmd -> Handler]
    BY <2>1, <2>2, <2>4
  <2>6. turn' \in [cmd : 0 .. MaxCmd, at : {"idle", "taken", "running", "confirming", "releasing", "sending"}]
    BY <1>1, <2>1, Constants DEF Take, n
  <2> QED BY <1>1, <2>5, <2>6 DEF Take, vars, control, chain, tabs, chrome, history
<1>2. CASE RunCommand
  <2>1. turn.at = "taken" /\ turn.cmd \in 0 .. MaxCmd
    BY <1>2 DEF RunCommand
  <2>2. handler' \in [Cmd -> Handler]
    <3>1. CASE UNCHANGED handler
      BY <3>1
    <3>2. CASE handler' = [handler EXCEPT ![turn.cmd].pc = "authorize"]
      <4>1. ASSUME NEW c \in Cmd PROVE [handler[c] EXCEPT !.pc = "authorize"] \in Handler
        BY OneHandler, Edited DEF Pc
      <4> QED BY <3>2, <4>1
    <3> QED BY <1>2, <3>1, <3>2 DEF RunCommand
  <2>3. outcome' \in Report /\ turn' \in [cmd : 0 .. MaxCmd, at : {"idle", "taken", "running", "confirming", "releasing", "sending"}]
    BY <1>2, Blank DEF RunCommand
  <2> QED BY <1>2, <2>2, <2>3 DEF RunCommand, vars, control, tabs, chrome, history
<1>3. ASSUME ChainTypesHold, UNCHANGED <<control, chrome, history>>
      PROVE  TypeOK' /\ Bounds'
  <2>1. TypeOK'
    BY <1>3 DEF ChainTypesHold, TabTypesHold, control, chrome, history
  <2>2. Bounds'
    BY <1>3 DEF ChainTypesHold, TabTypesHold, control, chrome, history
  <2> QED BY <2>1, <2>2
<1>c. turn.at # "idle" => turn.cmd \in Cmd
  BY Constants DEF Cmd
<1>4. CASE RaceSettles
  <2> DEFINE c == turn.cmd
  <2>1. CASE handler[c].err = "none"
    <3>1. turn' = [turn EXCEPT !.at = "confirming"] /\ UNCHANGED <<outcome, session, calls, handlers, detached>>
      BY <1>4, <2>1 DEF RaceSettles
    <3> QED BY <1>3, <1>4, <3>1, TabTypes DEF RaceSettles, ChainTypesHold, TabTypesHold, handlers
  <2>2. CASE handler[c].err # "none"
    <3>1. c \in Cmd /\ Return(failure(c))
      BY <1>4, <1>c, <2>2 DEF RaceSettles
    <3>2. failure(c) \in Report
      BY <3>1, FailureType
    <3> QED BY <1>3, <1>4, <3>1, <3>2, ReturnTypes, TabTypes DEF RaceSettles, ChainTypesHold, TabTypesHold, handlers
  <2> QED BY <2>1, <2>2
<1>5. CASE Confirm
  <2> DEFINE c == turn.cmd
             good == [ok |-> TRUE, status |-> "completed", dispatched |-> handler[c].dispatched, steps |-> handler[c].bagged]
             r == IF permitted(c) THEN good ELSE plainFailure(c)
  <2>1. c \in Cmd /\ Return(r)
    BY <1>5, <1>c DEF Confirm
  <2>2. good \in Report
    <3>1. handler[c] \in Handler
      BY <2>1, OneHandler
    <3> QED BY <3>1 DEF Handler, Report, Status
  <2>3. r \in Report
    BY <2>1, <2>2, FailureType
  <2> QED BY <1>3, <1>5, <2>1, <2>3, ReturnTypes, TabTypes DEF Confirm, ChainTypesHold, TabTypesHold, handlers
<1>6. CASE Timeout
  <2> DEFINE c == turn.cmd
  <2>1. c \in Cmd /\ handler' = [handler EXCEPT ![c].dead = TRUE]
    BY <1>6, <1>c DEF Timeout
  <2>2. handler' \in [Cmd -> Handler]
    <3>1. handler' = [handler EXCEPT ![c] = [handler[c] EXCEPT !.dead = TRUE]]
      <4> HIDE DEF TypeOK, Bounds
      <4> QED BY <2>1, TabTypes
    <3>2. [handler[c] EXCEPT !.dead = TRUE] \in Handler
      BY <2>1, OneHandler, Edited
    <3> QED BY <2>1, <3>1, <3>2, TabTypes
  <2>3. CASE turn.at = "running"
    <3>1. timedOut(c) \in Report /\ Return(timedOut(c))
      BY <1>6, <2>1, <2>3, FailureType DEF Timeout
    <3> QED BY <1>3, <1>6, <2>2, <3>1, ReturnTypes, TabTypes DEF Timeout, ChainTypesHold, TabTypesHold
  <2>4. CASE turn.at # "running"
    BY <1>3, <1>6, <2>2, <2>4, TabTypes DEF Timeout, ChainTypesHold, TabTypesHold, chain
  <2> QED BY <2>3, <2>4
<1>7. CASE Send
  <2> DEFINE c == turn.cmd
             report == [at |-> "sent", dispatched |-> outcome.dispatched,
                        unstarted |-> IF outcome.steps THEN {i \in Step : bag[c][i] = "unstarted"} ELSE {}]
             left == IF handler[c].pc \in {"none", "settled"} THEN NoHandler ELSE remnant(handler[c])
  <2>1. /\ c \in Cmd
        /\ sent' = [sent EXCEPT ![c] = report] /\ bag' = [bag EXCEPT ![c] = NoSteps]
        /\ handler' = [handler EXCEPT ![c] = left]
        /\ turn' = [turn EXCEPT !.at = "idle"] /\ outcome' = NoReport
    BY <1>7, <1>c, TabTypes DEF Send
  <2>2. report \in [at : {"unsent", "sent"}, dispatched : BOOLEAN, unstarted : SUBSET Step]
    <3>1. outcome.dispatched \in BOOLEAN
      BY DEF Report
    <3> QED BY <3>1
  <2>3. left \in Handler
    BY <2>1, OneHandler, RemnantType, Blank
  <2> HIDE DEF report, left
  <2>4. UNCHANGED <<control, tabs, chrome, hit, undercut, used>>
    BY <1>7 DEF Send
  <2>5. /\ sent' \in [Cmd -> [at : {"unsent", "sent"}, dispatched : BOOLEAN, unstarted : SUBSET Step]]
        /\ bag' \in [Cmd -> [Step -> StepStatus]] /\ handler' \in [Cmd -> Handler]
        /\ turn' \in [cmd : 0 .. MaxCmd, at : {"idle", "taken", "running", "confirming", "releasing", "sending"}]
        /\ outcome' \in Report /\ turn'.at = "idle"
    BY <2>1, <2>2, <2>3, Blank
  <2> QED BY <2>4, <2>5 DEF control, tabs, chrome
<1>8. ASSUME NEW c \in Cmd, HandlerStep(c)
      PROVE  TypeOK' /\ Bounds'
  <2>1. TabTypesHold /\ UNCHANGED <<control, chain, chrome, history>>
    BY <1>8, HandlerStepTypes
  <2> QED BY <1>3, <2>1 DEF ChainTypesHold, chain, control, chrome, history
<1>9. ASSUME NEW c \in Cmd, Lands(c)
      PROVE  TypeOK' /\ Bounds'
  <2>1. /\ handler' = [handler EXCEPT ![c] = [handler[c] EXCEPT !.call = "landed"]]
        /\ hit' = [hit EXCEPT ![c] = hit[c] \cup {handler[c].step}]
    BY <1>9, TabTypes DEF Lands
  <2>2. handler' \in [Cmd -> Handler] /\ hit' \in [Cmd -> SUBSET Step]
    <3>1. [handler[c] EXCEPT !.call = "landed"] \in Handler /\ handler[c].step \in Step
      BY OneHandler, Edited
    <3> QED BY <2>1, <3>1
  <2> QED BY <1>9, <2>2 DEF Lands, control, chain, tabs, chrome
<1>10. CASE ServeAttach
  <2>1. calls' \in Seq(Request) /\ Head(calls).by \in 0 .. NoOne
    BY <1>10, HeadTypes DEF ServeAttach
  <2>2. replies' \in Seq(Reply)
    BY <1>10, <2>1, AnswerTypes DEF ServeAttach
  <2>3. Head(calls).by \in Cmd
    BY <1>10, TabTypes, Popped DEF ServeAttach, Attaches, asks
  <2>4. owner' \in 0 .. MaxCmd
    BY <1>10, <2>3, Constants DEF ServeAttach
  <2> QED BY <1>10, <2>1, <2>2, <2>4 DEF ServeAttach, control, chain, handlers, history
<1>11. CASE ServeDetach
  <2>1. calls' \in Seq(Request) /\ Head(calls).by \in 0 .. NoOne
    BY <1>11, HeadTypes DEF ServeDetach
  <2>2. replies' \in Seq(Reply)
    BY <1>11, <2>1, AnswerTypes DEF ServeDetach
  <2>3. handler' \in [Cmd -> Handler]
    BY <1>11, CutOffType DEF ServeDetach
  <2>4. owner' \in 0 .. MaxCmd /\ undercut' \subseteq Cmd
    <3>1. owner' = 0 /\ undercut' \subseteq undercut \cup ({owner} \ {0})
      BY <1>11, Constants DEF ServeDetach
    <3>2. owner \in 0 .. MaxCmd /\ undercut \subseteq Cmd
      OBVIOUS
    <3> HIDE DEF TypeOK, Bounds
    <3>3. owner \in Cmd \cup {0}
      BY <3>2, Constants DEF Cmd
    <3> QED BY <3>1, <3>2, <3>3, Constants
  <2>5. UNCHANGED <<control, chain, bag, session, detached, sent, hit, used>>
    BY <1>11 DEF ServeDetach
  <2> QED BY <2>1, <2>2, <2>3, <2>4, <2>5 DEF control, chain
<1>12. CASE Dismiss
  <2>1. replies' \in Seq(Reply)
    BY <1>12, AnswerTypes, Constants DEF Dismiss
  <2>2. handler' \in [Cmd -> Handler]
    BY <1>12, CutOffType DEF Dismiss
  <2>3. owner' \in 0 .. MaxCmd /\ used' \in [control : 0 .. MaxControl, dismiss : 0 .. MaxDismiss]
        /\ used'.control = used.control
    <3>1. used \in [control : 0 .. MaxControl, dismiss : 0 .. MaxDismiss]
      OBVIOUS
    <3>2. owner' = 0 /\ used' = [used EXCEPT !.dismiss = @ + 1] /\ used.dismiss < MaxDismiss
      BY <1>12 DEF Dismiss
    <3> HIDE DEF TypeOK, Bounds
    <3> QED BY <3>1, <3>2, Constants
  <2>4. UNCHANGED <<control, chain, bag, tabs, sent, hit, undercut>>
    BY <1>12 DEF Dismiss
  <2> QED BY <2>1, <2>2, <2>3, <2>4 DEF control, chain, tabs
<1>13. CASE HearAttach
  <2>1. replies # <<>> /\ Head(replies).op \in {"attach", "refused"} /\ replies' = Tail(replies)
    BY <1>13 DEF HearAttach
  <2>2. Head(replies).by \in Cmd
    BY <2>1, TabTypes, Popped DEF Attaches, hears
  <2>3. TabTypesHold
    BY <1>13, <2>2, AttachedTypes, ThrowHolds DEF HearAttach, Error
  <2>4. replies' \in Seq(Reply)
    BY <2>1, HeadTypes
  <2> QED BY <1>13, <2>3, <2>4 DEF HearAttach, TabTypesHold, control, chain, history
<1>14. CASE HearDetach
  <2> DEFINE c == Head(replies).by
             e == IF handler[c].pc = "dropping" /\ ~live(c) THEN "cancelled" ELSE handler[c].err
  <2>1. replies' \in Seq(Reply)
    BY <1>14, HeadTypes DEF HearDetach
  <2>2. turn' \in [cmd : 0 .. MaxCmd, at : {"idle", "taken", "running", "confirming", "releasing", "sending"}]
        /\ turn'.cmd = turn.cmd
    BY <1>14 DEF HearDetach
  <2>3. handler' \in [Cmd -> Handler] /\ detached' \in BOOLEAN
    <3>1. CASE UNCHANGED <<handler, detached>>
      BY <3>1, TabTypes
    <3>2. CASE c \in Cmd /\ handler[c].pc \in {"leaving", "dropping"}
      <4>1. e \in Error
        BY <3>2, OneHandler DEF Handler, Error
      <4>2. handler' = [handler EXCEPT ![c] = settled(c, [handler[c] EXCEPT !.err = e])]
            /\ detached' = IF handler[c].pc = "dropping" THEN FALSE ELSE detached
        <5> HIDE DEF TypeOK, Bounds
        <5> QED BY <1>14, <3>2, TabTypes DEF HearDetach
      <4> HIDE DEF e
      <4>3. settled(c, [handler[c] EXCEPT !.err = e]) \in Handler
        BY <3>2, <4>1, OneHandler, Edited, SettledType
      <4> HIDE DEF TypeOK
      <4> QED BY <3>2, <4>2, <4>3, TabTypes
    <3> QED BY <1>14, <3>1, <3>2 DEF HearDetach
  <2>4. UNCHANGED <<control, outcome, bag, session, calls, owner, history>>
    BY <1>14 DEF HearDetach
  <2>5. turn'.at # "idle" => turn'.cmd # 0
    <3>1. CASE c = Chain
      <4>1. turn.at = "releasing"
        <5>1. replies # <<>> /\ Head(replies).op = "detach"
          BY <1>14 DEF HearDetach
        <5>2. 1 \in DOMAIN replies /\ Head(replies) = replies[1]
          BY <5>1, Popped, TabTypes
        <5>3. dropped(1) /\ replies[1].by = Chain
          BY <3>1, <5>1, <5>2 DEF dropped
        <5> HIDE DEF TypeOK, Bounds
        <5> QED BY <5>2, <5>3, Constants DEF Detaches, waits, NoOne, Chain
      <4> QED BY <4>1, <2>2
    <3>2. CASE c # Chain
      BY <1>14, <3>2 DEF HearDetach
    <3> QED BY <3>1, <3>2
  <2> QED BY <2>1, <2>2, <2>3, <2>4, <2>5 DEF control, history
<1>15. CASE HearGone
  <2>1. replies' \in Seq(Reply)
    BY <1>15, HeadTypes DEF HearGone
  <2>2. session' \in 0 .. MaxCmd /\ detached' \in BOOLEAN
    BY <1>15, Constants DEF HearGone
  <2>3. UNCHANGED <<control, chain, handlers, calls, owner, history>>
    BY <1>15 DEF HearGone
  <2> QED BY <2>1, <2>2, <2>3 DEF control, chain, handlers, history
<1>16. ASSUME NEW what \in {"pause", "resume", "settings"}, Change(what)
       PROVE  TypeOK' /\ Bounds'
  <2>1. changes' \in Seq({"pause", "resume", "settings"}) /\ Len(changes') = Len(changes) + 1
    BY <1>16, Appended DEF Change
  <2>2. used' \in [control : 0 .. MaxControl, dismiss : 0 .. MaxDismiss] /\ used'.control = used.control + 1
    <3>1. used \in [control : 0 .. MaxControl, dismiss : 0 .. MaxDismiss]
      OBVIOUS
    <3>2. used' = [used EXCEPT !.control = @ + 1] /\ used.control < MaxControl
      BY <1>16 DEF Change
    <3> HIDE DEF TypeOK, Bounds
    <3> QED BY <3>1, <3>2, Constants
  <2>3. enabled' \in BOOLEAN /\ policy' \in {policy, policy + 1}
    BY <1>16 DEF Change
  <2>4. UNCHANGED <<epoch, accepting, chain, handlers, tabs, chrome, sent, hit, undercut>>
    BY <1>16 DEF Change
  <2>5. TypeOK'
    <3>1. policy' \in 0 .. MaxControl
      <4>1. policy <= used.control /\ used.control + 1 \in 0 .. MaxControl
        BY <2>2
      <4> HIDE DEF TypeOK, Bounds
      <4> QED BY <1>e, <2>3, <4>1, Constants
    <3> QED BY <2>1, <2>2, <2>3, <2>4, <3>1 DEF chain, handlers, tabs, chrome
  <2>6. Bounds'
    <3>1. epoch + Len(changes) <= used.control /\ policy <= used.control /\ (turn.at # "idle" => turn.cmd # 0)
      OBVIOUS
    <3>2. epoch' = epoch /\ turn' = turn
      BY <2>4 DEF chain
    <3>3. epoch' + Len(changes') <= used'.control /\ policy' <= used'.control
      <4> HIDE DEF TypeOK, Bounds
      <4> QED BY <1>e, <2>1, <2>2, <2>3, <3>1, <3>2
    <3> QED BY <3>1, <3>2, <3>3
  <2> QED BY <2>5, <2>6
<1>17. CASE HearChange
  <2>1. changes' \in Seq({"pause", "resume", "settings"}) /\ Len(changes') = Len(changes) - 1
    BY <1>17, Popped DEF HearChange
  <2>2. session' \in 0 .. MaxCmd /\ calls' \in Seq(Request)
    BY <1>17, ReleaseTypes, Constants, TabTypes DEF HearChange
  <2>3. epoch' = epoch + 1 /\ accepting' \in BOOLEAN
    BY <1>17 DEF HearChange
  <2>4. UNCHANGED <<enabled, policy, chain, handlers, detached, chrome, history>>
    BY <1>17 DEF HearChange
  <2>5. epoch' \in 0 .. MaxControl
    BY <1>e, <2>1, <2>3, Constants
  <2>6. Bounds'
    BY <1>e, <2>1, <2>3, <2>4 DEF chain, history
  <2> QED BY <2>1, <2>2, <2>3, <2>4, <2>5, <2>6 DEF chain, handlers, chrome, history
<1>18. CASE UNCHANGED vars
  BY <1>18 DEF vars, control, chain, handlers, tabs, chrome, history
<1> HIDE DEF TypeOK, Bounds
<1> QED BY <1>1, <1>2, <1>4, <1>5, <1>6, <1>7, <1>8, <1>9, <1>10, <1>11, <1>12, <1>13, <1>14, <1>15, <1>16, <1>17, <1>18
        DEF Next, ChainStep, ChromeStep
-----------------------------------------------------------------------------
(* What a step of a handler does to the tab *)

Working == {"authorize", "lookup", "attach", "bind", "check", "prepare", "ready", "input", "observe", "capture"}

Others(c) == \A d \in Cmd \ {c} : handler'[d] = handler[d]

\* It is over, and detaches the tab if it has the session.
Over(c) ==
  /\ Others(c)
  /\ handler'[c].call = "none"
  /\ \/ handler'[c].dead = handler[c].dead /\ handler'[c].kind = handler[c].kind
     \/ abandoned(c) /\ handler'[c] = NoHandler
  /\ \/ session = c /\ session' = 0 /\ Call("detach", c) /\ handler'[c].pc = "leaving"
     \/ /\ session # c /\ UNCHANGED <<session, calls>>
        /\ handler'[c].pc = "settled" \/ (abandoned(c) /\ handler'[c] = NoHandler)

\* It goes on.
Went(c) ==
  LET h == handler[c]
      g == handler'[c]
  IN  /\ Others(c)
      /\ UNCHANGED <<session, calls>>
      /\ g.dead = h.dead /\ g.kind = h.kind
      /\ g.pc \in {"lookup", "attach", "check", "prepare", "ready", "input", "observe", "capture"}
      /\ g.pc = "attach" => g.kind # "tab"
      /\ g.pc = "lookup" => g.kind = "tab"
      /\ g.pc \in {"lookup", "attach"} => h.pc \notin Inside
      /\ g.pc \in Inside /\ g.kind # "tab" => h.pc \in Inside
      /\ \/ g.call \in {"none", h.call}
         \/ h.pc = "ready" /\ live(c) /\ (g.call = "pending" /\ g.kind # "tab" => owner # 0)
      /\ g.pc = "input" => h.pc = "ready" /\ live(c)
      /\ g.call = "landed" => h.call = "landed"

\* It asks Chrome to attach.
Starts(c) ==
  /\ handler[c].pc = "attach" /\ live(c) /\ session = 0
  /\ Call("attach", c) /\ UNCHANGED session
  /\ handler' = [handler EXCEPT ![c].pc = "attaching"]

\* A handler that leaves is over.
LEMMA UnwindEffect ==
  ASSUME TypeOK, NEW c \in Cmd, NEW r \in Handler, r.kind = handler[c].kind, r.dead = handler[c].dead, Unwind(c, r)
  PROVE  Over(c)
<1>1. CASE session = c
  <2>1. session' = 0 /\ Call("detach", c) /\ handler' = [handler EXCEPT ![c] = [r EXCEPT !.pc = "leaving", !.call = "none"]]
    BY <1>1 DEF Unwind
  <2>2. [r EXCEPT !.pc = "leaving", !.call = "none"].pc = "leaving" /\ [r EXCEPT !.pc = "leaving", !.call = "none"].call = "none"
        /\ [r EXCEPT !.pc = "leaving", !.call = "none"].kind = handler[c].kind
        /\ [r EXCEPT !.pc = "leaving", !.call = "none"].dead = handler[c].dead
    BY DEF Handler
  <2> QED BY <1>1, <2>1, <2>2, TabTypes DEF Over, Others
<1>2. CASE session # c
  <2>1. UNCHANGED <<session, calls>> /\ handler' = [handler EXCEPT ![c] = settled(c, r)]
    BY <1>2 DEF Unwind
  <2>2. settled(c, r).call = "none"
        /\ \/ settled(c, r).pc = "settled" /\ settled(c, r).kind = handler[c].kind /\ settled(c, r).dead = handler[c].dead
           \/ abandoned(c) /\ settled(c, r) = NoHandler
    BY DEF settled, Handler, NoHandler
  <2> QED BY <1>2, <2>1, <2>2, TabTypes DEF Over, Others
<1> QED BY <1>1, <1>2

\* One that throws is over.
LEMMA ThrowEffect ==
  ASSUME TypeOK, NEW c \in Cmd, NEW e \in Error, Throw(c, e) \/ StepThrows(c, e) \/ CheckThrows(c, e)
  PROVE  Over(c)
<1> DEFINE h == handler[c]
<1>0. h \in Handler
  BY OneHandler
<1>1. CASE Throw(c, e)
  <2>1. [h EXCEPT !.err = e] \in Handler
    BY <1>0, Edited
  <2>2. [h EXCEPT !.err = e].kind = h.kind /\ [h EXCEPT !.err = e].dead = h.dead
    BY <1>0 DEF Handler
  <2> QED BY <1>1, <2>1, <2>2, UnwindEffect DEF Throw
<1>2. ASSUME NEW s \in Status, Unwind(c, [h EXCEPT !.err = e, !.report = workflowReport(c, s)])
      PROVE  Over(c)
  <2> DEFINE w == workflowReport(c, s)
  <2>1. w \in Report
    BY ReportType
  <2>2. Unwind(c, [h EXCEPT !.err = e, !.report = w])
    BY <1>2
  <2> HIDE DEF w
  <2>3. [h EXCEPT !.err = e, !.report = w] \in Handler
    BY <1>0, <2>1, Edited
  <2>4. [h EXCEPT !.err = e, !.report = w].kind = h.kind /\ [h EXCEPT !.err = e, !.report = w].dead = h.dead
    BY <1>0 DEF Handler
  <2> QED BY <2>2, <2>3, <2>4, UnwindEffect
<1>3. CASE CheckThrows(c, e)
  <2>1. checkStatus(c, e) \in Status
    BY DEF checkStatus, Status
  <2> QED BY <1>2, <1>3, <2>1 DEF CheckThrows
<1>4. CASE StepThrows(c, e)
  <2>1. stepStatus(c, e) \in Status
    BY DEF stepStatus, Status
  <2> QED BY <1>1, <1>2, <1>4, <2>1 DEF StepThrows
<1> QED BY <1>1, <1>3, <1>4

\* One that goes to its next wait goes on.
LEMMA GotoEffect ==
  ASSUME TypeOK, NEW c \in Cmd, NEW p, Goto(c, p), UNCHANGED tabs,
         p \in {"check", "prepare", "ready", "observe", "capture"},
         handler[c].kind # "tab" => handler[c].pc \in Inside
  PROVE  Went(c)
<1>1. handler' = [handler EXCEPT ![c] = [handler[c] EXCEPT !.pc = p]]
  BY TabTypes DEF Goto
<1>2. handler[c] \in Handler
  BY OneHandler
<1> QED BY <1>1, <1>2, TabTypes DEF Went, Others, tabs, Handler

\* A step of a handler ends it, goes on, or asks Chrome to attach.
LEMMA HandlerEffect ==
  ASSUME TypeOK, Attaches, NEW c \in Cmd, HandlerStep(c)
  PROVE  /\ handler[c].pc \in Working
         /\ UNCHANGED <<control, chain, chrome, history>>
         /\ Over(c) \/ Went(c) \/ Starts(c)
<1> DEFINE h == handler[c]
<1>0. h \in Handler
  BY OneHandler
<1>t. trouble(c) \subseteq Error /\ callError(c) \in Error /\ unready(c) \subseteq Error
      /\ "failed" \in Error /\ "cancelled" \in Error /\ "uncertain" \in Error /\ "none" \in Error
  BY TroubleType DEF unready, Error
<1>a. UNCHANGED <<control, chain, chrome, history>>
  BY HandlerStepTypes
<1>b. h.pc \in Working
  BY DEF HandlerStep, Authorize, LookUp, Attach, Bind, BindWorkflow, Check, Prepare, Dispatch, InputDone,
         InputFails, Observe, StepDone, Loaded, Capture, Working
<1>1. CASE \E e \in Error : Throw(c, e) \/ StepThrows(c, e) \/ CheckThrows(c, e)
  BY <1>1, <1>a, <1>b, ThrowEffect
<1>2. ASSUME ~ \E e \in Error : Throw(c, e) \/ StepThrows(c, e) \/ CheckThrows(c, e)
      PROVE  Went(c) \/ Starts(c)
  <2>1. CASE Authorize(c)
    <3> DEFINE g == [h EXCEPT !.pc = IF h.kind = "tab" THEN "lookup" ELSE "attach", !.bagged = h.kind = "workflow"]
    <3>1. handler' = [handler EXCEPT ![c] = g] /\ UNCHANGED tabs
      BY <1>t, <1>2, <2>1, TabTypes DEF Authorize
    <3>2. g.pc = (IF h.kind = "tab" THEN "lookup" ELSE "attach") /\ g.kind = h.kind /\ g.dead = h.dead /\ g.call = h.call
      BY <1>0 DEF Handler
    <3> HIDE DEF g
    <3>3. handler'[c] = g /\ Others(c)
      BY <3>1, TabTypes DEF Others
    <3>4. h.pc = "authorize"
      BY <2>1 DEF Authorize
    <3>5. /\ g.pc \in {"lookup", "attach"} /\ (g.pc = "attach" => h.kind # "tab") /\ (g.pc = "lookup" => h.kind = "tab")
      BY <3>2
    <3> HIDE DEF h
    <3>6. UNCHANGED <<session, calls>>
      BY <3>1 DEF tabs
    <3>7. Went(c)
      BY <3>2, <3>3, <3>4, <3>5, <3>6 DEF Went, Inside, h
    <3> QED BY <3>7
  <2>2. CASE LookUp(c)
    <3>1. Goto(c, "ready") /\ UNCHANGED tabs /\ h.kind = "tab"
      BY <1>t, <1>2, <2>2 DEF LookUp, Attaches
    <3> QED BY <3>1, GotoEffect
  <2>3. CASE Attach(c)
    <3>1. Starts(c)
      BY <1>t, <1>2, <2>3 DEF Attach, Starts, Goto
    <3> QED BY <3>1
  <2>4. CASE Bind(c) \/ BindWorkflow(c) \/ Prepare(c)
    <3>1. /\ Goto(c, "prepare") \/ Goto(c, "check") \/ Goto(c, "ready") \/ Goto(c, "observe")
          /\ UNCHANGED tabs /\ h.pc \in Inside
      BY <1>t, <1>2, <2>4 DEF Bind, BindWorkflow, Prepare, Inside
    <3> QED BY <3>1, GotoEffect
  <2>5. CASE Check(c)
    <3> DEFINE g == [h EXCEPT !.pc = "prepare", !.before = h.dispatched]
    <3>1. handler' = [handler EXCEPT ![c] = g] /\ UNCHANGED tabs /\ h.pc \in Inside
      BY <1>t, <1>2, <2>5, TabTypes DEF Check, Inside
    <3>2. g.pc = "prepare" /\ g.kind = h.kind /\ g.dead = h.dead /\ g.call = h.call
      BY <1>0 DEF Handler
    <3> HIDE DEF g
    <3>3. handler'[c] = g /\ Others(c)
      BY <3>1, TabTypes DEF Others
    <3> QED BY <3>1, <3>2, <3>3 DEF Went, tabs
  <2>6. CASE Dispatch(c)
    <3> DEFINE call == IF h.kind # "tab" /\ owner = 0 THEN "cut" ELSE "pending"
               g == [h EXCEPT !.pc = "input", !.dispatched = TRUE, !.call = call]
    <3>1. handler' = [handler EXCEPT ![c] = g] /\ UNCHANGED tabs /\ h.pc = "ready" /\ live(c)
      BY <1>t, <1>2, <2>6, TabTypes DEF Dispatch
    <3>2. g.pc = "input" /\ g.kind = h.kind /\ g.dead = h.dead /\ g.call = call
      BY <1>0 DEF Handler
    <3>3. (call = "pending" /\ h.kind # "tab" => owner # 0) /\ call # "landed"
      OBVIOUS
    <3> HIDE DEF g, call
    <3>4. handler'[c] = g /\ Others(c)
      BY <3>1, TabTypes DEF Others
    <3> QED BY <3>1, <3>2, <3>3, <3>4 DEF Went, tabs, Inside
  <2>7. CASE InputDone(c)
    <3>1. PICK p \in {"observe"} \cup IF h.kind = "tab" THEN {} ELSE {"prepare"} :
            handler' = [handler EXCEPT ![c].pc = p, ![c].call = "none"] /\ UNCHANGED tabs
      BY <1>t, <1>2, <2>7 DEF InputDone
    <3>2. h.pc \in Inside
      BY <2>7 DEF InputDone, Inside
    <3> DEFINE g == [h EXCEPT !.pc = p, !.call = "none"]
    <3>3. g.pc = p /\ g.kind = h.kind /\ g.dead = h.dead /\ g.call = "none"
      BY <1>0 DEF Handler
    <3>4. handler' = [handler EXCEPT ![c] = g]
      BY <3>1, TabTypes
    <3> HIDE DEF g
    <3>5. handler'[c] = g /\ Others(c)
      BY <3>4, TabTypes DEF Others
    <3> QED BY <3>1, <3>2, <3>3, <3>5 DEF Went, tabs
  <2>8. CASE StepDone(c)
    <3> DEFINE more == h.step < MaxStep
               p == IF more THEN "check" ELSE "capture"
               n == IF more THEN h.step + 1 ELSE h.step
               g == [h EXCEPT !.pc = p, !.step = n]
    <3>1. handler' = [handler EXCEPT ![c] = g] /\ UNCHANGED tabs /\ h.pc \in Inside
      BY <1>t, <1>2, <2>8, TabTypes DEF StepDone, Inside
    <3>2. p \in {"check", "capture"}
      OBVIOUS
    <3> HIDE DEF p, n
    <3>3. g.pc = p /\ g.kind = h.kind /\ g.dead = h.dead /\ g.call = h.call
      BY <1>0 DEF Handler
    <3> HIDE DEF g
    <3>4. handler'[c] = g /\ Others(c)
      BY <3>1, TabTypes DEF Others
    <3> QED BY <3>1, <3>2, <3>3, <3>4 DEF Went, tabs
  <2>9. ~(InputFails(c) \/ Observe(c) \/ Loaded(c) \/ Capture(c))
    BY <1>t, <1>2 DEF InputFails, Observe, Loaded, Capture
  <2> QED BY <2>1, <2>2, <2>3, <2>4, <2>5, <2>6, <2>7, <2>8, <2>9 DEF HandlerStep
<1> QED BY <1>1, <1>2, <1>a, <1>b

\* A debugger that closes leaves the handlers where they are.
LEMMA CutOffEffect ==
  ASSUME TypeOK, NEW c \in Cmd
  PROVE  /\ cutOff[c].pc = handler[c].pc /\ cutOff[c].kind = handler[c].kind /\ cutOff[c].dead = handler[c].dead
         /\ cutOff[c].call = "pending" => cutOff[c].kind = "tab"
         /\ handler[c] = NoHandler => cutOff[c] = NoHandler
         /\ \E call \in {"none", "pending", "landed", "cut"} : cutOff[c] = [handler[c] EXCEPT !.call = call]
<1> DEFINE call == IF handler[c].call # "none" /\ handler[c].kind # "tab" THEN "cut" ELSE handler[c].call
<1>1. handler[c] \in Handler
  BY OneHandler
<1>2. cutOff[c] = [handler[c] EXCEPT !.call = call]
  BY DEF cutOff
<1>3. call \in {"none", "pending", "landed", "cut"} /\ (call = "pending" => handler[c].kind = "tab")
  BY <1>1 DEF Handler
<1>4. handler[c] = NoHandler => call = "none" /\ [handler[c] EXCEPT !.call = "none"] = NoHandler
  <2>1. handler[c].call = "none" => [handler[c] EXCEPT !.call = "none"] = handler[c]
    BY <1>1 DEF Handler
  <2>2. NoHandler.call = "none"
    BY DEF NoHandler
  <2> QED BY <2>1, <2>2
<1> HIDE DEF call
<1>5. [handler[c] EXCEPT !.call = call].pc = handler[c].pc /\ [handler[c] EXCEPT !.call = call].kind = handler[c].kind
      /\ [handler[c] EXCEPT !.call = call].dead = handler[c].dead /\ [handler[c] EXCEPT !.call = call].call = call
  BY <1>1 DEF Handler
<1> QED BY <1>2, <1>3, <1>4, <1>5

\* What is left of a handler when its report is written.
LEMMA RemnantEffect ==
  ASSUME TypeOK, NEW c \in Cmd
  PROVE  LET r == remnant(handler[c])
         IN  /\ r.pc = handler[c].pc /\ r.dead = handler[c].dead /\ r.call = handler[c].call
             /\ (r.kind = "tab") = (handler[c].kind = "tab")
             /\ r.pc = "input" => r.step = handler[c].step
             /\ ~r.dispatched /\ ~r.bagged /\ r.report = NoReport /\ r.kind # "workflow"
PROOF BY DEF remnant, NoHandler

\* A turn that is not idle has a command.
LEMMA HasTurn ==
  ASSUME TypeOK, Bounds
  PROVE  turn.at # "idle" => turn.cmd \in Cmd
PROOF BY Constants DEF TypeOK, Bounds, Cmd

\* The command whose turn it is, and its session if there is one.
LEMMA Current ==
  ASSUME TypeOK, Bounds, Turns, Session
  PROVE  /\ turn.at # "idle" => turn.cmd \in Cmd
         /\ session # 0 => session = turn.cmd /\ turn.at = "running" /\ session \in Cmd /\ holds(session)
                           /\ handler[session].pc \in Inside /\ ~handler[session].dead
         /\ \A c \in Cmd : abandoned(c) => session # c
         /\ \A c \in Cmd : live(c) /\ handler[c].pc \notin Idle => c = turn.cmd /\ turn.at = "running" /\ ~handler[c].dead
<1>1. turn.at # "idle" => turn.cmd \in Cmd
  BY HasTurn
<1>2. ASSUME session # 0
      PROVE  session = turn.cmd /\ turn.at = "running" /\ session \in Cmd /\ holds(session)
             /\ handler[session].pc \in Inside /\ ~handler[session].dead
  BY <1>2 DEF Session, holds, Turns, Inside, Idle
<1>3. \A c \in Cmd : abandoned(c) => session # c
  <2> SUFFICES ASSUME NEW c \in Cmd, abandoned(c), session = c
               PROVE  FALSE
    OBVIOUS
  <2>1. c = turn.cmd /\ turn.at = "running" /\ c \in Nat
    BY <1>2, Constants
  <2> QED BY <2>1 DEF Turns, abandoned
<1>4. \A c \in Cmd : live(c) /\ handler[c].pc \notin Idle => c = turn.cmd /\ turn.at = "running" /\ ~handler[c].dead
  BY DEF Turns, live
<1> QED BY <1>1, <1>2, <1>3, <1>4
-----------------------------------------------------------------------------
(* Turns *)

\* With the session gone, runCommand has nothing to release.
LEMMA ReturnEffect ==
  ASSUME TypeOK, Bounds, Turns, Session, NEW r, Return(r)
  PROVE  /\ turn'.cmd = turn.cmd
         /\ session = 0 => turn'.at = "sending" /\ UNCHANGED <<session, calls>>
         /\ session # 0 => turn'.at = "releasing" /\ session' = 0 /\ Call("detach", Chain)
PROOF BY DEF Return, Release, TypeOK

\* What the chain does to the handlers when it goes on from running or confirming.
LEMMA ChainEffect ==
  ASSUME TypeOK, Bounds, Turns, Session, RaceSettles \/ Confirm \/ Timeout
  PROVE  /\ turn'.cmd = turn.cmd /\ turn.cmd \in Cmd /\ turn.at \in {"running", "confirming"}
         /\ Others(turn.cmd)
         /\ UNCHANGED <<control, bag, detached, chrome, history>>
         /\ \/ /\ handler' = handler /\ (turn.at = "running" => handler[turn.cmd].pc = "settled")
               /\ turn'.at \in {"confirming", "sending"}
               /\ UNCHANGED <<session, calls>> /\ session = 0
            \/ /\ handler'[turn.cmd] = [handler[turn.cmd] EXCEPT !.dead = TRUE]
               /\ \/ turn'.at \in {"confirming", "sending"} /\ UNCHANGED <<session, calls>> /\ session = 0
                  \/ turn'.at = "releasing" /\ session' = 0 /\ Call("detach", Chain) /\ session # 0
<1> DEFINE c == turn.cmd
<1>0. turn \in [cmd : 0 .. MaxCmd, at : {"idle", "taken", "running", "confirming", "releasing", "sending"}]
      /\ handler \in [Cmd -> Handler]
  BY DEF TypeOK
<1>1. ASSUME RaceSettles \/ Confirm
      PROVE  /\ session = 0 /\ c \in Cmd /\ turn.at \in {"running", "confirming"}
             /\ turn.at = "running" => handler[c].pc = "settled"
             /\ UNCHANGED <<handler, bag>>
             /\ turn'.cmd = turn.cmd /\ turn'.at \in {"confirming", "sending"} /\ UNCHANGED <<session, calls>>
             /\ UNCHANGED <<control, bag, detached, chrome, history>>
  <2>1. c \in Cmd /\ turn.at \in {"running", "confirming"} /\ (turn.at = "running" => handler[c].pc = "settled")
    BY <1>1, Current DEF RaceSettles, Confirm
  <2>2. session = 0
    BY <2>1, Current DEF Inside
  <2>3. UNCHANGED <<handler, bag>> /\ UNCHANGED <<control, bag, detached, chrome, history>>
    BY <1>1 DEF RaceSettles, Confirm, handlers
  <2>4. \/ turn' = [turn EXCEPT !.at = "confirming"] /\ UNCHANGED <<session, calls>>
        \/ \E r : Return(r)
    BY <1>1 DEF RaceSettles, Confirm
  <2>5. turn'.cmd = turn.cmd /\ turn'.at \in {"confirming", "sending"} /\ UNCHANGED <<session, calls>>
    BY <1>0, <2>2, <2>4, ReturnEffect
  <2> QED BY <2>1, <2>2, <2>3, <2>5
<1>2. CASE RaceSettles \/ Confirm
  BY <1>1, <1>2 DEF Others
<1>3. CASE Timeout
  <2>1. c \in Cmd /\ turn.at \in {"running", "confirming"}
    BY <1>3, Current DEF Timeout
  <2>2. handler' = [handler EXCEPT ![c] = [handler[c] EXCEPT !.dead = TRUE]]
        /\ UNCHANGED <<control, bag, detached, chrome, history>>
    BY <1>0, <1>3 DEF Timeout
  <2>3. handler'[c] = [handler[c] EXCEPT !.dead = TRUE] /\ Others(c)
    BY <1>0, <2>1, <2>2 DEF Others
  <2>4. CASE turn.at = "running"
    <3>1. Return(timedOut(c))
      BY <1>3, <2>4 DEF Timeout
    <3> QED BY <2>1, <2>2, <2>3, <3>1, ReturnEffect
  <2>5. CASE turn.at = "confirming"
    <3>1. session = 0 /\ UNCHANGED <<turn, session, calls>>
      BY <1>3, <2>5, Current DEF Timeout, chain
    <3> QED BY <2>1, <2>2, <2>3, <2>5, <3>1
  <2> QED BY <2>1, <2>4, <2>5
<1> QED BY <1>2, <1>3

\* What Send leaves of the handler.
LEMMA SendEffect ==
  ASSUME TypeOK, Bounds, Send
  PROVE  /\ turn.cmd \in Cmd /\ turn.at = "sending" /\ turn' = [turn EXCEPT !.at = "idle"]
         /\ Others(turn.cmd)
         /\ handler'[turn.cmd] = IF handler[turn.cmd].pc \in Idle THEN NoHandler ELSE remnant(handler[turn.cmd])
         /\ UNCHANGED <<control, tabs, chrome, hit, undercut, used>>
<1>1. turn.cmd \in Cmd /\ handler \in [Cmd -> Handler]
  BY HasTurn, TabTypes DEF Send
<1>2. handler' = [handler EXCEPT ![turn.cmd] = IF @.pc \in {"none", "settled"} THEN NoHandler ELSE remnant(@)]
      /\ turn.at = "sending" /\ turn' = [turn EXCEPT !.at = "idle"] /\ UNCHANGED <<control, tabs, chrome, hit, undercut, used>>
  BY DEF Send
<1> QED BY <1>1, <1>2 DEF Others, Idle

\* What the worker makes of Chrome's answer to attach.
LEMMA HearAttachEffect ==
  ASSUME TypeOK, Bounds, Turns, Session, Attaches, HearAttach
  PROVE  LET c == replies[1].by
         IN  /\ replies # <<>> /\ hears(1) /\ c \in Cmd /\ handler[c].pc = "attaching" /\ handler[c].kind # "tab"
             /\ replies' = Tail(replies) /\ UNCHANGED <<control, chain, owner, history>>
             /\ session # c
             /\ \/ /\ replies[1].op = "attach" /\ live(c) /\ session = 0 /\ session' = c /\ UNCHANGED calls
                   /\ handler' = [handler EXCEPT ![c] = [handler[c] EXCEPT !.pc = "bind"]]
                \/ /\ replies[1].op = "attach" /\ session = 0 /\ session' = 0 /\ Call("detach", c)
                   /\ \E e \in Error : handler' = [handler EXCEPT ![c] = [handler[c] EXCEPT !.pc = "dropping", !.err = e]]
                \/ /\ replies[1].op = "attach" => session # 0
                   /\ Over(c)
<1> DEFINE c == replies[1].by
           h == handler[c]
           error == IF ~live(c) THEN "cancelled" ELSE IF detached THEN "uncertain" ELSE "failed"
<1>1. replies # <<>> /\ replies' = Tail(replies) /\ UNCHANGED <<control, chain, owner, history>> /\ Head(replies) = replies[1]
      /\ replies[1].op \in {"attach", "refused"} /\ 1 \in DOMAIN replies
  BY TabTypes, Popped DEF HearAttach
<1>2. hears(1) /\ c \in Cmd /\ h.pc = "attaching" /\ h.kind # "tab"
  BY <1>1 DEF hears, Attaches
<1>3. h \in Handler /\ handler \in [Cmd -> Handler] /\ session # c
  BY <1>2, Current, OneHandler, TabTypes, Constants DEF Inside
<1>4. CASE replies[1].op = "refused"
  <2>1. Throw(c, "failed")
    BY <1>1, <1>4 DEF HearAttach
  <2>2. Over(c)
    BY <1>2, <2>1, ThrowEffect DEF Error
  <2> QED BY <1>1, <1>2, <1>3, <1>4, <2>2
<1>5. CASE replies[1].op = "attach"
  <2>1. Attached(c)
    BY <1>1, <1>5 DEF HearAttach
  <2>2. CASE live(c) /\ session = 0 /\ ~detached
    BY <1>1, <1>2, <1>3, <1>5, <2>1, <2>2 DEF Attached, Goto
  <2>3. CASE ~(live(c) /\ session = 0 /\ ~detached) /\ session = 0
    <3>1. error \in Error
      BY DEF Error
    <3>2. Call("detach", c) /\ UNCHANGED session
          /\ handler' = [handler EXCEPT ![c] = [handler[c] EXCEPT !.pc = "dropping", !.err = error]]
      BY <1>3, <2>1, <2>3 DEF Attached
    <3> HIDE DEF error
    <3> QED BY <1>1, <1>2, <1>3, <1>5, <2>3, <3>1, <3>2
  <2>4. CASE session # 0
    <3>1. Unwind(c, [h EXCEPT !.err = error])
      BY <2>1, <2>4 DEF Attached
    <3>2. error \in Error
      BY DEF Error
    <3> HIDE DEF error
    <3>3. [h EXCEPT !.err = error] \in Handler
      BY <1>3, <3>2, Edited
    <3>4. [h EXCEPT !.err = error].kind = h.kind /\ [h EXCEPT !.err = error].dead = h.dead
      BY <1>3 DEF Handler
    <3>5. Over(c)
      BY <1>2, <3>1, <3>3, <3>4, UnwindEffect
    <3> QED BY <1>1, <1>2, <1>3, <1>5, <2>4, <3>5
  <2> QED BY <2>2, <2>3, <2>4
<1> QED BY <1>1, <1>4, <1>5

\* What the end of a detach means to who asked for it.
LEMMA HearDetachEffect ==
  ASSUME TypeOK, Bounds, Turns, Detaches, HearDetach
  PROVE  LET b == replies[1].by
         IN  /\ replies # <<>> /\ dropped(1) /\ replies' = Tail(replies)
             /\ UNCHANGED <<control, outcome, bag, session, calls, owner, history>>
             /\ \/ b = NoOne /\ UNCHANGED <<turn, handler>>
                \/ b = Chain /\ turn.at = "releasing" /\ turn' = [turn EXCEPT !.at = "sending"] /\ UNCHANGED handler
                \/ /\ b \in Cmd /\ handler[b].pc \in {"leaving", "dropping"} /\ UNCHANGED turn /\ Others(b)
                   /\ \/ /\ handler'[b].pc = "settled" /\ handler'[b].call = "none"
                         /\ handler'[b].kind = handler[b].kind /\ handler'[b].dead = handler[b].dead
                      \/ abandoned(b) /\ handler'[b] = NoHandler
<1> DEFINE b == replies[1].by
           e == IF handler[b].pc = "dropping" /\ ~live(b) THEN "cancelled" ELSE handler[b].err
<1>1. replies # <<>> /\ replies' = Tail(replies) /\ UNCHANGED <<control, outcome, bag, session, calls, owner, history>>
      /\ Head(replies) = replies[1] /\ dropped(1) /\ 1 \in DOMAIN replies
  BY TabTypes, Popped DEF HearDetach, dropped
<1>2. b = NoOne \/ waits(b)
  BY <1>1 DEF Detaches
<1>3. NoOne # Chain /\ NoOne \notin Cmd /\ Chain \notin Cmd
  BY Constants DEF NoOne, Chain
<1>4. CASE b = NoOne
  BY <1>1, <1>3, <1>4 DEF HearDetach
<1>5. CASE b = Chain
  BY <1>1, <1>2, <1>3, <1>5 DEF HearDetach, waits
<1>6. CASE b \notin {NoOne, Chain}
  <2>1. b \in Cmd /\ handler[b].pc \in {"leaving", "dropping"}
    BY <1>2, <1>6 DEF waits
  <2>2. UNCHANGED turn /\ handler' = [handler EXCEPT ![b] = settled(b, [handler[b] EXCEPT !.err = e])]
    BY <1>1, <1>6, <2>1, TabTypes DEF HearDetach
  <2>3. e \in Error /\ handler[b] \in Handler
    BY <2>1, OneHandler DEF Handler, Error
  <2> HIDE DEF e
  <2>4. [handler[b] EXCEPT !.err = e].kind = handler[b].kind /\ [handler[b] EXCEPT !.err = e].dead = handler[b].dead
        /\ [handler[b] EXCEPT !.err = e] \in Handler
    BY <2>3 DEF Handler
  <2> DEFINE r == [handler[b] EXCEPT !.err = e]
  <2>5. handler'[b] = settled(b, r) /\ Others(b)
    BY <2>1, <2>2, TabTypes DEF Others
  <2> HIDE DEF r
  <2>6. r \in Handler /\ r.kind = handler[b].kind /\ r.dead = handler[b].dead
    BY <2>4 DEF r
  <2>7. \/ /\ handler'[b].pc = "settled" /\ handler'[b].call = "none"
           /\ handler'[b].kind = handler[b].kind /\ handler'[b].dead = handler[b].dead
        \/ abandoned(b) /\ handler'[b] = NoHandler
    BY <2>5, <2>6 DEF settled, Handler
  <2> QED BY <1>1, <2>1, <2>2, <2>5, <2>7
<1> QED BY <1>1, <1>4, <1>5, <1>6

\* NoHandler, seen from outside.
LEMMA Absent == NoHandler.pc = "none" /\ NoHandler.call = "none" /\ ~NoHandler.dead /\ NoHandler.kind = "plain"
                /\ ~NoHandler.dispatched /\ ~NoHandler.bagged /\ NoHandler.report = NoReport
PROOF BY DEF NoHandler

\* The turn, as the handlers see it.
LEMMA TurnFacts ==
  ASSUME TypeOK, Turns, NEW c \in Cmd
  PROVE  /\ turn.cmd \in Nat /\ c \in Nat
         /\ handler[c].pc # "none" => c <= turn.cmd
         /\ handler[c].pc \notin Idle => handler[c].dead \/ (c = turn.cmd /\ turn.at = "running")
         /\ abandoned(c) <=> c < turn.cmd \/ (c = turn.cmd /\ turn.at = "idle")
         /\ turn = [cmd |-> turn.cmd, at |-> turn.at]
<1>1. turn.cmd \in Nat /\ c \in Nat /\ turn = [cmd |-> turn.cmd, at |-> turn.at]
  BY Constants DEF TypeOK
<1>2. handler[c].pc # "none" => c <= turn.cmd
  <2>1. c > turn.cmd => handler[c].pc = "none"
    BY Absent DEF Turns
  <2> QED BY <1>1, <2>1
<1>3. handler[c].pc \notin Idle => handler[c].dead \/ (c = turn.cmd /\ turn.at = "running")
  BY DEF Turns
<1>4. abandoned(c) <=> c < turn.cmd \/ (c = turn.cmd /\ turn.at = "idle")
  BY DEF Turns, abandoned
<1> QED BY <1>1, <1>2, <1>3, <1>4

\* A step of one handler, and no other, in the turn it has.
LEMMA TurnsSame ==
  ASSUME TypeOK, TypeOK', Bounds, Turns, NEW c \in Cmd, UNCHANGED <<turn, sent>>, Others(c), handler[c].pc # "none",
         \A d \in Cmd \ {c} : hit'[d] = hit[d],
         handler'[c].pc \notin Idle => handler[c].pc \notin Idle /\ (handler[c].dead => handler'[c].dead),
         handler'[c].pc = "none" => abandoned(c)
  PROVE  Turns'
<1>1. c <= turn.cmd /\ turn.cmd \in Nat /\ c \in Nat
  BY TurnFacts
<1>0. turn.at # "idle" => turn.cmd \in Cmd
  BY HasTurn
<1>2. \A d \in Cmd : d > turn'.cmd => handler'[d] = NoHandler /\ hit'[d] = {}
  BY <1>1, Constants DEF Turns, Others
<1>3. \A d \in Cmd : handler'[d].pc \notin Idle /\ ~handler'[d].dead => turn' = [cmd |-> d, at |-> "running"]
  <2> SUFFICES ASSUME NEW d \in Cmd, handler'[d].pc \notin Idle, ~handler'[d].dead
               PROVE  turn = [cmd |-> d, at |-> "running"]
    OBVIOUS
  <2>1. handler[d].pc \notin Idle /\ ~handler[d].dead
    BY DEF Others
  <2> QED BY <2>1 DEF Turns
<1>4. turn'.at = "taken" => handler'[turn'.cmd].pc = "none"
  <2> SUFFICES ASSUME turn.at = "taken"
               PROVE  handler'[turn.cmd].pc = "none"
    OBVIOUS
  <2>1. handler[turn.cmd].pc = "none" /\ turn.cmd \in Cmd
    BY <1>0 DEF Turns
  <2>2. turn.cmd # c
    BY <2>1
  <2> QED BY <2>1, <2>2 DEF Others
<1>5. turn'.at \in {"running", "confirming"} => handler'[turn'.cmd].pc # "none"
  <2> SUFFICES ASSUME turn.at \in {"running", "confirming"}
               PROVE  handler'[turn.cmd].pc # "none"
    OBVIOUS
  <2>1. CASE turn.cmd = c
    BY <2>1, TurnFacts
  <2>2. CASE turn.cmd # c
    <3>1. handler[turn.cmd].pc # "none" /\ turn.cmd \in Cmd
      BY <1>0 DEF Turns
    <3> QED BY <2>2, <3>1 DEF Others
  <2> QED BY <2>1, <2>2
<1>6. \A d \in Cmd : sent'[d].at = "sent" <=> d < turn'.cmd \/ (d = turn'.cmd /\ turn'.at = "idle")
  BY DEF Turns
<1> QED BY <1>2, <1>3, <1>4, <1>5, <1>6 DEF Turns

\* Every step keeps the turns.
LEMMA TurnsKept ==
  ASSUME TypeOK, TypeOK', Bounds, TabInv, Next
  PROVE  Turns'
<1> USE DEF TabInv
<1>t. /\ handler \in [Cmd -> Handler] /\ handler' \in [Cmd -> Handler] /\ turn.cmd \in 0 .. MaxCmd
      /\ Cmd \subseteq Nat /\ MaxCmd \in Nat
      /\ turn \in [cmd : 0 .. MaxCmd, at : {"idle", "taken", "running", "confirming", "releasing", "sending"}]
      /\ sent \in [Cmd -> [at : {"unsent", "sent"}, dispatched : BOOLEAN, unstarted : SUBSET Step]]
  BY TabTypes, Constants DEF TypeOK
<1>1. ASSUME NEW kind \in {"tab", "plain", "workflow"}, Take(kind)
      PROVE  Turns'
  <2> DEFINE n == turn.cmd + 1
  <2>1. n \in Cmd /\ turn.at = "idle" /\ turn' = [cmd |-> n, at |-> "taken"] /\ UNCHANGED <<sent, hit>>
    BY <1>1, <1>t, Constants DEF Take, Cmd, history
  <2>2. handler' = [handler EXCEPT ![n] = [handler[n] EXCEPT !.kind = kind, !.policy = policy, !.epoch = epoch]]
    BY <1>1 DEF Take
  <2>3. handler[n] = NoHandler
    BY <1>t, <2>1 DEF Turns
  <2>4. handler'[n].pc = "none" /\ Others(n)
    BY <1>t, <2>1, <2>2, <2>3 DEF Others, NoHandler
  <2> HIDE DEF n
  <2>5. \A c \in Cmd : c > n => handler'[c] = NoHandler /\ hit'[c] = {}
    BY <1>t, <2>1, <2>4 DEF Turns, Others, n
  <2>6. \A c \in Cmd : sent'[c].at = "sent" <=> c < n \/ (c = n /\ turn'.at = "idle")
    BY <1>t, <2>1 DEF Turns, n
  <2>7. \A c \in Cmd : handler'[c].pc \notin Idle => handler'[c].dead
    BY <1>t, <2>1, <2>4 DEF Turns, Others, Idle
  <2> QED BY <1>t, <2>1, <2>4, <2>5, <2>6, <2>7 DEF Turns
<1>2. CASE RunCommand
  <2> DEFINE c == turn.cmd
  <2>1. c \in Cmd /\ turn.at = "taken" /\ UNCHANGED <<sent, hit>> /\ handler[c].pc = "none"
    BY <1>2, Current DEF RunCommand, history, Turns
  <2>2. \/ /\ turn' = [cmd |-> c, at |-> "running"]
           /\ handler' = [handler EXCEPT ![c] = [handler[c] EXCEPT !.pc = "authorize"]]
        \/ turn' = [cmd |-> c, at |-> "sending"] /\ UNCHANGED handler
    BY <1>2, <1>t DEF RunCommand
  <2>3. \/ turn' = [cmd |-> c, at |-> "running"] /\ handler'[c].pc = "authorize"
        \/ turn' = [cmd |-> c, at |-> "sending"] /\ handler'[c].pc = "none"
    BY <1>t, <2>1, <2>2 DEF Handler
  <2>4. Others(c)
    BY <1>t, <2>1, <2>2 DEF Others
  <2>5. \A d \in Cmd : d # c /\ handler'[d].pc \notin Idle => handler'[d].dead
    <3> SUFFICES ASSUME NEW d \in Cmd, d # c, handler'[d].pc \notin Idle
                 PROVE  handler'[d].dead
      OBVIOUS
    <3>1. handler'[d] = handler[d]
      BY <2>4 DEF Others
    <3> QED BY <2>1, <3>1, TurnFacts
  <2>6. turn'.cmd = turn.cmd /\ turn'.at \in {"running", "sending"}
    BY <2>3
  <2>7. \A d \in Cmd : d > turn'.cmd => handler'[d] = NoHandler /\ hit'[d] = {}
    BY <1>t, <2>1, <2>4, <2>6 DEF Turns, Others
  <2>8. \A d \in Cmd : sent'[d].at = "sent" <=> d < turn'.cmd \/ (d = turn'.cmd /\ turn'.at = "idle")
    BY <1>t, <2>1, <2>6 DEF Turns
  <2>9. \A d \in Cmd : handler'[d].pc \notin Idle /\ ~handler'[d].dead => turn' = [cmd |-> d, at |-> "running"]
    BY <2>3, <2>5 DEF Idle
  <2> QED BY <2>3, <2>6, <2>7, <2>8, <2>9 DEF Turns
<1>3. CASE RaceSettles \/ Confirm \/ Timeout
  <2> DEFINE c == turn.cmd
  <2>1. turn'.cmd = c /\ c \in Cmd /\ turn.at \in {"running", "confirming"} /\ Others(c) /\ UNCHANGED <<sent, hit>>
        /\ turn'.at \in {"confirming", "sending", "releasing"}
    BY <1>3, ChainEffect DEF history
  <2>2. handler'[c].pc = handler[c].pc /\ (handler'[c].dead \/ handler' = handler)
    BY <1>3, <1>t, <2>1, ChainEffect DEF Handler
  <2>3. \A d \in Cmd : handler'[d].pc \notin Idle => handler'[d].dead
    <3>1. CASE handler'[c].dead
      BY <1>t, <2>1, <2>2, <3>1 DEF Turns, Others, Idle
    <3>2. CASE handler' = handler /\ ~handler'[c].dead
      <4>1. turn.at = "running" => handler[c].pc = "settled"
        BY <1>3, <1>t, <2>1, <3>2, ChainEffect DEF Handler
      <4> QED BY <1>t, <2>1, <3>2, <4>1 DEF Turns, Idle
    <3> QED BY <2>2, <3>1, <3>2
  <2> QED BY <1>t, <2>1, <2>2, <2>3 DEF Turns, Others
<1>7. CASE Send
  <2> DEFINE c == turn.cmd
  <2>1. /\ c \in Cmd /\ turn.at = "sending" /\ turn' = [turn EXCEPT !.at = "idle"] /\ Others(c) /\ UNCHANGED hit
        /\ handler'[c] = IF handler[c].pc \in Idle THEN NoHandler ELSE remnant(handler[c])
    BY <1>7, SendEffect
  <2>2. handler'[c].pc \in Idle \/ handler'[c].dead
    BY <1>t, <2>1, Absent, RemnantEffect DEF Turns, Idle
  <2>3. sent'[c].at = "sent" /\ \A d \in Cmd \ {c} : sent'[d] = sent[d]
    BY <1>7, <1>t, <2>1 DEF Send
  <2>4. \A d \in Cmd : handler'[d].pc \notin Idle => handler'[d].dead
    BY <1>t, <2>1, <2>2 DEF Turns, Others
  <2> QED BY <1>t, <2>1, <2>3, <2>4 DEF Turns, Others
<1>8. ASSUME NEW c \in Cmd, HandlerStep(c)
      PROVE  Turns'
  <2>1. UNCHANGED <<turn, sent, hit>> /\ handler[c].pc \in Working
    BY <1>8, HandlerEffect DEF chain, history
  <2>2. Over(c) \/ Went(c) \/ Starts(c)
    BY <1>8, HandlerEffect
  <2>3. Others(c)
    BY <1>t, <2>2 DEF Over, Went, Starts, Others
  <2>4. handler[c].pc \notin Idle
    BY <2>1 DEF Working, Idle
  <2>5. /\ handler'[c].pc \notin Idle => handler'[c].dead = handler[c].dead
        /\ handler'[c].pc = "none" => abandoned(c)
    <3>1. CASE Over(c)
      BY <3>1, Absent DEF Over, Idle
    <3>2. CASE Went(c)
      BY <3>2 DEF Went
    <3>3. CASE Starts(c)
      BY <1>t, <3>3 DEF Starts, Handler
    <3> QED BY <2>2, <3>1, <3>2, <3>3
  <2> QED BY <2>1, <2>3, <2>4, <2>5, TurnsSame DEF Idle
<1>9. ASSUME NEW c \in Cmd, Lands(c)
      PROVE  Turns'
  <2>1. /\ handler' = [handler EXCEPT ![c] = [handler[c] EXCEPT !.call = "landed"]] /\ UNCHANGED <<turn, sent>>
        /\ hit' = [hit EXCEPT ![c] = hit[c] \cup {handler[c].step}] /\ handler[c].pc = "input"
    BY <1>9, <1>t DEF Lands, chain
  <2>2. Others(c) /\ handler'[c].pc = handler[c].pc /\ handler'[c].dead = handler[c].dead
    BY <1>t, <2>1 DEF Others, Handler
  <2>3. \A d \in Cmd \ {c} : hit'[d] = hit[d]
    BY <2>1 DEF TypeOK
  <2> QED BY <2>1, <2>2, <2>3, TurnsSame
<1>11. CASE ServeDetach \/ Dismiss
  <2>1. handler' = cutOff /\ UNCHANGED <<turn, sent, hit>>
    BY <1>11 DEF ServeDetach, Dismiss, chain
  <2>2. \A c \in Cmd : handler'[c].pc = handler[c].pc /\ handler'[c].dead = handler[c].dead
                       /\ (handler[c] = NoHandler => handler'[c] = NoHandler)
    BY <2>1, CutOffEffect
  <2>3. turn.at # "idle" => turn.cmd \in Cmd
    BY Current
  <2>4. turn.at = "taken" => handler'[turn.cmd].pc = "none"
    BY <2>2, <2>3 DEF Turns
  <2>5. turn.at \in {"running", "confirming"} => handler'[turn.cmd].pc # "none"
    BY <2>2, <2>3 DEF Turns
  <2>6. \A c \in Cmd : c > turn.cmd => handler'[c] = NoHandler /\ hit'[c] = {}
    BY <2>1, <2>2 DEF Turns
  <2>7. \A c \in Cmd : handler'[c].pc \notin Idle /\ ~handler'[c].dead => turn = [cmd |-> c, at |-> "running"]
    BY <2>2 DEF Turns
  <2>8. \A c \in Cmd : sent'[c].at = "sent" <=> c < turn.cmd \/ (c = turn.cmd /\ turn.at = "idle")
    BY <2>1 DEF Turns
  <2> QED BY <2>1, <2>4, <2>5, <2>6, <2>7, <2>8 DEF Turns
<1>13. CASE HearAttach
  <2> DEFINE c == replies[1].by
  <2>1. /\ c \in Cmd /\ handler[c].pc = "attaching" /\ UNCHANGED <<turn, sent, hit>>
        /\ \/ handler' = [handler EXCEPT ![c] = [handler[c] EXCEPT !.pc = "bind"]]
           \/ \E e \in Error : handler' = [handler EXCEPT ![c] = [handler[c] EXCEPT !.pc = "dropping", !.err = e]]
           \/ Over(c)
    BY <1>13, HearAttachEffect DEF chain, history
  <2> HIDE DEF c
  <2>2. Others(c) /\ (handler'[c].dead = handler[c].dead \/ (abandoned(c) /\ handler'[c] = NoHandler))
        /\ (handler'[c].pc = "none" => abandoned(c))
    <3>1. CASE handler' = [handler EXCEPT ![c] = [handler[c] EXCEPT !.pc = "bind"]]
      BY <1>t, <2>1, <3>1 DEF Others, Handler
    <3>2. ASSUME NEW e \in Error, handler' = [handler EXCEPT ![c] = [handler[c] EXCEPT !.pc = "dropping", !.err = e]]
          PROVE  Others(c) /\ handler'[c].dead = handler[c].dead /\ handler'[c].pc = "dropping"
      <4>1. c \in Cmd /\ handler[c] \in Handler
        BY <2>1, OneHandler
      <4>2. [handler[c] EXCEPT !.pc = "dropping", !.err = e].pc = "dropping"
            /\ [handler[c] EXCEPT !.pc = "dropping", !.err = e].dead = handler[c].dead
        BY <4>1 DEF Handler
      <4> QED BY <1>t, <3>2, <4>1, <4>2 DEF Others
    <3>3. CASE Over(c)
      BY <3>3 DEF Over, Idle
    <3> QED BY <2>1, <3>1, <3>2, <3>3
  <2> QED BY <2>1, <2>2, TurnsSame, Absent DEF Idle
<1>14. CASE HearDetach
  <2> DEFINE b == replies[1].by
  <2>1. UNCHANGED <<sent, hit>>
    BY <1>14 DEF HearDetach, history
  <2>2. CASE UNCHANGED handler
    <3>1. turn' = turn \/ (turn.at = "releasing" /\ turn' = [turn EXCEPT !.at = "sending"])
      BY <1>14, <2>2, HearDetachEffect
    <3> QED BY <1>t, <2>1, <2>2, <3>1 DEF Turns
  <2>3. CASE ~UNCHANGED handler
    <3>1. /\ b \in Cmd /\ handler[b].pc \in {"leaving", "dropping"} /\ UNCHANGED turn /\ Others(b)
          /\ handler'[b].pc = "settled" \/ (abandoned(b) /\ handler'[b] = NoHandler)
      BY <1>14, <2>3, HearDetachEffect
    <3> HIDE DEF b
    <3> QED BY <2>1, <3>1, TurnsSame, Absent DEF Idle
  <2> QED BY <2>2, <2>3
<1>15. CASE UNCHANGED <<turn, handler, sent, hit>>
  BY <1>15 DEF Turns
<1> QED
  <2>1. CASE ServeAttach \/ HearGone \/ HearChange \/ \E what \in {"pause", "resume", "settings"} : Change(what)
    BY <1>15, <2>1 DEF ServeAttach, HearGone, HearChange, Change, chain, handlers, history
  <2> QED BY <1>1, <1>2, <1>3, <1>7, <1>8, <1>9, <1>11, <1>13, <1>14, <2>1 DEF Next, ChainStep, ChromeStep
-----------------------------------------------------------------------------
(* The queues between the worker and Chrome *)

\* The session is given up, by its handler, by runCommand or by a listener.
GivesUp(b) ==
  /\ Call("detach", b) /\ UNCHANGED replies
  /\ session # 0 /\ session' = 0
  /\ b \in {Chain, NoOne, session}
  /\ b = Chain => turn.at = "running" /\ turn'.at = "releasing"
  /\ b # Chain => UNCHANGED turn
  /\ b = session => handler'[b].pc = "leaving"

\* What a step does to the session and to the calls to Chrome.
LEMMA QueueEffect ==
  ASSUME TypeOK, Bounds, TabInv, Next
  PROVE  \/ UNCHANGED <<calls, replies, session, owner, undercut>>
            /\ (turn'.at = "releasing" => turn.at = "releasing") /\ (turn.at = "releasing" => turn'.at = "releasing")
         \/ (\E b \in 0 .. NoOne : GivesUp(b)) /\ UNCHANGED <<owner, undercut>>
         \/ (\E c \in Cmd : Starts(c)) /\ UNCHANGED <<turn, replies, owner, undercut>>
         \/ ServeAttach \/ ServeDetach \/ Dismiss \/ HearAttach \/ HearDetach \/ HearGone
<1> USE DEF TabInv
<1>1. ASSUME NEW kind \in {"tab", "plain", "workflow"}, Take(kind)
      PROVE  UNCHANGED <<calls, replies, session, owner, undercut>> /\ turn'.at # "releasing" /\ turn.at # "releasing"
  BY <1>1 DEF Take, tabs, chrome, history
<1>2. CASE RunCommand
  <2>1. turn' \in {[turn EXCEPT !.at = "running"], [turn EXCEPT !.at = "sending"]} /\ turn.at = "taken"
    BY <1>2 DEF RunCommand
  <2>2. turn'.at # "releasing"
    BY <2>1 DEF TypeOK
  <2> QED BY <1>2, <2>1, <2>2 DEF RunCommand, tabs, chrome, history
<1>3. CASE RaceSettles \/ Confirm \/ Timeout
  <2>1. UNCHANGED <<replies, owner, undercut>> /\ turn.at \in {"running", "confirming"}
    BY <1>3, ChainEffect DEF chrome, history
  <2>2. CASE UNCHANGED <<session, calls>> /\ turn'.at \in {"confirming", "sending"}
    BY <2>1, <2>2
  <2>3. CASE turn'.at = "releasing" /\ session' = 0 /\ Call("detach", Chain) /\ session # 0
    <3>1. turn.at = "running" /\ Chain # NoOne /\ session # Chain
      BY <2>3, Current, Constants DEF Chain, NoOne
    <3> QED BY <2>1, <2>3, <3>1, Constants DEF GivesUp
  <2> QED BY <1>3, <2>2, <2>3, ChainEffect
<1>4. CASE Send
  <2>1. turn' = [turn EXCEPT !.at = "idle"] /\ turn.at = "sending" /\ UNCHANGED <<tabs, chrome, undercut>>
    BY <1>4, SendEffect
  <2> QED BY <2>1 DEF tabs, chrome, TypeOK
<1>5. ASSUME NEW c \in Cmd, HandlerStep(c)
      PROVE  \/ UNCHANGED <<calls, replies, session, owner, undercut, turn>>
             \/ GivesUp(c) /\ UNCHANGED <<owner, undercut>>
             \/ Starts(c) /\ UNCHANGED <<turn, replies, owner, undercut>>
  <2>1. UNCHANGED <<turn, replies, owner, undercut>> /\ (Over(c) \/ Went(c) \/ Starts(c))
    BY <1>5, HandlerEffect DEF chain, chrome, history
  <2>2. CASE Over(c) /\ session = c
    BY <2>1, <2>2, Constants DEF Over, GivesUp
  <2> QED BY <2>1, <2>2 DEF Over, Went
<1>6. ASSUME NEW c \in Cmd, Lands(c)
      PROVE  UNCHANGED <<calls, replies, session, owner, undercut, turn>>
  BY <1>6 DEF Lands, tabs, chrome, chain
<1>7. ASSUME NEW what \in {"pause", "resume", "settings"}, Change(what)
      PROVE  UNCHANGED <<calls, replies, session, owner, undercut, turn>>
  BY <1>7 DEF Change, tabs, chrome, chain
<1>8. CASE HearChange
  <2>1. UNCHANGED <<turn, replies, owner, undercut>>
    BY <1>8 DEF HearChange, chain, chrome, history
  <2>2. UNCHANGED <<session, calls>> \/ (session # 0 /\ session' = 0 /\ Call("detach", NoOne))
    BY <1>8 DEF HearChange, Release
  <2>3. NoOne # Chain /\ (session # 0 => session # NoOne)
    BY Current, Constants DEF NoOne, Chain
  <2> QED BY <2>1, <2>2, <2>3, Constants DEF GivesUp
<1> QED BY <1>1, <1>2, <1>3, <1>4, <1>5, <1>6, <1>7, <1>8, Constants DEF Next, ChainStep, ChromeStep

\* Who waits for Chrome goes on waiting until the answer, and no tab command asks it.
LEMMA PcEffect ==
  ASSUME TypeOK, Bounds, TabInv, Next, NEW c \in Cmd
  PROVE  /\ \/ handler[c].pc \in {"attaching", "leaving", "dropping"} => handler'[c].pc = handler[c].pc
            \/ HearAttach /\ c = replies[1].by
            \/ HearDetach /\ c = replies[1].by
         /\ handler'[c].pc \in {"attach", "attaching"} => handler'[c].kind # "tab"
         /\ handler'[c].pc = "lookup" => handler'[c].kind = "tab"
<1> USE DEF TabInv
<1> DEFINE Goal == /\ handler[c].pc \in {"attaching", "leaving", "dropping"} => handler'[c].pc = handler[c].pc
                   /\ handler'[c].pc \in {"attach", "attaching"} => handler'[c].kind # "tab"
                   /\ handler'[c].pc = "lookup" => handler'[c].kind = "tab"
<1>t. handler \in [Cmd -> Handler] /\ handler[c] \in Handler
  BY TabTypes
<1>0. CASE handler'[c] = handler[c]
  BY <1>0 DEF Attaches
<1>1. ASSUME NEW kind \in {"tab", "plain", "workflow"}, Take(kind)
      PROVE  Goal
  <2> DEFINE n == turn.cmd + 1
  <2>1. handler' = [handler EXCEPT ![n] = [handler[n] EXCEPT !.kind = kind, !.policy = policy, !.epoch = epoch]]
    BY <1>1 DEF Take
  <2>a. n \in Cmd /\ n > turn.cmd
    <3>1. turn.cmd \in 0 .. MaxCmd /\ turn.cmd < MaxCmd
      BY <1>1 DEF Take, TypeOK
    <3> QED BY <3>1, Constants DEF Cmd
  <2> HIDE DEF n
  <2>2. CASE c = n
    <3>1. handler[n] = NoHandler
      BY <2>a DEF Turns
    <3>2. handler'[n].pc = "none" /\ handler[n].pc = "none"
      BY <1>t, <2>a, <2>1, <3>1 DEF NoHandler
    <3> QED BY <2>2, <3>2
  <2>3. CASE c # n
    BY <1>t, <1>0, <2>1, <2>3
  <2> QED BY <2>2, <2>3
<1>2. CASE RunCommand
  <2>1. turn.cmd \in Cmd /\ handler[turn.cmd].pc = "none"
    BY <1>2, Current DEF RunCommand, Turns
  <2>2. handler' = handler \/ handler' = [handler EXCEPT ![turn.cmd] = [handler[turn.cmd] EXCEPT !.pc = "authorize"]]
    BY <1>2, <1>t DEF RunCommand
  <2>3. handler' = handler \/ (c # turn.cmd /\ handler'[c] = handler[c]) \/ (c = turn.cmd /\ handler'[c].pc = "authorize")
    BY <1>t, <2>1, <2>2 DEF Handler
  <2> QED BY <1>0, <2>1, <2>3
<1>3. CASE RaceSettles \/ Confirm \/ Timeout
  <2>1. Others(turn.cmd) /\ (handler' = handler \/ handler'[turn.cmd] = [handler[turn.cmd] EXCEPT !.dead = TRUE])
    BY <1>3, ChainEffect
  <2>2. CASE c = turn.cmd /\ handler' # handler
    <3>1. handler'[c].pc = handler[c].pc /\ handler'[c].kind = handler[c].kind
      BY <1>t, <2>1, <2>2 DEF Handler
    <3> QED BY <3>1 DEF Attaches
  <2> QED BY <1>0, <2>1, <2>2 DEF Others
<1>4. CASE Send
  <2>1. /\ Others(turn.cmd) /\ turn.cmd \in Cmd
        /\ handler'[turn.cmd] = IF handler[turn.cmd].pc \in Idle THEN NoHandler ELSE remnant(handler[turn.cmd])
    BY <1>4, SendEffect
  <2>2. CASE c = turn.cmd /\ handler[c].pc \in Idle
    BY <2>1, <2>2, Absent DEF Idle
  <2>3. CASE c = turn.cmd /\ handler[c].pc \notin Idle
    <3>1. handler'[c].pc = handler[c].pc /\ (handler'[c].kind = "tab") = (handler[c].kind = "tab")
      BY <2>1, <2>3, RemnantEffect
    <3> QED BY <3>1 DEF Attaches
  <2> QED BY <1>0, <2>1, <2>2, <2>3 DEF Others
<1>5. ASSUME NEW d \in Cmd, HandlerStep(d)
      PROVE  Goal
  <2>1. handler[d].pc \in Working /\ (Over(d) \/ Went(d) \/ Starts(d))
    BY <1>5, HandlerEffect
  <2>2. CASE c # d
    <3>1. handler'[c] = handler[c]
      BY <1>t, <2>1, <2>2 DEF Over, Went, Starts, Others
    <3> QED BY <3>1 DEF Attaches
  <2>3. CASE c = d /\ Over(c)
    BY <2>1, <2>3, Absent DEF Over, Working
  <2>4. CASE c = d /\ Went(c)
    BY <2>1, <2>4 DEF Went, Working
  <2>5. CASE c = d /\ Starts(c)
    <3>1. handler'[c].pc = "attaching" /\ handler'[c].kind = handler[c].kind /\ handler[c].pc = "attach"
      BY <1>t, <2>5 DEF Starts, Handler
    <3> QED BY <3>1 DEF Attaches
  <2> QED BY <2>1, <2>2, <2>3, <2>4, <2>5
<1>6. ASSUME NEW d \in Cmd, Lands(d)
      PROVE  Goal
  <2>1. handler' = [handler EXCEPT ![d] = [handler[d] EXCEPT !.call = "landed"]]
    BY <1>6, <1>t DEF Lands
  <2>2. handler'[c].pc = handler[c].pc /\ handler'[c].kind = handler[c].kind
    BY <1>t, <2>1 DEF Handler
  <2> QED BY <2>2 DEF Attaches
<1>7. CASE ServeDetach \/ Dismiss
  <2>1. handler'[c].pc = handler[c].pc /\ handler'[c].kind = handler[c].kind
    BY <1>7, CutOffEffect DEF ServeDetach, Dismiss
  <2> QED BY <2>1 DEF Attaches
<1>8. CASE HearAttach
  <2> DEFINE b == replies[1].by
  <2>1. /\ b \in Cmd /\ handler[b].pc = "attaching" /\ handler[b].kind # "tab"
        /\ \/ handler' = [handler EXCEPT ![b] = [handler[b] EXCEPT !.pc = "bind"]]
           \/ \E e \in Error : handler' = [handler EXCEPT ![b] = [handler[b] EXCEPT !.pc = "dropping", !.err = e]]
           \/ Over(b)
    BY <1>8, HearAttachEffect
  <2> HIDE DEF b
  <2>2. CASE c # b
    <3>1. handler'[c] = handler[c]
      BY <1>t, <2>1, <2>2 DEF Over, Others
    <3> QED BY <1>0, <3>1
  <2>3. CASE c = b
    <3>1. handler'[c].pc \notin {"attach", "attaching", "lookup"}
      <4>1. CASE handler' = [handler EXCEPT ![b] = [handler[b] EXCEPT !.pc = "bind"]]
        BY <1>t, <2>3, <4>1 DEF Handler
      <4>2. ASSUME NEW e \in Error, handler' = [handler EXCEPT ![b] = [handler[b] EXCEPT !.pc = "dropping", !.err = e]]
            PROVE  handler'[c].pc = "dropping"
        <5>1. [handler[c] EXCEPT !.pc = "dropping", !.err = e].pc = "dropping"
          BY <1>t DEF Handler
        <5> QED BY <1>t, <2>3, <4>2, <5>1
      <4>3. CASE Over(b)
        BY <2>3, <4>3, Absent DEF Over
      <4> QED BY <2>1, <4>1, <4>2, <4>3
    <3> QED BY <1>8, <2>3, <3>1 DEF b
  <2> QED BY <2>2, <2>3
<1>9. CASE HearDetach
  <2> DEFINE b == replies[1].by
  <2>1. \/ UNCHANGED handler
        \/ b \in Cmd /\ Others(b) /\ (handler'[b].pc = "settled" \/ handler'[b] = NoHandler)
    BY <1>9, HearDetachEffect
  <2> HIDE DEF b
  <2>2. CASE c # b \/ UNCHANGED handler
    <3>1. handler'[c] = handler[c]
      BY <2>1, <2>2 DEF Others
    <3> QED BY <1>0, <3>1
  <2>3. CASE c = b /\ ~UNCHANGED handler
    BY <1>9, <2>1, <2>3, Absent DEF b
  <2> QED BY <2>2, <2>3
<1>10. CASE ServeAttach \/ HearGone \/ HearChange \/ \E what \in {"pause", "resume", "settings"} : Change(what)
  BY <1>0, <1>10 DEF ServeAttach, HearGone, HearChange, Change, handlers
<1> QED BY <1>1, <1>2, <1>3, <1>4, <1>5, <1>6, <1>7, <1>8, <1>9, <1>10 DEF Next, ChainStep, ChromeStep

\* A queue that grew, and one that lost its head, index by index.
LEMMA Grown ==
  ASSUME NEW S, NEW s \in Seq(S), NEW e \in S, NEW t, t = Append(s, e)
  PROVE  /\ t \in Seq(S) /\ Len(s) \in Nat /\ DOMAIN s = 1 .. Len(s) /\ DOMAIN t = 1 .. Len(s) + 1
         /\ \A i \in DOMAIN s : i \in DOMAIN t /\ t[i] = s[i] /\ i < Len(s) + 1
         /\ \A i \in DOMAIN t : (i \in DOMAIN s /\ t[i] = s[i] /\ i # Len(s) + 1) \/ (i = Len(s) + 1 /\ t[i] = e)
         /\ Len(s) + 1 \in DOMAIN t /\ t[Len(s) + 1] = e
<1>1. /\ Append(s, e) \in Seq(S) /\ DOMAIN s = 1 .. Len(s) /\ DOMAIN Append(s, e) = 1 .. Len(s) + 1
      /\ \A i \in 1 .. Len(s) : Append(s, e)[i] = s[i]
      /\ Append(s, e)[Len(s) + 1] = e /\ Len(s) \in Nat
  BY Appended
<1> QED BY <1>1

\* A queue after its head was taken, place by place.
LEMMA Shrunk ==
  ASSUME NEW S, NEW s \in Seq(S), s # <<>>, NEW t, t = Tail(s)
  PROVE  /\ t \in Seq(S) /\ Head(s) = s[1] /\ s[1] \in S /\ 1 \in DOMAIN s
         /\ DOMAIN s \subseteq Nat /\ DOMAIN t \subseteq Nat
         /\ \A i \in DOMAIN t : i + 1 \in DOMAIN s /\ i + 1 > 1 /\ t[i] = s[i + 1]
         /\ \A i \in DOMAIN s : i = 1 \/ (i - 1 \in DOMAIN t /\ t[i - 1] = s[i] /\ i > 1)
<1>1. /\ Tail(s) \in Seq(S) /\ Head(s) \in S /\ Head(s) = s[1]
      /\ Len(s) \in Nat /\ Len(s) > 0
      /\ DOMAIN s = 1 .. Len(s) /\ DOMAIN Tail(s) = 1 .. Len(s) - 1
      /\ \A i \in 1 .. Len(s) - 1 : Tail(s)[i] = s[i + 1]
  BY Popped
<1> QED BY <1>1

\* Who waits for an answer waits until it is heard.
LEMMA StillAttaching ==
  ASSUME TypeOK, Bounds, TabInv, Next, NEW c \in Cmd, handler[c].pc = "attaching"
  PROVE  handler'[c].pc = "attaching" \/ (HearAttach /\ c = replies[1].by)
<1>1. ASSUME HearDetach, c = replies[1].by
      PROVE  FALSE
  BY <1>1, HearDetachEffect, Constants DEF TabInv
<1> QED BY <1>1, PcEffect

\* Whoever waits for a detach does so until it is answered.
LEMMA StillWaits ==
  ASSUME TypeOK, Bounds, TabInv, Next, NEW b, waits(b)
  PROVE  waits(b)' \/ (HearDetach /\ b = replies[1].by)
<1>1. CASE b = Chain
  <2>1. turn.at = "releasing"
    BY <1>1 DEF waits
  <2>2. turn'.at = "releasing" \/ (HearDetach /\ b = replies[1].by)
    <3>1. CASE HearDetach
      BY <1>1, <2>1, <3>1, HearDetachEffect DEF TabInv
    <3>2. CASE ~HearDetach
      BY <2>1, <3>2, QueueEffect DEF GivesUp, ServeAttach, ServeDetach, Dismiss, HearAttach, HearGone, chain
    <3> QED BY <3>1, <3>2
  <2> QED BY <1>1, <2>2 DEF waits
<1>2. CASE b # Chain
  <2>1. b \in Cmd /\ handler[b].pc \in {"leaving", "dropping"}
    BY <1>2 DEF waits
  <2>2. ASSUME HearAttach, b = replies[1].by
        PROVE  FALSE
    BY <2>1, <2>2, HearAttachEffect DEF TabInv
  <2>3. handler'[b].pc \in {"leaving", "dropping"} \/ (HearDetach /\ b = replies[1].by)
    BY <2>1, <2>2, PcEffect
  <2> QED BY <1>2, <2>1, <2>3 DEF waits
<1> QED BY <1>1, <1>2

\* How the queues change, with what joins them.
LEMMA Shapes ==
  ASSUME TypeOK, Bounds, TabInv, Next
  PROVE  \/ UNCHANGED <<calls, replies, session, owner, undercut>> /\ ~HearAttach /\ ~HearDetach
         \/ \E b \in 0 .. NoOne : GivesUp(b) /\ calls' = Append(calls, [op |-> "detach", by |-> b]) /\ replies' = replies
                                  /\ [op |-> "detach", by |-> b] \in Request /\ UNCHANGED <<owner, undercut>>
         \/ \E c \in Cmd : Starts(c) /\ calls' = Append(calls, [op |-> "attach", by |-> c]) /\ replies' = replies
                           /\ [op |-> "attach", by |-> c] \in Request /\ UNCHANGED <<session, owner, undercut>>
         \/ \E x \in Reply : /\ calls # <<>> /\ calls' = Tail(calls) /\ replies' = Append(replies, x) /\ x.by = calls[1].by
                             /\ \/ ServeAttach /\ calls[1].op = "attach" /\ x.op \in {"attach", "refused"}
                                   /\ (x.op = "attach" => owner = 0 /\ owner' = x.by) /\ (x.op = "refused" => owner' = owner)
                                \/ ServeDetach /\ calls[1].op = "detach" /\ x.op = "detach"
         \/ Dismiss /\ calls' = calls /\ replies' = Append(replies, [op |-> "gone", by |-> NoOne])
            /\ [op |-> "gone", by |-> NoOne] \in Reply
         \/ /\ replies # <<>> /\ replies' = Tail(replies)
            /\ \/ calls' = calls /\ (HearAttach \/ HearDetach \/ (HearGone /\ replies[1].op = "gone"))
               \/ HearAttach /\ calls' = Append(calls, [op |-> "detach", by |-> replies[1].by])
                  /\ [op |-> "detach", by |-> replies[1].by] \in Request /\ handler'[replies[1].by].pc = "dropping"
<1>t. calls \in Seq(Request) /\ replies \in Seq(Reply) /\ handler \in [Cmd -> Handler]
  BY TabTypes
<1>h. (calls # <<>> => Head(calls) = calls[1] /\ calls[1] \in Request) /\ (replies # <<>> => Head(replies) = replies[1])
  BY <1>t, Popped
<1>1. CASE ServeAttach
  <2>1. /\ calls # <<>> /\ calls[1].op = "attach" /\ calls' = Tail(calls)
        /\ \E op \in {"attach", "refused"} :
             /\ replies' = Append(replies, [op |-> op, by |-> calls[1].by])
             /\ (op = "attach" => owner = 0 /\ owner' = calls[1].by) /\ (op = "refused" => owner' = owner)
    BY <1>1, <1>h DEF ServeAttach, Answer
  <2>2. \A op \in {"attach", "refused"} : [op |-> op, by |-> calls[1].by] \in Reply
    BY <1>h, <2>1 DEF Reply, Request
  <2> QED BY <1>1, <2>1, <2>2
<1>2. CASE ServeDetach
  <2>1. /\ calls # <<>> /\ calls[1].op = "detach" /\ calls' = Tail(calls)
        /\ replies' = Append(replies, [op |-> "detach", by |-> calls[1].by])
    BY <1>2, <1>h DEF ServeDetach, Answer
  <2>2. [op |-> "detach", by |-> calls[1].by] \in Reply
    BY <1>h, <2>1 DEF Reply, Request
  <2> QED BY <1>2, <2>1, <2>2
<1>3. CASE Dismiss
  <2>1. [op |-> "gone", by |-> NoOne] \in Reply
    BY Constants DEF Reply
  <2> QED BY <1>3, <2>1 DEF Dismiss, Answer, tabs
<1>4. CASE HearGone
  BY <1>4, <1>h DEF HearGone
<1>5. CASE HearDetach
  BY <1>5, HearDetachEffect DEF TabInv
<1>6. CASE HearAttach
  <2> DEFINE c == replies[1].by
  <2>1. /\ replies # <<>> /\ c \in Cmd /\ replies' = Tail(replies)
        /\ \/ UNCHANGED calls
           \/ /\ Call("detach", c)
              /\ \E e \in Error : handler' = [handler EXCEPT ![c] = [handler[c] EXCEPT !.pc = "dropping", !.err = e]]
    BY <1>6, HearAttachEffect DEF TabInv, Over
  <2>2. ASSUME NEW e \in Error, handler' = [handler EXCEPT ![c] = [handler[c] EXCEPT !.pc = "dropping", !.err = e]]
        PROVE  handler'[c].pc = "dropping"
    <3>0. handler[c] \in Handler
      BY <1>t, <2>1
    <3>1. [handler[c] EXCEPT !.pc = "dropping", !.err = e].pc = "dropping"
      BY <3>0 DEF Handler
    <3> QED BY <1>t, <2>1, <2>2, <3>1
  <2>3. [op |-> "detach", by |-> c] \in Request
    BY <2>1, Constants DEF Request
  <2> QED BY <1>6, <2>1, <2>2, <2>3 DEF Call
<1>7. ASSUME NEW b \in 0 .. NoOne, GivesUp(b)
      PROVE  calls' = Append(calls, [op |-> "detach", by |-> b]) /\ replies' = replies /\ [op |-> "detach", by |-> b] \in Request
  BY <1>7 DEF GivesUp, Call, Request
<1>8. ASSUME NEW c \in Cmd, Starts(c), UNCHANGED replies
      PROVE  calls' = Append(calls, [op |-> "attach", by |-> c]) /\ replies' = replies /\ [op |-> "attach", by |-> c] \in Request
             /\ session' = session
  BY <1>8, Constants DEF Starts, Call, Request
<1> QED BY <1>1, <1>2, <1>3, <1>4, <1>5, <1>6, <1>7, <1>8, QueueEffect
-----------------------------------------------------------------------------
(* The attach calls and their answers, in line *)

answer == {"attach", "refused"}

\* They are by members of A, in order: first the answers p, behind them the calls q.
InLine(q, p, A) ==
  /\ \A i \in DOMAIN q : q[i].op = "attach" => q[i].by \in A
  /\ \A i \in DOMAIN p : p[i].op \in answer => p[i].by \in A
  /\ \A i, j \in DOMAIN q : q[i].op = "attach" /\ q[j].op = "attach" /\ i < j => q[i].by < q[j].by
  /\ \A i, j \in DOMAIN p : p[i].op \in answer /\ p[j].op \in answer /\ i < j => p[i].by < p[j].by
  /\ \A i \in DOMAIN p, j \in DOMAIN q : p[i].op \in answer /\ q[j].op = "attach" => p[i].by < q[j].by

\* More handlers may be attaching than have a call under way.
LEMMA LineSame ==
  ASSUME NEW q, NEW p, NEW A, NEW B, InLine(q, p, A), A \subseteq B
  PROVE  InLine(q, p, B)
PROOF BY DEF InLine

\* A new attach is by a newer command than those under way.
LEMMA LineGrows ==
  ASSUME NEW q \in Seq(Request), NEW p, NEW A \in SUBSET Nat, InLine(q, p, A), NEW x \in Request, NEW t, t = Append(q, x),
         x.op = "attach" => \A a \in A : a < x.by
  PROVE  InLine(t, p, IF x.op = "attach" THEN A \cup {x.by} ELSE A)
<1>1. /\ DOMAIN q \subseteq Nat
      /\ \A i \in DOMAIN t : (i \in DOMAIN q /\ t[i] = q[i] /\ i < Len(q) + 1) \/ (i = Len(q) + 1 /\ t[i] = x)
      /\ Len(q) \in Nat
  BY Grown
<1> DEFINE B == IF x.op = "attach" THEN A \cup {x.by} ELSE A
<1>2. A \subseteq B /\ (x.op = "attach" => x.by \in B)
  OBVIOUS
<1> HIDE DEF B
<1>3. \A i \in DOMAIN t : t[i].op = "attach" => t[i].by \in B
  BY <1>1, <1>2 DEF InLine
<1>4. \A i \in DOMAIN p : p[i].op \in answer => p[i].by \in B
  BY <1>2 DEF InLine
<1>5. \A i, j \in DOMAIN t : t[i].op = "attach" /\ t[j].op = "attach" /\ i < j => t[i].by < t[j].by
  <2> SUFFICES ASSUME NEW i \in DOMAIN t, NEW j \in DOMAIN t, t[i].op = "attach", t[j].op = "attach", i < j
               PROVE  t[i].by < t[j].by
    OBVIOUS
  <2>1. CASE j \in DOMAIN q /\ t[j] = q[j] /\ j < Len(q) + 1
    <3>1. i \in DOMAIN q /\ t[i] = q[i]
      BY <1>1, <2>1
    <3> QED BY <2>1, <3>1 DEF InLine
  <2>2. CASE j = Len(q) + 1 /\ t[j] = x
    <3>1. i \in DOMAIN q /\ t[i] = q[i]
      BY <1>1, <2>2
    <3> QED BY <2>2, <3>1 DEF InLine
  <2> QED BY <1>1, <2>1, <2>2
<1>6. \A i \in DOMAIN p, j \in DOMAIN t : p[i].op \in answer /\ t[j].op = "attach" => p[i].by < t[j].by
  BY <1>1 DEF InLine
<1> QED BY <1>3, <1>4, <1>5, <1>6 DEF InLine, B

\* Chrome answers the first call, behind the answers under way.
LEMMA LineServed ==
  ASSUME NEW q \in Seq(Request), NEW p \in Seq(Reply), NEW A, InLine(q, p, A), q # <<>>, NEW x \in Reply, x.by = q[1].by,
         x.op \in answer => q[1].op = "attach", NEW t, t = Tail(q), NEW r, r = Append(p, x)
  PROVE  InLine(t, r, A)
<1>1. /\ 1 \in DOMAIN q
      /\ \A i \in DOMAIN t : i + 1 \in DOMAIN q /\ i + 1 > 1 /\ t[i] = q[i + 1] /\ i \in Nat
  BY Shrunk
<1>2. /\ \A i \in DOMAIN r : (i \in DOMAIN p /\ r[i] = p[i] /\ i < Len(p) + 1) \/ (i = Len(p) + 1 /\ r[i] = x)
      /\ DOMAIN p \subseteq Nat /\ Len(p) \in Nat
  BY Grown
<1>3. \A i \in DOMAIN t : t[i].op = "attach" => t[i].by \in A
  BY <1>1 DEF InLine
<1>4. \A i \in DOMAIN r : r[i].op \in answer => r[i].by \in A
  BY <1>1, <1>2 DEF InLine
<1>5. \A i, j \in DOMAIN t : t[i].op = "attach" /\ t[j].op = "attach" /\ i < j => t[i].by < t[j].by
  BY <1>1 DEF InLine
<1>6. \A i, j \in DOMAIN r : r[i].op \in answer /\ r[j].op \in answer /\ i < j => r[i].by < r[j].by
  BY <1>1, <1>2 DEF InLine
<1>7. \A i \in DOMAIN r, j \in DOMAIN t : r[i].op \in answer /\ t[j].op = "attach" => r[i].by < t[j].by
  BY <1>1, <1>2 DEF InLine
<1> QED BY <1>3, <1>4, <1>5, <1>6, <1>7 DEF InLine

\* An answer to something else does not disturb the order.
LEMMA LineNoted ==
  ASSUME NEW q, NEW p \in Seq(Reply), NEW A, InLine(q, p, A), NEW x \in Reply, x.op \notin answer, NEW r, r = Append(p, x)
  PROVE  InLine(q, r, A)
<1>1. /\ \A i \in DOMAIN r : (i \in DOMAIN p /\ r[i] = p[i]) \/ r[i] = x
  BY Grown
<1> QED BY <1>1 DEF InLine

\* The head of the answers is by a command that has no other call or answer.
LEMMA LineHeard ==
  ASSUME NEW q \in Seq(Request), NEW p \in Seq(Reply), NEW A \in SUBSET Nat, InLine(q, p, A), p # <<>>, NEW r, r = Tail(p)
  PROVE  InLine(q, r, IF p[1].op \in answer THEN A \ {p[1].by} ELSE A)
<1>1. /\ 1 \in DOMAIN p
      /\ \A i \in DOMAIN r : i + 1 \in DOMAIN p /\ i + 1 > 1 /\ r[i] = p[i + 1] /\ i \in Nat
  BY Shrunk
<1>a. \A a \in A : a \in Nat /\ ~(a < a)
  OBVIOUS
<1> DEFINE B == IF p[1].op \in answer THEN A \ {p[1].by} ELSE A
<1>2. \A i \in DOMAIN q : q[i].op = "attach" => q[i].by \in B
  <2> SUFFICES ASSUME NEW i \in DOMAIN q, q[i].op = "attach"
               PROVE  q[i].by \in B
    OBVIOUS
  <2>1. q[i].by \in A /\ (p[1].op \in answer => p[1].by < q[i].by)
    BY <1>1 DEF InLine
  <2>2. q[i].by \in Nat
    BY <2>1
  <2>3. p[1].op \in answer => p[1].by \in Nat /\ p[1].by # q[i].by
    <3>1. p[1].op \in answer => p[1].by \in A
      BY <1>1 DEF InLine
    <3> QED BY <1>a, <2>1, <2>2, <3>1
  <2> QED BY <2>1, <2>3
<1>3. \A i \in DOMAIN r : r[i].op \in answer => r[i].by \in B
  <2> SUFFICES ASSUME NEW i \in DOMAIN r, r[i].op \in answer
               PROVE  r[i].by \in B
    OBVIOUS
  <2>1. r[i] = p[i + 1] /\ i + 1 \in DOMAIN p /\ 1 < i + 1
    BY <1>1
  <2>2. r[i].by \in A /\ (p[1].op \in answer => p[1].by \in A /\ p[1].by < r[i].by)
    BY <1>1, <2>1 DEF InLine
  <2>3. p[1].op \in answer => p[1].by # r[i].by
    BY <1>a, <2>2
  <2> QED BY <2>2, <2>3
<1>4. \A i, j \in DOMAIN r : r[i].op \in answer /\ r[j].op \in answer /\ i < j => r[i].by < r[j].by
  BY <1>1 DEF InLine
<1>5. \A i \in DOMAIN r, j \in DOMAIN q : r[i].op \in answer /\ q[j].op = "attach" => r[i].by < q[j].by
  BY <1>1 DEF InLine
<1>6. \A i, j \in DOMAIN q : q[i].op = "attach" /\ q[j].op = "attach" /\ i < j => q[i].by < q[j].by
  BY DEF InLine
<1> QED BY <1>2, <1>3, <1>4, <1>5, <1>6 DEF InLine

attaching == {c \in Cmd : handler[c].pc = "attaching"}

\* The part of Attaches about the queues, as one predicate.
LEMMA AttachesInLine == Attaches =>  InLine(calls, replies, attaching)
PROOF BY DEF Attaches, InLine, attaching, asks, hears, answer

\* Every step keeps the order of the attach calls.
LEMMA AttachesKept ==
  ASSUME TypeOK, Bounds, TabInv, Next
  PROVE  Attaches'
<1>t. calls \in Seq(Request) /\ replies \in Seq(Reply) /\ Cmd \subseteq Nat /\ attaching \in SUBSET Nat /\ handler \in [Cmd -> Handler]
  BY TabTypes, Constants DEF attaching
<1>1. \A c \in Cmd : /\ handler'[c].pc \in {"attach", "attaching"} => handler'[c].kind # "tab"
                     /\ handler'[c].pc = "lookup" => handler'[c].kind = "tab"
  BY PcEffect
<1>2. InLine(calls, replies, attaching)
  BY AttachesInLine DEF TabInv
<1>3. \A c \in attaching : c \in attaching' \/ (HearAttach /\ c = replies[1].by)
  BY StillAttaching DEF attaching
<1>4. HearAttach => replies[1].op \in answer
  BY HearAttachEffect DEF TabInv, hears, answer
<1>5. ASSUME UNCHANGED <<calls, replies>>, ~HearAttach
      PROVE  InLine(calls', replies', attaching')
  <2>1. attaching \subseteq attaching'
    BY <1>3, <1>5
  <2> QED BY <1>2, <1>5, <2>1, LineSame
<1>a. ~HearAttach => attaching \subseteq attaching'
  BY <1>3
<1>n. ASSUME HearAttach, calls' = Append(calls, [op |-> "detach", by |-> replies[1].by]) \/ calls' = calls
      PROVE  replies' = Tail(replies)
  BY <1>n, HearAttachEffect DEF TabInv
<1>6. ASSUME NEW b \in 0 .. NoOne, calls' = Append(calls, [op |-> "detach", by |-> b]), replies' = replies,
             [op |-> "detach", by |-> b] \in Request, GivesUp(b)
      PROVE  InLine(calls', replies', attaching')
  <2> DEFINE x == [op |-> "detach", by |-> b]
  <2>1. InLine(calls', replies, IF x.op = "attach" THEN attaching \cup {x.by} ELSE attaching)
    BY <1>t, <1>2, <1>6, LineGrows
  <2>2. attaching \subseteq attaching'
    <3>1. CASE HearAttach
      <4>1. replies' = Tail(replies) /\ replies # <<>>
        BY <3>1, HearAttachEffect DEF TabInv
      <4>2. Tail(replies) # replies
        BY <1>t, <4>1, Popped
      <4> QED BY <1>6, <4>1, <4>2
    <3> QED BY <1>a, <3>1
  <2> QED BY <1>6, <2>1, <2>2, LineSame
<1>7. ASSUME NEW c \in Cmd, Starts(c), calls' = Append(calls, [op |-> "attach", by |-> c]), replies' = replies,
             [op |-> "attach", by |-> c] \in Request
      PROVE  InLine(calls', replies', attaching')
  <2> DEFINE x == [op |-> "attach", by |-> c]
  <2>1. \A d \in attaching : d < c
    <3> SUFFICES ASSUME NEW d \in attaching
                 PROVE  d < c
      OBVIOUS
    <3>1. c = turn.cmd /\ d <= turn.cmd /\ d # c /\ d \in Nat /\ c \in Nat
      BY <1>t, <1>7, Current, TurnFacts DEF Starts, TabInv, Idle, attaching
    <3> QED BY <3>1
  <2>2. InLine(calls', replies, IF x.op = "attach" THEN attaching \cup {x.by} ELSE attaching)
    BY <1>t, <1>2, <1>7, <2>1, LineGrows
  <2>3. attaching \cup {c} \subseteq attaching'
    <3>1. handler' = [handler EXCEPT ![c] = [handler[c] EXCEPT !.pc = "attaching"]] /\ handler[c] \in Handler
      BY <1>t, <1>7 DEF Starts
    <3>2. handler'[c].pc = "attaching" /\ \A d \in Cmd \ {c} : handler'[d] = handler[d]
      BY <1>t, <3>1 DEF Handler
    <3> QED BY <3>2 DEF attaching
  <2> QED BY <1>7, <2>2, <2>3, LineSame
<1>8. ASSUME NEW x \in Reply, calls # <<>>, calls' = Tail(calls), replies' = Append(replies, x), x.by = calls[1].by,
             (ServeAttach /\ calls[1].op = "attach" /\ x.op \in {"attach", "refused"}) \/ (ServeDetach /\ x.op = "detach")
      PROVE  InLine(calls', replies', attaching')
  <2>1. InLine(calls', replies', attaching)
    BY <1>t, <1>2, <1>8, LineServed DEF answer
  <2>2. ~HearAttach
    <3>1. HearAttach => replies' = Tail(replies) /\ replies # <<>>
      BY HearAttachEffect DEF TabInv
    <3> QED BY <1>t, <1>8, <3>1, Popped, Appended
  <2> QED BY <1>a, <2>1, <2>2, LineSame
<1>9. ASSUME calls' = calls, replies' = Append(replies, [op |-> "gone", by |-> NoOne]), [op |-> "gone", by |-> NoOne] \in Reply
      PROVE  InLine(calls', replies', attaching')
  <2>1. InLine(calls', replies', attaching)
    BY <1>t, <1>2, <1>9, LineNoted DEF answer
  <2>2. ~HearAttach
    <3>1. HearAttach => replies' = Tail(replies) /\ replies # <<>>
      BY HearAttachEffect DEF TabInv
    <3> QED BY <1>t, <1>9, <3>1, Popped, Appended
  <2> QED BY <1>a, <2>1, <2>2, LineSame
<1>10. ASSUME replies # <<>>, replies' = Tail(replies)
       PROVE  InLine(calls, replies', attaching')
  <2> DEFINE B == IF replies[1].op \in answer THEN attaching \ {replies[1].by} ELSE attaching
  <2>1. InLine(calls, replies', B)
    BY <1>t, <1>2, <1>10, LineHeard
  <2>2. B \subseteq attaching'
    BY <1>3, <1>4
  <2> HIDE DEF B
  <2> QED BY <2>1, <2>2, LineSame
<1>11. ASSUME replies # <<>>, replies' = Tail(replies), calls' = Append(calls, [op |-> "detach", by |-> replies[1].by]),
              [op |-> "detach", by |-> replies[1].by] \in Request
       PROVE  InLine(calls', replies', attaching')
  <2> DEFINE x == [op |-> "detach", by |-> replies[1].by]
  <2>1. attaching' \in SUBSET Nat
    BY Constants DEF attaching
  <2>2. InLine(calls', replies', IF x.op = "attach" THEN attaching' \cup {x.by} ELSE attaching')
    BY <1>t, <1>10, <1>11, <2>1, LineGrows
  <2> QED BY <2>2
<1>12. InLine(calls', replies', attaching')
  <2>1. ASSUME replies # <<>>, replies' = Tail(replies), calls' = calls
        PROVE  InLine(calls', replies', attaching')
    <3>1. InLine(calls, replies', attaching')
      BY <1>10, <2>1
    <3> QED BY <2>1, <3>1
  <2> QED BY <1>5, <1>6, <1>7, <1>8, <1>9, <1>11, <2>1, Shapes
<1> QED BY <1>1, <1>12 DEF Attaches, InLine, attaching, asks, hears, answer
-----------------------------------------------------------------------------
(* The detach calls and their answers, each asked for once *)

\* They are by NoOne or by a member of W, which has no other.
Owed(q, p, W) ==
  /\ \A i \in DOMAIN q : q[i].op = "detach" => q[i].by \in W \cup {NoOne}
  /\ \A i \in DOMAIN p : p[i].op = "detach" => p[i].by \in W \cup {NoOne}
  /\ \A i, j \in DOMAIN q : q[i].op = "detach" /\ q[j].op = "detach" /\ i # j => q[i].by = NoOne \/ q[i].by # q[j].by
  /\ \A i, j \in DOMAIN p : p[i].op = "detach" /\ p[j].op = "detach" /\ i # j => p[i].by = NoOne \/ p[i].by # p[j].by
  /\ \A i \in DOMAIN p, j \in DOMAIN q : p[i].op = "detach" /\ q[j].op = "detach" => p[i].by = NoOne \/ p[i].by # q[j].by

\* More may wait for a detach than have one under way.
LEMMA OwedSame ==
  ASSUME NEW q, NEW p, NEW W, NEW V, Owed(q, p, W), W \subseteq V
  PROVE  Owed(q, p, V)
PROOF BY DEF Owed

\* A new detach is by one that has none under way.
LEMMA OwedGrows ==
  ASSUME NEW q \in Seq(Request), NEW p, NEW W, Owed(q, p, W), NEW x \in Request, NEW t, t = Append(q, x),
         x.op = "detach" => x.by = NoOne \/ x.by \notin W
  PROVE  Owed(t, p, IF x.op = "detach" THEN W \cup {x.by} ELSE W)
<1>1. /\ \A i \in DOMAIN t : (i \in DOMAIN q /\ t[i] = q[i]) \/ (i = Len(q) + 1 /\ t[i] = x)
  BY Grown
<1> DEFINE V == IF x.op = "detach" THEN W \cup {x.by} ELSE W
<1>2. W \subseteq V /\ (x.op = "detach" => x.by \in V)
  OBVIOUS
<1> HIDE DEF V
<1>3. \A i \in DOMAIN t : t[i].op = "detach" => t[i].by \in V \cup {NoOne}
  BY <1>1, <1>2 DEF Owed
<1>4. \A i \in DOMAIN p : p[i].op = "detach" => p[i].by \in V \cup {NoOne}
  BY <1>2 DEF Owed
<1>5. \A i, j \in DOMAIN t : t[i].op = "detach" /\ t[j].op = "detach" /\ i # j => t[i].by = NoOne \/ t[i].by # t[j].by
  <2> SUFFICES ASSUME NEW i \in DOMAIN t, NEW j \in DOMAIN t, t[i].op = "detach", t[j].op = "detach", i # j
               PROVE  t[i].by = NoOne \/ t[i].by # t[j].by
    OBVIOUS
  <2>1. CASE i \in DOMAIN q /\ t[i] = q[i] /\ j \in DOMAIN q /\ t[j] = q[j]
    BY <2>1 DEF Owed
  <2>2. CASE i \in DOMAIN q /\ t[i] = q[i] /\ t[j] = x
    BY <2>2 DEF Owed
  <2>3. CASE t[i] = x /\ j \in DOMAIN q /\ t[j] = q[j]
    BY <2>3 DEF Owed
  <2> QED BY <1>1, <2>1, <2>2, <2>3
<1>6. \A i \in DOMAIN p, j \in DOMAIN t : p[i].op = "detach" /\ t[j].op = "detach" => p[i].by = NoOne \/ p[i].by # t[j].by
  BY <1>1 DEF Owed
<1>7. \A i, j \in DOMAIN p : p[i].op = "detach" /\ p[j].op = "detach" /\ i # j => p[i].by = NoOne \/ p[i].by # p[j].by
  BY DEF Owed
<1> QED BY <1>3, <1>4, <1>5, <1>6, <1>7 DEF Owed, V

\* Chrome answers the detach it served.
LEMMA OwedServed ==
  ASSUME NEW q \in Seq(Request), NEW p \in Seq(Reply), NEW W, Owed(q, p, W), q # <<>>, NEW x \in Reply, x.by = q[1].by,
         x.op = "detach" => q[1].op = "detach", NEW t, t = Tail(q), NEW r, r = Append(p, x)
  PROVE  Owed(t, r, W)
<1>1. /\ 1 \in DOMAIN q
      /\ \A i \in DOMAIN t : i + 1 \in DOMAIN q /\ i + 1 # 1 /\ t[i] = q[i + 1] /\ i \in Nat
  BY Shrunk
<1>2. \A i \in DOMAIN r : (i \in DOMAIN p /\ r[i] = p[i]) \/ (i = Len(p) + 1 /\ r[i] = x)
  BY Grown
<1>3. \A i \in DOMAIN t : t[i].op = "detach" => t[i].by \in W \cup {NoOne}
  BY <1>1 DEF Owed
<1>4. \A i \in DOMAIN r : r[i].op = "detach" => r[i].by \in W \cup {NoOne}
  BY <1>1, <1>2 DEF Owed
<1>5. \A i, j \in DOMAIN t : t[i].op = "detach" /\ t[j].op = "detach" /\ i # j => t[i].by = NoOne \/ t[i].by # t[j].by
  <2> SUFFICES ASSUME NEW i \in DOMAIN t, NEW j \in DOMAIN t, t[i].op = "detach", t[j].op = "detach", i # j
               PROVE  t[i].by = NoOne \/ t[i].by # t[j].by
    OBVIOUS
  <2>1. i + 1 \in DOMAIN q /\ t[i] = q[i + 1] /\ j + 1 \in DOMAIN q /\ t[j] = q[j + 1] /\ i + 1 # j + 1
    BY <1>1
  <2> QED BY <2>1 DEF Owed
<1>6. \A i, j \in DOMAIN r : r[i].op = "detach" /\ r[j].op = "detach" /\ i # j => r[i].by = NoOne \/ r[i].by # r[j].by
  <2> SUFFICES ASSUME NEW i \in DOMAIN r, NEW j \in DOMAIN r, r[i].op = "detach", r[j].op = "detach", i # j
               PROVE  r[i].by = NoOne \/ r[i].by # r[j].by
    OBVIOUS
  <2>1. CASE i \in DOMAIN p /\ r[i] = p[i] /\ j \in DOMAIN p /\ r[j] = p[j]
    BY <2>1 DEF Owed
  <2>2. CASE i \in DOMAIN p /\ r[i] = p[i] /\ r[j] = x
    BY <1>1, <2>2 DEF Owed
  <2>3. CASE r[i] = x /\ j \in DOMAIN p /\ r[j] = p[j]
    BY <1>1, <2>3 DEF Owed
  <2> QED BY <1>2, <2>1, <2>2, <2>3
<1>7. \A i \in DOMAIN r, j \in DOMAIN t : r[i].op = "detach" /\ t[j].op = "detach" => r[i].by = NoOne \/ r[i].by # t[j].by
  BY <1>1, <1>2 DEF Owed
<1> QED BY <1>3, <1>4, <1>5, <1>6, <1>7 DEF Owed

\* Another answer owes nobody a detach.
LEMMA OwedNoted ==
  ASSUME NEW q, NEW p \in Seq(Reply), NEW W, Owed(q, p, W), NEW x \in Reply, x.op # "detach", NEW r, r = Append(p, x)
  PROVE  Owed(q, r, W)
<1>1. \A i \in DOMAIN r : (i \in DOMAIN p /\ r[i] = p[i]) \/ r[i] = x
  BY Grown
<1> QED BY <1>1 DEF Owed

\* The detach that was heard is owed no more.
LEMMA OwedHeard ==
  ASSUME NEW q, NEW p \in Seq(Reply), NEW W, Owed(q, p, W), p # <<>>, NEW r, r = Tail(p)
  PROVE  Owed(q, r, IF p[1].op = "detach" THEN W \ {p[1].by} ELSE W)
<1>1. /\ 1 \in DOMAIN p
      /\ \A i \in DOMAIN r : i + 1 \in DOMAIN p /\ i + 1 # 1 /\ r[i] = p[i + 1] /\ i \in Nat
  BY Shrunk
<1> DEFINE V == IF p[1].op = "detach" THEN W \ {p[1].by} ELSE W
<1>2. \A i \in DOMAIN q : q[i].op = "detach" => q[i].by \in V \cup {NoOne}
  BY <1>1 DEF Owed
<1>3. \A i \in DOMAIN r : r[i].op = "detach" => r[i].by \in V \cup {NoOne}
  BY <1>1 DEF Owed
<1>4. \A i, j \in DOMAIN r : r[i].op = "detach" /\ r[j].op = "detach" /\ i # j => r[i].by = NoOne \/ r[i].by # r[j].by
  <2> SUFFICES ASSUME NEW i \in DOMAIN r, NEW j \in DOMAIN r, r[i].op = "detach", r[j].op = "detach", i # j
               PROVE  r[i].by = NoOne \/ r[i].by # r[j].by
    OBVIOUS
  <2>1. i + 1 \in DOMAIN p /\ r[i] = p[i + 1] /\ j + 1 \in DOMAIN p /\ r[j] = p[j + 1] /\ i + 1 # j + 1
    BY <1>1
  <2> QED BY <2>1 DEF Owed
<1>5. \A i \in DOMAIN r, j \in DOMAIN q : r[i].op = "detach" /\ q[j].op = "detach" => r[i].by = NoOne \/ r[i].by # q[j].by
  BY <1>1 DEF Owed
<1>6. \A i, j \in DOMAIN q : q[i].op = "detach" /\ q[j].op = "detach" /\ i # j => q[i].by = NoOne \/ q[i].by # q[j].by
  BY DEF Owed
<1> QED BY <1>2, <1>3, <1>4, <1>5, <1>6 DEF Owed

waiters == {b \in 0 .. NoOne : waits(b)}

\* Every step keeps that a detach under way is awaited, once.
LEMMA DetachesKept ==
  ASSUME TypeOK, Bounds, TabInv, Next
  PROVE  Detaches'
<1>t. calls \in Seq(Request) /\ replies \in Seq(Reply) /\ handler \in [Cmd -> Handler] /\ calls' \in Seq(Request)
      /\ replies' \in Seq(Reply)
  <2>1. TypeOK'
    BY TypesKept DEF TabInv
  <2> QED BY <2>1 DEF TypeOK
<1>q. \A i \in DOMAIN calls : calls[i].by \in 0 .. NoOne
  <2>1. \A i \in DOMAIN calls : calls[i] \in Request
    BY <1>t
  <2> QED BY <2>1 DEF Request
<1>p. \A i \in DOMAIN replies : replies[i].by \in 0 .. NoOne
  <2>1. \A i \in DOMAIN replies : replies[i] \in Reply
    BY <1>t
  <2> QED BY <2>1 DEF Reply
<1>2. Owed(calls, replies, waiters)
  BY <1>q, <1>p DEF TabInv, Detaches, Owed, waiters, drops, dropped
<1>3. \A b \in waiters : b \in waiters' \/ (HearDetach /\ b = replies[1].by)
  <2> SUFFICES ASSUME NEW b \in waiters
               PROVE  b \in waiters' \/ (HearDetach /\ b = replies[1].by)
    OBVIOUS
  <2>1. b \in 0 .. NoOne /\ (waits(b)' \/ (HearDetach /\ b = replies[1].by))
    BY StillWaits DEF waiters
  <2> QED BY <2>1 DEF waiters
<1>4. HearDetach => replies[1].op = "detach" /\ replies # <<>> /\ replies' = Tail(replies)
  BY HearDetachEffect DEF TabInv, dropped
<1>h. ~HearDetach => waiters \subseteq waiters'
  BY <1>3
<1>5. ASSUME UNCHANGED <<calls, replies>>, ~HearDetach
      PROVE  Owed(calls', replies', waiters')
  BY <1>2, <1>h, <1>5, OwedSame
<1>l. ASSUME replies' = replies \/ \E x \in Reply : replies' = Append(replies, x)
      PROVE  ~HearDetach
  <2>1. replies # <<>> => \A x \in Reply : Tail(replies) # replies /\ Tail(replies) # Append(replies, x)
    BY <1>t, Popped, Appended
  <2> QED BY <1>4, <1>l, <2>1
<1>6. ASSUME NEW b \in 0 .. NoOne, calls' = Append(calls, [op |-> "detach", by |-> b]), replies' = replies,
             [op |-> "detach", by |-> b] \in Request, GivesUp(b)
      PROVE  Owed(calls', replies', waiters')
  <2> DEFINE x == [op |-> "detach", by |-> b]
  <2>1. b = NoOne \/ b \notin waiters
    <3>1. CASE b = Chain
      BY <1>6, <3>1 DEF GivesUp, waiters, waits
    <3>2. CASE b = session
      BY <1>6, <3>2, Current, Constants DEF GivesUp, waiters, waits, TabInv, Inside
    <3> QED BY <1>6, <3>1, <3>2 DEF GivesUp
  <2>2. Owed(calls', replies, IF x.op = "detach" THEN waiters \cup {x.by} ELSE waiters)
    BY <1>t, <1>2, <1>6, <2>1, OwedGrows
  <2>3. b = NoOne \/ b \in waiters'
    <3>1. CASE b = Chain
      BY <1>6, <3>1 DEF GivesUp, waiters, waits
    <3>2. CASE b = session
      BY <1>6, <3>2, Current, Constants DEF GivesUp, waiters, waits, TabInv
    <3> QED BY <1>6, <3>1, <3>2 DEF GivesUp
  <2>4. waiters \subseteq waiters'
    BY <1>6, <1>h, <1>l
  <2>5. Owed(calls', replies', waiters \cup {b})
    BY <1>6, <2>2
  <2>6. CASE b = NoOne
    <3>1. Owed(calls', replies', waiters)
      BY <2>5, <2>6 DEF Owed
    <3> QED BY <2>4, <3>1, OwedSame
  <2>7. CASE b # NoOne
    BY <2>3, <2>4, <2>5, <2>7, OwedSame
  <2> QED BY <2>6, <2>7
<1>7. ASSUME NEW c \in Cmd, calls' = Append(calls, [op |-> "attach", by |-> c]), replies' = replies,
             [op |-> "attach", by |-> c] \in Request
      PROVE  Owed(calls', replies', waiters')
  <2> DEFINE x == [op |-> "attach", by |-> c]
  <2>1. Owed(calls', replies, IF x.op = "detach" THEN waiters \cup {x.by} ELSE waiters)
    BY <1>t, <1>2, <1>7, OwedGrows
  <2>2. waiters \subseteq waiters'
    BY <1>7, <1>h, <1>l
  <2> QED BY <1>7, <2>1, <2>2, OwedSame
<1>8. ASSUME NEW x \in Reply, calls # <<>>, calls' = Tail(calls), replies' = Append(replies, x), x.by = calls[1].by,
             x.op = "detach" => calls[1].op = "detach"
      PROVE  Owed(calls', replies', waiters')
  <2>1. Owed(calls', replies', waiters)
    BY <1>t, <1>2, <1>8, OwedServed
  <2>2. waiters \subseteq waiters'
    BY <1>8, <1>h, <1>l
  <2> QED BY <2>1, <2>2, OwedSame
<1>9. ASSUME calls' = calls, replies' = Append(replies, [op |-> "gone", by |-> NoOne]), [op |-> "gone", by |-> NoOne] \in Reply
      PROVE  Owed(calls', replies', waiters')
  <2>1. Owed(calls', replies', waiters)
    BY <1>t, <1>2, <1>9, OwedNoted
  <2>2. waiters \subseteq waiters'
    BY <1>9, <1>h, <1>l
  <2> QED BY <2>1, <2>2, OwedSame
<1>10. ASSUME replies # <<>>, replies' = Tail(replies)
       PROVE  Owed(calls, replies', waiters')
  <2> DEFINE V == IF replies[1].op = "detach" THEN waiters \ {replies[1].by} ELSE waiters
  <2>1. Owed(calls, replies', V)
    BY <1>t, <1>2, <1>10, OwedHeard
  <2>2. V \subseteq waiters'
    BY <1>3, <1>4
  <2> HIDE DEF V
  <2> QED BY <2>1, <2>2, OwedSame
<1>11. ASSUME replies # <<>>, replies' = Tail(replies), calls' = calls
       PROVE  Owed(calls', replies', waiters')
  <2>1. Owed(calls, replies', waiters')
    BY <1>10, <1>11
  <2> QED BY <1>11, <2>1
<1>12. ASSUME replies # <<>>, replies' = Tail(replies), calls' = Append(calls, [op |-> "detach", by |-> replies[1].by]),
              [op |-> "detach", by |-> replies[1].by] \in Request, HearAttach, handler'[replies[1].by].pc = "dropping"
       PROVE  Owed(calls', replies', waiters')
  <2> DEFINE c == replies[1].by
             x == [op |-> "detach", by |-> c]
  <2>1. c \in Cmd /\ handler[c].pc = "attaching"
    BY <1>12, HearAttachEffect DEF TabInv
  <2>2. c \notin waiters /\ c \in waiters' /\ c # NoOne
    BY <1>12, <2>1, Constants DEF waiters, waits
  <2>a. replies[1].op # "detach"
    BY <1>12 DEF HearAttach
  <2>3. Owed(calls, replies', waiters)
    BY <1>t, <1>2, <1>12, <2>a, OwedHeard
  <2>4. Owed(calls', replies', IF x.op = "detach" THEN waiters \cup {x.by} ELSE waiters)
    BY <1>t, <1>12, <2>2, <2>3, OwedGrows
  <2>5. waiters \cup {c} \subseteq waiters'
    BY <1>3, <1>4, <2>2, <2>a
  <2> QED BY <2>4, <2>5, OwedSame
<1>13. Owed(calls', replies', waiters')
  BY <1>5, <1>6, <1>7, <1>8, <1>9, <1>11, <1>12, Shapes
<1> QED BY <1>13 DEF Detaches, Owed, waiters, drops, dropped
-----------------------------------------------------------------------------
(* Who has the session, and what is pending through it *)

Holder(h) == h.kind # "tab" /\ ~h.dead /\ h.pc \in Inside
Uses(h) == h.kind # "tab" /\ h.call = "pending"

\* The session of an answered attach is taken.
Adopts(c) ==
  /\ HearAttach /\ c = replies[1].by /\ replies[1].op = "attach" /\ replies # <<>> /\ replies' = Tail(replies)
  /\ live(c) /\ handler[c].pc = "attaching" /\ session = 0 /\ session' = c
  /\ UNCHANGED <<calls, owner, turn, undercut>>

\* How a handler comes to hold a session or use the debugger, and how a session ends.
LEMMA HolderEffect ==
  ASSUME TypeOK, Bounds, TabInv, Next, NEW c \in Cmd
  PROVE  /\ Holder(handler'[c]) => Holder(handler[c]) \/ Adopts(c)
         /\ Uses(handler'[c]) =>
              Uses(handler[c]) \/ (owner # 0 /\ owner' = owner /\ Holder(handler[c]))
         /\ session = c => session' = 0 \/ (session' = c /\ Holder(handler'[c]))
<1> USE DEF TabInv
<1> DEFINE Goal == /\ Holder(handler'[c]) => Holder(handler[c])
                   /\ Uses(handler'[c]) => Uses(handler[c]) \/ (owner # 0 /\ owner' = owner /\ Holder(handler[c]))
                   /\ session = c => session' = 0 \/ (session' = c /\ Holder(handler'[c]))
<1>t. handler \in [Cmd -> Handler] /\ handler[c] \in Handler
  BY TabTypes
<1>s. session = c => Holder(handler[c]) /\ c = turn.cmd /\ turn.at = "running"
  BY Current, Constants DEF holds, Holder
<1>0. CASE handler'[c] = handler[c] /\ session' \in {0, session}
  BY <1>0, <1>s
<1>x. CASE ~Holder(handler'[c]) /\ ~Uses(handler'[c]) /\ (session # c \/ session' = 0)
  BY <1>x
<1>1. ASSUME NEW kind \in {"tab", "plain", "workflow"}, Take(kind)
      PROVE  Goal
  <2> DEFINE n == turn.cmd + 1
  <2>1. handler' = [handler EXCEPT ![n] = [handler[n] EXCEPT !.kind = kind, !.policy = policy, !.epoch = epoch]]
    BY <1>1 DEF Take
  <2>a. n \in Cmd /\ n > turn.cmd /\ session' = session /\ session # c
    <3>1. turn.cmd \in 0 .. MaxCmd /\ turn.cmd < MaxCmd /\ turn.at = "idle"
      BY <1>1 DEF Take, TypeOK
    <3>2. session' = session
      BY <1>1 DEF Take, tabs
    <3> QED BY <1>s, <3>1, <3>2, Constants DEF Cmd
  <2> HIDE DEF n
  <2>2. CASE c = n
    <3>1. handler[n] = NoHandler
      BY <2>a DEF Turns
    <3>2. handler'[n].pc = "none" /\ handler'[n].call = "none"
      BY <1>t, <2>a, <2>1, <3>1 DEF NoHandler
    <3> QED BY <1>x, <2>2, <2>a, <3>2 DEF Holder, Uses, Inside
  <2>3. CASE c # n
    BY <1>t, <1>0, <2>a, <2>1, <2>3
  <2> QED BY <2>2, <2>3
<1>2. CASE RunCommand
  <2>1. turn.cmd \in Cmd /\ handler[turn.cmd].pc = "none" /\ session' = session /\ session # c
    BY <1>2, <1>s, Current DEF RunCommand, Turns, tabs
  <2>2. handler' = handler \/ handler' = [handler EXCEPT ![turn.cmd] = [handler[turn.cmd] EXCEPT !.pc = "authorize"]]
    BY <1>2, <1>t DEF RunCommand
  <2>3. handler'[c] = handler[c]
        \/ (handler'[c].pc = "authorize" /\ handler'[c].call = handler[c].call /\ handler'[c].kind = handler[c].kind)
    BY <1>t, <2>1, <2>2 DEF Handler
  <2>4. CASE handler'[c].pc = "authorize" /\ handler'[c].call = handler[c].call /\ handler'[c].kind = handler[c].kind
    BY <2>1, <2>4 DEF Holder, Uses, Inside
  <2> QED BY <1>0, <2>1, <2>3, <2>4
<1>3. CASE RaceSettles \/ Confirm \/ Timeout
  <2>1. /\ Others(turn.cmd)
        /\ \/ handler' = handler /\ session' = session
           \/ handler'[turn.cmd] = [handler[turn.cmd] EXCEPT !.dead = TRUE] /\ session' = 0
    BY <1>3, ChainEffect
  <2>2. CASE c = turn.cmd /\ handler'[turn.cmd] = [handler[turn.cmd] EXCEPT !.dead = TRUE] /\ session' = 0
    <3>1. handler'[c].dead /\ handler'[c].kind = handler[c].kind /\ handler'[c].call = handler[c].call
      BY <1>t, <2>1, <2>2 DEF Handler
    <3> QED BY <2>2, <3>1 DEF Holder, Uses
  <2> QED BY <1>0, <2>1, <2>2 DEF Others
<1>4. CASE Send
  <2>1. /\ Others(turn.cmd) /\ turn.cmd \in Cmd /\ session' = session /\ session # c
        /\ handler'[turn.cmd] = IF handler[turn.cmd].pc \in Idle THEN NoHandler ELSE remnant(handler[turn.cmd])
    BY <1>4, <1>s, SendEffect DEF tabs
  <2>2. CASE c = turn.cmd /\ handler[c].pc \in Idle
    BY <1>x, <2>1, <2>2, Absent DEF Idle, Holder, Inside, Uses
  <2>3. CASE c = turn.cmd /\ handler[c].pc \notin Idle
    <3>1. /\ handler'[c].pc = handler[c].pc /\ (handler'[c].kind = "tab") = (handler[c].kind = "tab")
          /\ handler'[c].dead = handler[c].dead /\ handler'[c].call = handler[c].call
      BY <2>1, <2>3, RemnantEffect
    <3> QED BY <2>1, <3>1 DEF Holder, Uses
  <2> QED BY <1>0, <2>1, <2>2, <2>3 DEF Others
<1>5. ASSUME NEW d \in Cmd, HandlerStep(d)
      PROVE  Goal
  <2>1. handler[d].pc \in Working /\ (Over(d) \/ Went(d) \/ Starts(d)) /\ owner' = owner
    BY <1>5, HandlerEffect DEF chrome
  <2>2. CASE c # d
    <3>1. handler'[c] = handler[c] /\ session' \in {0, session}
      BY <1>t, <2>1, <2>2 DEF Over, Went, Starts, Others
    <3> QED BY <1>0, <3>1
  <2>3. CASE c = d /\ Over(c)
    BY <1>x, <2>1, <2>3, Absent DEF Over, Working, Holder, Uses, Inside
  <2>4. CASE c = d /\ Went(c)
    <3>1. Holder(handler'[c]) => Holder(handler[c])
      BY <2>4 DEF Went, Holder
    <3>2. Uses(handler'[c]) => Uses(handler[c]) \/ (owner # 0 /\ owner' = owner /\ Holder(handler[c]))
      BY <2>1, <2>4 DEF Went, Holder, Uses, live, Inside
    <3>3. session = c => session' = c /\ Holder(handler'[c])
      BY <1>s, <2>4 DEF Went, Holder, Inside
    <3> QED BY <3>1, <3>2, <3>3
  <2>5. CASE c = d /\ Starts(c)
    <3>1. handler'[c].pc = "attaching" /\ handler'[c].kind = handler[c].kind /\ handler'[c].call = handler[c].call
          /\ session # c
      BY <1>t, <1>s, <2>5, Constants DEF Starts, Handler
    <3> QED BY <3>1 DEF Holder, Uses, Inside
  <2> QED BY <2>1, <2>2, <2>3, <2>4, <2>5
<1>6. ASSUME NEW d \in Cmd, Lands(d)
      PROVE  Goal
  <2>1. handler' = [handler EXCEPT ![d] = [handler[d] EXCEPT !.call = "landed"]] /\ session' = session
    BY <1>6, <1>t DEF Lands, tabs
  <2>2. /\ handler'[c].pc = handler[c].pc /\ handler'[c].kind = handler[c].kind /\ handler'[c].dead = handler[c].dead
        /\ handler'[c].call \in {"landed", handler[c].call}
    BY <1>t, <2>1 DEF Handler
  <2> QED BY <1>s, <2>1, <2>2 DEF Holder, Uses
<1>7. CASE ServeDetach \/ Dismiss
  <2>1. /\ handler'[c].pc = handler[c].pc /\ handler'[c].kind = handler[c].kind /\ handler'[c].dead = handler[c].dead
        /\ (handler'[c].call = "pending" => handler'[c].kind = "tab") /\ session' = session
    BY <1>7, CutOffEffect DEF ServeDetach, Dismiss, tabs
  <2> QED BY <1>s, <2>1 DEF Holder, Uses
<1>8. CASE HearAttach
  <2> DEFINE b == replies[1].by
  <2>1. /\ b \in Cmd /\ handler[b].pc = "attaching" /\ replies # <<>> /\ replies' = Tail(replies) /\ session # b
        /\ UNCHANGED <<owner, turn, undercut>>
        /\ \/ handler' = [handler EXCEPT ![b] = [handler[b] EXCEPT !.pc = "bind"]] /\ Adopts(b)
           \/ /\ session' = session
              /\ \E e \in Error : handler' = [handler EXCEPT ![b] = [handler[b] EXCEPT !.pc = "dropping", !.err = e]]
           \/ session' = session /\ Over(b)
    BY <1>8, HearAttachEffect DEF Over, Adopts, chain, history
  <2>z. session # 0 /\ session' # session => FALSE
    BY <2>1 DEF Adopts
  <2> HIDE DEF b
  <2>2. CASE c # b
    <3>1. handler'[c] = handler[c]
      BY <1>t, <2>1, <2>2 DEF Over, Others
    <3>2. session = c => session' = session
      BY <2>z, Constants
    <3> QED BY <1>s, <3>1, <3>2, Constants
  <2>3. CASE c = b
    <3>1. CASE handler' = [handler EXCEPT ![b] = [handler[b] EXCEPT !.pc = "bind"]] /\ Adopts(b)
      <4>1. handler'[c].call = handler[c].call /\ handler'[c].kind = handler[c].kind
        BY <1>t, <2>3, <3>1 DEF Handler
      <4> QED BY <2>1, <2>3, <3>1, <4>1 DEF Uses
    <3>2. ASSUME NEW e \in Error, handler' = [handler EXCEPT ![b] = [handler[b] EXCEPT !.pc = "dropping", !.err = e]]
          PROVE  Goal
      <4>1. /\ [handler[c] EXCEPT !.pc = "dropping", !.err = e].pc = "dropping"
            /\ [handler[c] EXCEPT !.pc = "dropping", !.err = e].call = handler[c].call
            /\ [handler[c] EXCEPT !.pc = "dropping", !.err = e].kind = handler[c].kind
        BY <1>t DEF Handler
      <4>2. handler'[c] = [handler[c] EXCEPT !.pc = "dropping", !.err = e]
        BY <1>t, <2>3, <3>2
      <4> QED BY <2>1, <2>3, <4>1, <4>2 DEF Holder, Inside, Uses
    <3>3. CASE Over(b)
      BY <1>x, <2>1, <2>3, <3>3, Absent DEF Over, Holder, Inside, Uses
    <3> QED BY <2>1, <3>1, <3>2, <3>3
  <2> QED BY <2>2, <2>3
<1>9. CASE HearDetach
  <2> DEFINE b == replies[1].by
  <2>1. /\ session' = session
        /\ \/ UNCHANGED handler
           \/ b \in Cmd /\ Others(b) /\ ((handler'[b].pc = "settled" /\ handler'[b].call = "none") \/ handler'[b] = NoHandler)
              /\ handler[b].pc \in {"leaving", "dropping"}
    BY <1>9, HearDetachEffect
  <2> HIDE DEF b
  <2>2. CASE c # b \/ UNCHANGED handler
    <3>1. handler'[c] = handler[c]
      BY <2>1, <2>2 DEF Others
    <3> QED BY <1>0, <2>1, <3>1
  <2>3. CASE c = b /\ ~UNCHANGED handler
    BY <1>x, <1>s, <2>1, <2>3, Absent DEF Holder, Uses, Inside
  <2> QED BY <2>2, <2>3
<1>10. CASE ServeAttach \/ HearGone \/ HearChange \/ \E what \in {"pause", "resume", "settings"} : Change(what)
  <2>1. handler' = handler /\ session' \in {0, session}
    BY <1>10 DEF ServeAttach, HearGone, HearChange, Change, handlers, Release, tabs
  <2> QED BY <1>0, <2>1
<1> QED BY <1>1, <1>2, <1>3, <1>4, <1>5, <1>6, <1>7, <1>8, <1>9, <1>10 DEF Next, ChainStep, ChromeStep

\* No call goes on through a debugger that closed.
LEMMA CutOffIdle ==
  ASSUME TypeOK, ServeDetach \/ Dismiss, NEW c \in Cmd
  PROVE  ~Uses(handler'[c])
<1>1. handler'[c] = cutOff[c]
  BY DEF ServeDetach, Dismiss
<1> QED BY <1>1, CutOffEffect DEF Uses

\* Whose session it is after a step.
LEMMA SessionEffect ==
  ASSUME TypeOK, Bounds, TabInv, Next
  PROVE  session' # 0 => (session' = session /\ session \in Cmd /\ Holder(handler[session]) /\ Holder(handler'[session]))
                         \/ (session' \in Cmd /\ Adopts(session') /\ Holder(handler'[session']))
<1>1. ASSUME session # 0, session' # 0
      PROVE  session' = session /\ session \in Cmd /\ Holder(handler[session]) /\ Holder(handler'[session])
  <2>1. session \in Cmd /\ Holder(handler[session])
    BY <1>1, Current DEF TabInv, holds, Holder
  <2> QED BY <1>1, <2>1, HolderEffect
<1>2. ASSUME session = 0, session' # 0
      PROVE  session' \in Cmd /\ Adopts(session') /\ Holder(handler'[session'])
  <2>1. HearAttach
    BY <1>2, QueueEffect DEF GivesUp, Starts, ServeAttach, ServeDetach, Dismiss, HearDetach, HearGone, tabs
  <2> DEFINE b == replies[1].by
  <2>2. /\ b \in Cmd /\ handler[b].pc = "attaching" /\ handler[b].kind # "tab"
        /\ session' = b /\ Adopts(b) /\ handler' = [handler EXCEPT ![b] = [handler[b] EXCEPT !.pc = "bind"]]
    BY <1>2, <2>1, HearAttachEffect DEF TabInv, Over, Adopts, chain, history
  <2>3. Holder(handler'[b])
    <3>1. handler'[b].pc = "bind" /\ handler'[b].kind = handler[b].kind /\ handler'[b].dead = handler[b].dead
      BY <2>2, TabTypes DEF Handler
    <3> QED BY <2>2, <3>1 DEF Holder, Inside, Adopts, live
  <2> QED BY <2>2, <2>3
<1> QED BY <1>1, <1>2
-----------------------------------------------------------------------------
(* What lies between the session and Chrome *)

\* No attach is under way.
Clear(q, p) == (\A i \in DOMAIN q : q[i].op # "attach") /\ \A i \in DOMAIN p : p[i].op \notin answer

\* Detaches nobody of the handlers asked for lie before every attach.
Behind(q, p) ==
  \A i \in DOMAIN q : q[i].op = "detach" /\ q[i].by \notin Cmd =>
    (\A j \in DOMAIN q : q[j].op = "attach" => i < j) /\ \A j \in DOMAIN p : p[j].op \notin answer

\* No attach is under way until one is asked for.
LEMMA ClearKept ==
  ASSUME NEW q \in Seq(Request), NEW p \in Seq(Reply), Clear(q, p)
  PROVE  /\ \A x \in Request : x.op # "attach" => Clear(Append(q, x), p)
         /\ \A x \in Reply : x.op \notin answer => Clear(q, Append(p, x))
         /\ q # <<>> => q[1].op # "attach" /\ Clear(Tail(q), p)
         /\ p # <<>> => p[1].op \notin answer /\ Clear(q, Tail(p))
<1>1. ASSUME NEW x \in Request, x.op # "attach"
      PROVE  Clear(Append(q, x), p)
  BY <1>1, Grown DEF Clear
<1>2. ASSUME NEW x \in Reply, x.op \notin answer
      PROVE  Clear(q, Append(p, x))
  BY <1>2, Grown DEF Clear
<1>3. ASSUME q # <<>>
      PROVE  q[1].op # "attach" /\ Clear(Tail(q), p)
  BY <1>3, Shrunk DEF Clear
<1>4. ASSUME p # <<>>
      PROVE  p[1].op \notin answer /\ Clear(q, Tail(p))
  BY <1>4, Shrunk DEF Clear
<1> QED BY <1>1, <1>2, <1>3, <1>4

\* Such detaches stay ahead of the attaches.
LEMMA BehindKept ==
  ASSUME NEW q \in Seq(Request), NEW p \in Seq(Reply), Behind(q, p)
  PROVE  /\ \A x \in Request : x.op = "attach" \/ x.by \in Cmd \/ Clear(q, p) => Behind(Append(q, x), p)
         /\ \A x \in Reply : x.op \notin answer => Behind(q, Append(p, x))
         /\ q # <<>> => Behind(Tail(q), p)
         /\ q # <<>> /\ q[1].op = "attach" => \A x \in Reply : Behind(Tail(q), Append(p, x))
         /\ q # <<>> => \A x \in Reply : x.op \notin answer => Behind(Tail(q), Append(p, x))
         /\ p # <<>> => Behind(q, Tail(p))
         /\ p # <<>> /\ p[1].op \in answer => \A i \in DOMAIN q : q[i].op = "detach" => q[i].by \in Cmd
<1>q. DOMAIN q \subseteq Nat /\ Len(q) \in Nat
  OBVIOUS
<1>1. ASSUME NEW x \in Request, x.op = "attach" \/ x.by \in Cmd \/ Clear(q, p)
      PROVE  Behind(Append(q, x), p)
  <2> DEFINE t == Append(q, x)
  <2>1. \A i \in DOMAIN t : (i \in DOMAIN q /\ t[i] = q[i] /\ i < Len(q) + 1) \/ (i = Len(q) + 1 /\ t[i] = x)
    BY <1>q, Grown
  <2> SUFFICES ASSUME NEW i \in DOMAIN t, t[i].op = "detach", t[i].by \notin Cmd
               PROVE  (\A j \in DOMAIN t : t[j].op = "attach" => i < j) /\ \A j \in DOMAIN p : p[j].op \notin answer
    BY DEF Behind
  <2> HIDE DEF t
  <2>2. CASE i \in DOMAIN q /\ t[i] = q[i] /\ i < Len(q) + 1
    BY <2>1, <2>2 DEF Behind
  <2>3. CASE i = Len(q) + 1 /\ t[i] = x
    <3>1. x.op = "detach" /\ Clear(q, p)
      BY <1>1, <2>3
    <3> QED BY <2>1, <2>3, <3>1 DEF Clear
  <2> QED BY <2>1, <2>2, <2>3
<1>2. ASSUME NEW x \in Reply, x.op \notin answer, NEW t, Behind(t, p)
      PROVE  Behind(t, Append(p, x))
  BY <1>2, Grown DEF Behind
<1>3. ASSUME q # <<>>
      PROVE  Behind(Tail(q), p)
  <2> DEFINE t == Tail(q)
  <2>1. \A i \in DOMAIN t : i + 1 \in DOMAIN q /\ t[i] = q[i + 1] /\ i \in Nat
    BY <1>3, Shrunk
  <2> HIDE DEF t
  <2>2. Behind(t, p)
    BY <2>1 DEF Behind
  <2> QED BY <2>2 DEF t
<1>4. ASSUME q # <<>>, q[1].op = "attach", NEW x \in Reply
      PROVE  Behind(Tail(q), Append(p, x))
  <2> DEFINE t == Tail(q)
  <2>1. 1 \in DOMAIN q /\ \A i \in DOMAIN t : i + 1 \in DOMAIN q /\ t[i] = q[i + 1] /\ i \in Nat /\ ~(i + 1 < 1)
    BY <1>4, Shrunk
  <2> HIDE DEF t
  <2>2. \A i \in DOMAIN t : ~(t[i].op = "detach" /\ t[i].by \notin Cmd)
    BY <1>4, <2>1 DEF Behind
  <2>3. Behind(t, Append(p, x))
    BY <2>2 DEF Behind
  <2> QED BY <2>3 DEF t
<1>5. ASSUME p # <<>>
      PROVE  Behind(q, Tail(p)) /\ (p[1].op \in answer => \A i \in DOMAIN q : q[i].op = "detach" => q[i].by \in Cmd)
  BY <1>5, Shrunk DEF Behind
<1> QED BY <1>1, <1>2, <1>3, <1>4, <1>5

\* What Session says of the queues, as predicates.
LEMMA SessionFacts ==
  ASSUME TypeOK, Bounds, TabInv
  PROVE  /\ calls \in Seq(Request) /\ replies \in Seq(Reply)
         /\ Behind(calls, replies)
         /\ \A c \in Cmd : Holder(handler[c]) => Clear(calls, replies)
         /\ session # 0 => session \in Cmd /\ Holder(handler[session]) /\ Clear(calls, replies)
                           /\ \A i \in DOMAIN calls : calls[i].op = "detach" => calls[i].by \in Cmd
         /\ \A c \in Cmd : Holder(handler[c]) => c = turn.cmd
<1>1. \A c \in Cmd : Holder(handler[c]) => Clear(calls, replies)
  BY DEF TabInv, Session, Holder, holds, Clear, asks, hears, answer
<1>2. Behind(calls, replies)
  BY DEF TabInv, Session, Behind, asks, hears, drops, answer
<1>3. session # 0 => session \in Cmd /\ Holder(handler[session])
                     /\ \A i \in DOMAIN calls : calls[i].op = "detach" => calls[i].by \in Cmd
  BY DEF TabInv, Session, Holder, holds, drops
<1>4. \A c \in Cmd : Holder(handler[c]) => c = turn.cmd
  BY DEF TabInv, Turns, Holder, Inside, Idle
<1> QED BY <1>1, <1>2, <1>3, <1>4, TabTypes

\* Once the answer to an attach is taken nothing is behind it.
LEMMA AdoptsClear ==
  ASSUME TypeOK, Bounds, TabInv, NEW c \in Cmd, Adopts(c)
  PROVE  Clear(calls, replies') /\ c = turn.cmd /\ \A i \in DOMAIN calls : calls[i].op = "detach" => calls[i].by \in Cmd
<1>1. c = turn.cmd /\ turn.cmd \in Nat
  BY Current, TurnFacts DEF TabInv, Adopts, Idle
<1>2. \A d \in attaching : d \in Nat /\ ~(c < d)
  <2> SUFFICES ASSUME NEW d \in Cmd, handler[d].pc = "attaching"
               PROVE  d \in Nat /\ ~(c < d)
    BY DEF attaching
  <2>1. d <= turn.cmd /\ d \in Nat
    BY TurnFacts DEF TabInv
  <2> QED BY <1>1, <2>1
<1>3. InLine(calls, replies, attaching) /\ calls \in Seq(Request) /\ replies \in Seq(Reply)
  BY AttachesInLine, TabTypes DEF TabInv
<1>4. /\ 1 \in DOMAIN replies /\ replies[1].op \in answer /\ replies[1].by = c
      /\ \A i \in DOMAIN replies' : i + 1 \in DOMAIN replies /\ 1 < i + 1 /\ replies'[i] = replies[i + 1]
  BY <1>3, Shrunk DEF Adopts, answer
<1>5. \A i \in DOMAIN calls : calls[i].op # "attach"
  BY <1>2, <1>3, <1>4 DEF InLine
<1>6. \A i \in DOMAIN replies' : replies'[i].op \notin answer
  <2> SUFFICES ASSUME NEW i \in DOMAIN replies', replies'[i].op \in answer
               PROVE  FALSE
    OBVIOUS
  <2>1. replies[i + 1].op \in answer /\ i + 1 \in DOMAIN replies /\ 1 < i + 1
    BY <1>4
  <2>2. c < replies[i + 1].by /\ replies[i + 1].by \in attaching
    BY <1>3, <1>4, <2>1 DEF InLine
  <2> QED BY <1>2, <2>2
<1>7. \A i \in DOMAIN calls : calls[i].op = "detach" => calls[i].by \in Cmd
  BY <1>3, <1>4, SessionFacts, BehindKept DEF Adopts
<1> QED BY <1>1, <1>5, <1>6, <1>7 DEF Clear

\* Only a holder's own turn lets it start a call.
LEMMA NoStarts ==
  ASSUME TypeOK, Bounds, TabInv, NEW c \in Cmd, Starts(c)
  PROVE  \A d \in Cmd : ~Holder(handler[d])
<1>1. c = turn.cmd /\ handler[c].pc = "attach"
  BY Current DEF TabInv, Starts, Idle
<1> QED BY <1>1, SessionFacts DEF Holder, Inside

\* Every step keeps what Session says.
LEMMA SessionKept ==
  ASSUME TypeOK, Bounds, TabInv, Next
  PROVE  Session'
<1>t. /\ calls \in Seq(Request) /\ replies \in Seq(Reply) /\ Behind(calls, replies)
      /\ \A c \in Cmd : Holder(handler[c]) => Clear(calls, replies)
      /\ session # 0 => session \in Cmd /\ Holder(handler[session]) /\ Clear(calls, replies)
                           /\ \A i \in DOMAIN calls : calls[i].op = "detach" => calls[i].by \in Cmd
  BY SessionFacts
<1>1. session' # 0 => session' \in Cmd /\ Holder(handler'[session'])
  BY SessionEffect
<1>2. ASSUME NEW c \in Cmd, Holder(handler'[c])
      PROVE  Clear(calls', replies')
  <2>1. CASE Adopts(c)
    <3>1. calls' = calls /\ Clear(calls, replies')
      BY <2>1, AdoptsClear DEF Adopts
    <3> QED BY <3>1
  <2>2. CASE Holder(handler[c])
    <3>1. Clear(calls, replies)
      BY <1>t, <2>2
    <3>2. ASSUME NEW d \in Cmd, Starts(d)
          PROVE  FALSE
      BY <2>2, <3>2, NoStarts
    <3>3. ASSUME NEW b \in 0 .. NoOne, calls' = Append(calls, [op |-> "detach", by |-> b]), [op |-> "detach", by |-> b] \in Request,
                 NEW r, Clear(calls, r), r \in Seq(Reply)
          PROVE  Clear(calls', r)
      BY <1>t, <3>3, ClearKept
    <3>4. ASSUME NEW x \in Reply, calls # <<>>, calls' = Tail(calls), replies' = Append(replies, x),
                 (calls[1].op = "attach" /\ x.op \in {"attach", "refused"}) \/ x.op = "detach"
          PROVE  Clear(calls', replies')
      <4>1. calls[1].op # "attach" /\ x.op \notin answer
        BY <1>t, <3>1, <3>4, ClearKept DEF answer
      <4>2. Clear(calls, replies') /\ replies' \in Seq(Reply)
        BY <1>t, <3>1, <3>4, <4>1, ClearKept, Appended
      <4> QED BY <1>t, <3>4, <4>2, ClearKept
    <3>5. ASSUME calls' = calls, replies' = Append(replies, [op |-> "gone", by |-> NoOne]), [op |-> "gone", by |-> NoOne] \in Reply
          PROVE  Clear(calls', replies')
      BY <1>t, <3>1, <3>5, ClearKept DEF answer
    <3>6. ASSUME replies # <<>>, replies' = Tail(replies)
          PROVE  Clear(calls, replies') /\ replies' \in Seq(Reply)
      BY <1>t, <3>1, <3>6, ClearKept, Popped
    <3> QED
      <4>1. CASE calls' = calls /\ replies' = replies
        BY <3>1, <4>1
      <4>2. CASE replies # <<>> /\ replies' = Tail(replies) /\ calls' = calls
        BY <3>6, <4>2
      <4>3. CASE replies # <<>> /\ replies' = Tail(replies) /\ calls' = Append(calls, [op |-> "detach", by |-> replies[1].by])
                 /\ [op |-> "detach", by |-> replies[1].by] \in Request
        <5>1. replies[1].by \in 0 .. NoOne
          BY <4>3 DEF Request
        <5> QED BY <3>3, <3>6, <4>3, <5>1
      <4>4. ASSUME NEW b \in 0 .. NoOne, calls' = Append(calls, [op |-> "detach", by |-> b]), [op |-> "detach", by |-> b] \in Request,
                   replies' = replies
            PROVE  Clear(calls', replies')
        BY <1>t, <3>1, <3>3, <4>4
      <4> QED BY <3>2, <3>4, <3>5, <4>1, <4>2, <4>3, <4>4, Shapes
  <2> QED BY <1>2, <2>1, <2>2, HolderEffect
<1>3. session' # 0 => \A i \in DOMAIN calls' : calls'[i].op = "detach" => calls'[i].by \in Cmd
  <2> SUFFICES ASSUME session' # 0
               PROVE  \A i \in DOMAIN calls' : calls'[i].op = "detach" => calls'[i].by \in Cmd
    OBVIOUS
  <2>1. CASE session' \in Cmd /\ Adopts(session')
    <3>1. calls' = calls
      BY <2>1 DEF Adopts
    <3> QED BY <2>1, <3>1, AdoptsClear
  <2>2. CASE session' = session
    <3>1. session # 0 /\ Clear(calls, replies) /\ \A i \in DOMAIN calls : calls[i].op = "detach" => calls[i].by \in Cmd
      BY <1>t, <2>2
    <3>2. \A b \in 0 .. NoOne : ~GivesUp(b)
      BY <2>2, <3>1 DEF GivesUp
    <3>3. ASSUME NEW c \in Cmd, calls' = Append(calls, [op |-> "attach", by |-> c]), [op |-> "attach", by |-> c] \in Request
          PROVE  \A i \in DOMAIN calls' : calls'[i].op = "detach" => calls'[i].by \in Cmd
      BY <1>t, <3>1, <3>3, Grown
    <3>4. ASSUME calls # <<>>, calls' = Tail(calls)
          PROVE  \A i \in DOMAIN calls' : calls'[i].op = "detach" => calls'[i].by \in Cmd
      BY <1>t, <3>1, <3>4, Shrunk
    <3>5. ~HearAttach
      BY <1>t, <3>1, HearAttachEffect DEF TabInv, Clear, hears, answer
    <3> QED BY <3>1, <3>2, <3>3, <3>4, <3>5, Shapes
  <2> QED BY <2>1, <2>2, SessionEffect
<1>4. Behind(calls', replies')
  <2>1. ASSUME NEW b \in 0 .. NoOne, GivesUp(b), calls' = Append(calls, [op |-> "detach", by |-> b]),
               [op |-> "detach", by |-> b] \in Request, replies' = replies
        PROVE  Behind(calls', replies')
    <3>1. Clear(calls, replies)
      BY <1>t, <2>1 DEF GivesUp
    <3> QED BY <1>t, <2>1, <3>1, BehindKept
  <2>2. ASSUME NEW c \in Cmd, calls' = Append(calls, [op |-> "attach", by |-> c]), [op |-> "attach", by |-> c] \in Request,
               replies' = replies
        PROVE  Behind(calls', replies')
    BY <1>t, <2>2, BehindKept
  <2>3. ASSUME NEW x \in Reply, calls # <<>>, calls' = Tail(calls), replies' = Append(replies, x),
               (calls[1].op = "attach" /\ x.op \in {"attach", "refused"}) \/ x.op = "detach"
        PROVE  Behind(calls', replies')
    BY <1>t, <2>3, BehindKept DEF answer
  <2>4. ASSUME calls' = calls, replies' = Append(replies, [op |-> "gone", by |-> NoOne]), [op |-> "gone", by |-> NoOne] \in Reply
        PROVE  Behind(calls', replies')
    BY <1>t, <2>4, BehindKept DEF answer
  <2>5. ASSUME replies # <<>>, replies' = Tail(replies)
        PROVE  Behind(calls, replies') /\ replies' \in Seq(Reply)
    BY <1>t, <2>5, BehindKept, Popped
  <2>6. ASSUME HearAttach, replies # <<>>, replies' = Tail(replies), calls' = Append(calls, [op |-> "detach", by |-> replies[1].by]),
               [op |-> "detach", by |-> replies[1].by] \in Request
        PROVE  Behind(calls', replies')
    <3>1. replies[1].by \in Cmd
      BY <2>6, HearAttachEffect DEF TabInv
    <3> QED BY <1>t, <2>5, <2>6, <3>1, BehindKept
  <2>7. ASSUME replies # <<>>, replies' = Tail(replies), calls' = calls
        PROVE  Behind(calls', replies')
    BY <2>5, <2>7
  <2>8. ASSUME UNCHANGED <<calls, replies>>
        PROVE  Behind(calls', replies')
    BY <1>t, <2>8
  <2> QED BY <2>1, <2>2, <2>3, <2>4, <2>6, <2>7, <2>8, Shapes
<1>5. \A c \in Cmd : holds(c)' => (\A i \in DOMAIN calls' : ~asks(i)') /\ (\A i \in DOMAIN replies' : ~hears(i)')
  BY <1>2 DEF Clear, asks, hears, answer, holds, Holder
<1>6. session' # 0 => session' \in Cmd /\ holds(session)'
  BY <1>1 DEF holds, Holder
<1>7. session' # 0 => \A i \in DOMAIN calls' : drops(i)' => calls'[i].by \in Cmd
  BY <1>3 DEF drops
<1>8. \A i \in DOMAIN calls' : drops(i)' /\ calls'[i].by \notin Cmd =>
       (\A j \in DOMAIN calls' : asks(j)' => i < j) /\ \A j \in DOMAIN replies' : ~hears(j)'
  BY <1>4 DEF Behind, drops, asks, hears, answer
<1> QED BY <1>5, <1>6, <1>7, <1>8 DEF Session

\* The detach runCommand waits for stays on its way until it is heard.
LEMMA ChainGoesOnKept ==
  ASSUME TypeOK, Bounds, TabInv, Next
  PROVE  ChainGoesOn'
<1> DEFINE x == [op |-> "detach", by |-> Chain]
           Pending(q, p) == (\E i \in DOMAIN q : q[i] = x) \/ \E i \in DOMAIN p : p[i] = x
<1>t. calls \in Seq(Request) /\ replies \in Seq(Reply)
  BY TabTypes
<1> SUFFICES ASSUME turn'.at = "releasing"
             PROVE  Pending(calls', replies')
  BY DEF ChainGoesOn
<1>1. ASSUME NEW b \in 0 .. NoOne, GivesUp(b), b = Chain, calls' = Append(calls, [op |-> "detach", by |-> b]),
             [op |-> "detach", by |-> b] \in Request
      PROVE  Pending(calls', replies')
  BY <1>t, <1>1, Grown
<1>2. \/ turn.at = "releasing" /\ ~(HearDetach /\ replies[1] = x)
      \/ \E b \in 0 .. NoOne : GivesUp(b) /\ b = Chain
  <2>1. CASE HearDetach
    <3>1. turn.at = "releasing"
      BY <2>1, HearDetachEffect DEF TabInv, TypeOK
    <3>2. replies[1] # x
      <4>1. turn \in [cmd : 0 .. MaxCmd, at : {"idle", "taken", "running", "confirming", "releasing", "sending"}]
        BY DEF TypeOK
      <4>2. replies[1] = x => replies[1].by = Chain
        OBVIOUS
      <4>3. replies[1].by = Chain => turn' = [turn EXCEPT !.at = "sending"]
        <5>1. Chain # NoOne /\ Chain \notin Cmd
          BY Constants DEF Chain, NoOne
        <5> QED BY <2>1, <5>1, HearDetachEffect DEF TabInv
      <4> QED BY <4>1, <4>2, <4>3
    <3> QED BY <3>1, <3>2
  <2>2. CASE ~HearDetach
    BY <2>2, QueueEffect DEF GivesUp, ServeAttach, ServeDetach, Dismiss, HearAttach, HearGone, chain
  <2> QED BY <2>1, <2>2
<1>3. CASE turn.at = "releasing" /\ ~(HearDetach /\ replies[1] = x)
  <2>1. Pending(calls, replies)
    BY <1>3 DEF TabInv, ChainGoesOn
  <2>2. ASSUME NEW y \in Request, calls' = Append(calls, y), NEW r, Pending(calls, r)
        PROVE  Pending(calls', r)
    BY <1>t, <2>2, Grown
  <2>3. ASSUME NEW y \in Reply, calls # <<>>, calls' = Tail(calls), replies' = Append(replies, y), y.by = calls[1].by,
               (ServeAttach /\ calls[1].op = "attach" /\ y.op \in {"attach", "refused"})
               \/ (ServeDetach /\ calls[1].op = "detach" /\ y.op = "detach")
        PROVE  Pending(calls', replies')
    <3>1. \A i \in DOMAIN calls : i = 1 \/ (i - 1 \in DOMAIN calls' /\ calls'[i - 1] = calls[i])
      BY <1>t, <2>3, Shrunk
    <3>2. (\A i \in DOMAIN replies : i \in DOMAIN replies' /\ replies'[i] = replies[i])
          /\ Len(replies) + 1 \in DOMAIN replies' /\ replies'[Len(replies) + 1] = y
      BY <1>t, <2>3, Grown
    <3>3. calls[1] = x => y = x
      BY <2>3 DEF Reply
    <3> QED BY <2>1, <3>1, <3>2, <3>3
  <2>4. ASSUME NEW y \in Reply, replies' = Append(replies, y), calls' = calls
        PROVE  Pending(calls', replies')
    <3>1. \A i \in DOMAIN replies : i \in DOMAIN replies' /\ replies'[i] = replies[i]
      BY <1>t, <2>4, Grown
    <3> QED BY <2>1, <2>4, <3>1
  <2>5. ASSUME replies # <<>>, replies' = Tail(replies), replies[1] # x
        PROVE  Pending(calls, replies')
    <3>1. \A i \in DOMAIN replies : i = 1 \/ (i - 1 \in DOMAIN replies' /\ replies'[i - 1] = replies[i])
      BY <1>t, <2>5, Shrunk
    <3> QED BY <2>1, <2>5, <3>1
  <2>6. ASSUME HearAttach \/ HearDetach \/ (HearGone /\ replies[1].op = "gone")
        PROVE  replies[1] # x
    <3>1. HearAttach => replies[1].op # "detach"
      BY HearAttachEffect DEF TabInv, hears
    <3> QED BY <1>3, <2>6, <3>1
  <2> HIDE DEF Pending, x
  <2>7. ASSUME UNCHANGED <<calls, replies>>
        PROVE  Pending(calls', replies')
    BY <2>1, <2>7
  <2>8. ASSUME NEW y \in Request, calls' = Append(calls, y), replies' = replies
        PROVE  Pending(calls', replies')
    BY <2>1, <2>2, <2>8
  <2>9. ASSUME replies # <<>>, replies' = Tail(replies), calls' = calls, HearAttach \/ HearDetach \/ (HearGone /\ replies[1].op = "gone")
        PROVE  Pending(calls', replies')
    BY <2>5, <2>6, <2>9
  <2>10. ASSUME NEW y \in Request, replies # <<>>, replies' = Tail(replies), HearAttach, calls' = Append(calls, y)
         PROVE  Pending(calls', replies')
    BY <2>2, <2>5, <2>6, <2>10
  <2> QED BY <2>3, <2>4, <2>7, <2>8, <2>9, <2>10, Shapes
<1>4. ASSUME NEW b \in 0 .. NoOne, GivesUp(b), b = Chain
      PROVE  Pending(calls', replies')
  <2>1. calls' = Append(calls, [op |-> "detach", by |-> b]) /\ [op |-> "detach", by |-> b] \in Request
    BY <1>4 DEF GivesUp, Call, Request
  <2> QED BY <1>1, <1>4, <2>1
<1> QED BY <1>2, <1>3, <1>4

\* Who has the debugger changes only when Chrome serves a call or closes it.
LEMMA OwnerEffect ==
  ASSUME TypeOK, Bounds, TabInv, Next
  PROVE  /\ turn'.cmd \in Nat /\ turn.cmd \in Nat /\ turn.cmd <= turn'.cmd
         /\ undercut \subseteq undercut'
         /\ \/ owner' = owner
            \/ ServeAttach /\ owner = 0 /\ owner' = calls[1].by /\ owner' \in attaching
               /\ replies' = Append(replies, [op |-> "attach", by |-> owner']) /\ undercut' = undercut
            \/ (ServeDetach \/ Dismiss) /\ owner' = 0
<1>t. calls \in Seq(Request) /\ (calls # <<>> => Head(calls) = calls[1] /\ 1 \in DOMAIN calls)
  BY TabTypes, Shrunk
<1>1. turn'.cmd \in Nat /\ turn.cmd \in Nat /\ turn.cmd <= turn'.cmd
  <2>0. turn.cmd \in Nat /\ turn \in [cmd : 0 .. MaxCmd, at : {"idle", "taken", "running", "confirming", "releasing", "sending"}]
    BY DEF TypeOK
  <2>1. ASSUME NEW kind \in {"tab", "plain", "workflow"}, Take(kind)
        PROVE  turn'.cmd = turn.cmd + 1
    BY <2>1 DEF Take
  <2>2. ASSUME RunCommand
        PROVE  turn'.cmd = turn.cmd
    BY <2>0, <2>2 DEF RunCommand
  <2>3. ASSUME RaceSettles \/ Confirm \/ Timeout
        PROVE  turn'.cmd = turn.cmd
    BY <2>3, ChainEffect DEF TabInv
  <2>4. ASSUME Send
        PROVE  turn'.cmd = turn.cmd
    BY <2>0, <2>4 DEF Send
  <2>5. ASSUME NEW c \in Cmd, HandlerStep(c) \/ Lands(c)
        PROVE  turn' = turn
    BY <2>5, HandlerEffect DEF Lands, chain, TabInv
  <2>6. ASSUME HearDetach
        PROVE  turn'.cmd = turn.cmd
    BY <2>0, <2>6, HearDetachEffect DEF TabInv
  <2>7. ASSUME ServeAttach \/ ServeDetach \/ Dismiss \/ HearAttach \/ HearGone \/ HearChange
               \/ \E what \in {"pause", "resume", "settings"} : Change(what)
        PROVE  turn' = turn
    BY <2>7 DEF ServeAttach, ServeDetach, Dismiss, HearAttach, HearGone, HearChange, Change, chain
  <2> QED BY <2>0, <2>1, <2>2, <2>3, <2>4, <2>5, <2>6, <2>7 DEF Next, ChainStep, ChromeStep
<1>2. CASE ServeAttach
  <2>1. calls[1].by \in attaching
    BY <1>t, <1>2, AttachesInLine DEF ServeAttach, InLine, TabInv
  <2> QED BY <1>t, <1>1, <1>2, <2>1 DEF ServeAttach, Answer, history
<1>3. CASE ServeDetach \/ Dismiss
  BY <1>1, <1>3 DEF ServeDetach, Dismiss
<1>4. CASE HearAttach \/ HearDetach \/ HearGone
  BY <1>1, <1>4 DEF HearAttach, HearDetach, HearGone, history
<1>5. CASE owner' = owner /\ undercut' = undercut
  BY <1>1, <1>5
<1> QED BY <1>2, <1>3, <1>4, <1>5, QueueEffect

\* The owner is known to the worker, will be, or is about to go.
Known(q, p, o, s) ==
  o # 0 => (\E i \in DOMAIN p : p[i] = [op |-> "attach", by |-> o]) \/ s = o \/ \E i \in DOMAIN q : q[i].op = "detach"

\* Every step keeps that the owner is known, will be, or is about to go.
LEMMA KnownKept ==
  ASSUME TypeOK, Bounds, TabInv, Next
  PROVE  Known(calls', replies', owner', session')
<1> DEFINE own == [op |-> "attach", by |-> owner]
<1>t. calls \in Seq(Request) /\ replies \in Seq(Reply)
  BY TabTypes
<1>0. Known(calls, replies, owner, session) /\ (owner # 0 => \A i \in DOMAIN replies : replies[i].op = "gone" =>
        \E j \in DOMAIN replies : i < j /\ replies[j] = own)
  BY DEF TabInv, Debugger, Known, drops, gone
<1>g. ASSUME NEW y \in Request, calls' = Append(calls, y)
      PROVE  /\ y.op = "detach" => \E i \in DOMAIN calls' : calls'[i].op = "detach"
             /\ (\E i \in DOMAIN calls : calls[i].op = "detach") => \E i \in DOMAIN calls' : calls'[i].op = "detach"
  <2>1. \A i \in DOMAIN calls : i \in DOMAIN calls' /\ calls'[i] = calls[i]
    BY <1>t, <1>g, Grown
  <2>2. Len(calls) + 1 \in DOMAIN calls' /\ calls'[Len(calls) + 1] = y
    BY <1>t, <1>g, Grown
  <2> QED BY <2>1, <2>2
<1>1. ASSUME NEW b \in 0 .. NoOne, calls' = Append(calls, [op |-> "detach", by |-> b]), [op |-> "detach", by |-> b] \in Request
      PROVE  Known(calls', replies', owner', session')
  BY <1>1, <1>g DEF Known
<1>2. ASSUME NEW c \in Cmd, calls' = Append(calls, [op |-> "attach", by |-> c]), replies' = replies,
             [op |-> "attach", by |-> c] \in Request, UNCHANGED <<session, owner>>
      PROVE  Known(calls', replies', owner', session')
  BY <1>0, <1>2, <1>g DEF Known
<1>3. ASSUME NEW x \in Reply, calls # <<>>, calls' = Tail(calls), replies' = Append(replies, x), x.by = calls[1].by,
             ServeAttach, calls[1].op = "attach"
      PROVE  Known(calls', replies', owner', session')
  <2>1. \A i \in DOMAIN replies : i \in DOMAIN replies' /\ replies'[i] = replies[i]
    BY <1>t, <1>3, Grown
  <2>2. \A i \in DOMAIN calls : i = 1 \/ (i - 1 \in DOMAIN calls' /\ calls'[i - 1] = calls[i])
    BY <1>t, <1>3, Shrunk
  <2>3. session' = session
    BY <1>3 DEF ServeAttach
  <2>4. CASE owner' = owner
    <3>1. (\E i \in DOMAIN replies : replies[i] = own) => \E i \in DOMAIN replies' : replies'[i] = own
      BY <2>1
    <3>2. (\E i \in DOMAIN calls : calls[i].op = "detach") => \E i \in DOMAIN calls' : calls'[i].op = "detach"
      BY <1>3, <2>2
    <3> QED BY <1>0, <2>3, <2>4, <3>1, <3>2 DEF Known
  <2>5. CASE replies' = Append(replies, [op |-> "attach", by |-> owner'])
    <3>1. replies'[Len(replies) + 1] = [op |-> "attach", by |-> owner'] /\ Len(replies) + 1 \in DOMAIN replies'
      BY <1>t, <2>5, AppendProperties
    <3> QED BY <3>1 DEF Known
  <2> QED BY <1>3, <2>4, <2>5, OwnerEffect DEF ServeDetach, Dismiss, tabs
<1>4. ASSUME ServeDetach \/ Dismiss
      PROVE  Known(calls', replies', owner', session')
  BY <1>4 DEF Known, ServeDetach, Dismiss
<1>5. ASSUME HearAttach, replies # <<>>, replies' = Tail(replies)
      PROVE  Known(calls', replies', owner', session')
  <2>1. owner' = owner
    BY <1>5 DEF HearAttach
  <2>2. \A i \in DOMAIN replies : i = 1 \/ (i - 1 \in DOMAIN replies' /\ replies'[i - 1] = replies[i])
    BY <1>t, <1>5, Shrunk
  <2>3. session = 0
    BY <1>5, SessionFacts, HearAttachEffect DEF TabInv, Clear, hears, answer
  <2>4. CASE session' = replies[1].by /\ calls' = calls
    <3>1. replies[1] = own => session' = owner
      BY <2>4
    <3> QED BY <1>0, <2>1, <2>2, <2>3, <2>4, <3>1 DEF Known
  <2>5. CASE \E y \in Request : calls' = Append(calls, y) /\ y.op = "detach"
    BY <1>g, <2>5 DEF Known
  <2>6. CASE replies[1].op # "attach" /\ calls' = calls /\ session' = session
    <3>1. replies[1] # own
      BY <2>6
    <3> QED BY <1>0, <2>1, <2>2, <2>3, <2>6, <3>1 DEF Known
  <2>7. Call("detach", replies[1].by) /\ replies[1].by \in Cmd => \E y \in Request : calls' = Append(calls, y) /\ y.op = "detach"
    <3>1. replies[1].by \in Cmd => [op |-> "detach", by |-> replies[1].by] \in Request
      BY Constants DEF Request
    <3> QED BY <3>1 DEF Call
  <2> QED BY <1>5, <2>3, <2>4, <2>5, <2>6, <2>7, HearAttachEffect DEF TabInv, Over
<1>6. ASSUME HearDetach, replies # <<>>, replies' = Tail(replies), calls' = calls
      PROVE  Known(calls', replies', owner', session')
  <2>1. owner' = owner /\ session' = session /\ replies[1] # own
    BY <1>6, HearDetachEffect DEF HearDetach, TabInv, dropped
  <2>2. \A i \in DOMAIN replies : i = 1 \/ (i - 1 \in DOMAIN replies' /\ replies'[i - 1] = replies[i])
    BY <1>t, <1>6, Shrunk
  <2> QED BY <1>0, <1>6, <2>1, <2>2 DEF Known
<1>7. ASSUME HearGone, replies # <<>>, replies' = Tail(replies), replies[1].op = "gone"
      PROVE  Known(calls', replies', owner', session')
  <2>1. owner' = owner
    BY <1>7 DEF HearGone
  <2>2. \A i \in DOMAIN replies : i = 1 \/ (i - 1 \in DOMAIN replies' /\ replies'[i - 1] = replies[i])
    BY <1>t, <1>7, Shrunk
  <2>3. 1 \in DOMAIN replies
    BY <1>t, <1>7, Shrunk
  <2>4. owner # 0 => \E j \in DOMAIN replies : 1 < j /\ replies[j] = own
    BY <1>0, <1>7, <2>3
  <2> QED BY <2>1, <2>2, <2>4 DEF Known
<1>8. ASSUME UNCHANGED <<calls, replies, session, owner>>
      PROVE  Known(calls', replies', owner', session')
  BY <1>0, <1>8
<1> QED BY <1>1, <1>2, <1>3, <1>4, <1>5, <1>6, <1>7, <1>8, Shapes

\* What the answers on their way to the worker say of the owner o.
News(p, o) ==
  o # 0 => \A i \in DOMAIN p : p[i].op = "gone" => \E j \in DOMAIN p : i < j /\ p[j] = [op |-> "attach", by |-> o]
Latest(p, o) == \A i \in DOMAIN p : p[i].op = "attach" => o = 0 \/ p[i].by <= o
Explained(p, o, u) ==
  \A i \in DOMAIN p : p[i].op = "attach" =>
    o = p[i].by \/ p[i].by \in u \/ \E j \in DOMAIN p : i < j /\ p[j].op = "gone"

\* The owner's answer is not under way, or the debugger was taken from it.
Taken(p, o, u) == \A i \in DOMAIN p : p[i].op = "attach" /\ p[i].by = o => o \in u

\* The news when Chrome opened the debugger for b.
LEMMA NewsOpened ==
  ASSUME NEW p \in Seq(Reply), NEW b \in Cmd, NEW u, Explained(p, 0, u), NEW x \in Reply, x = [op |-> "attach", by |-> b],
         NEW r, r = Append(p, x), \A i \in DOMAIN p : p[i].op = "attach" => p[i].by \in Nat /\ p[i].by < b /\ p[i].by # 0
  PROVE  News(r, b) /\ Latest(r, b) /\ Explained(r, b, u)
<1>1. /\ \A i \in DOMAIN p : i \in DOMAIN r /\ r[i] = p[i] /\ i < Len(p) + 1
      /\ \A i \in DOMAIN r : (i \in DOMAIN p /\ r[i] = p[i] /\ i < Len(p) + 1) \/ (i = Len(p) + 1 /\ r[i] = x)
      /\ Len(p) + 1 \in DOMAIN r /\ r[Len(p) + 1] = x
  BY Grown
<1>2. News(r, b)
  BY <1>1 DEF News
<1>3. Latest(r, b)
  BY <1>1, Constants DEF Latest
<1>4. Explained(r, b, u)
  <2> SUFFICES ASSUME NEW i \in DOMAIN r, r[i].op = "attach", b # r[i].by
               PROVE  r[i].by \in u \/ \E j \in DOMAIN r : i < j /\ r[j].op = "gone"
    BY DEF Explained
  <2>1. i \in DOMAIN p /\ r[i] = p[i]
    BY <1>1
  <2>2. p[i].by \in u \/ \E j \in DOMAIN p : i < j /\ p[j].op = "gone"
    BY <2>1 DEF Explained
  <2> QED BY <1>1, <2>1, <2>2
<1> QED BY <1>2, <1>3, <1>4

\* The news when it closed it.
LEMMA NewsClosed ==
  ASSUME NEW p \in Seq(Reply), NEW o, NEW u, NEW w, Explained(p, o, u), NEW x \in Reply, NEW r, r = Append(p, x),
         x.op # "attach", x.op # "gone" => Taken(p, o, u \cup w)
  PROVE  News(r, 0) /\ Latest(r, 0) /\ Explained(r, 0, u \cup w)
<1>1. /\ \A i \in DOMAIN p : i \in DOMAIN r /\ r[i] = p[i] /\ i < Len(p) + 1
      /\ \A i \in DOMAIN r : (i \in DOMAIN p /\ r[i] = p[i] /\ i < Len(p) + 1) \/ (i = Len(p) + 1 /\ r[i] = x)
      /\ Len(p) + 1 \in DOMAIN r /\ r[Len(p) + 1] = x
  BY Grown
<1>2. Explained(r, 0, u \cup w)
  <2> SUFFICES ASSUME NEW i \in DOMAIN r, r[i].op = "attach"
               PROVE  r[i].by \in u \cup w \/ \E j \in DOMAIN r : i < j /\ r[j].op = "gone"
    BY DEF Explained
  <2>1. i \in DOMAIN p /\ r[i] = p[i] /\ i < Len(p) + 1
    BY <1>1
  <2>2. CASE x.op = "gone"
    BY <1>1, <2>1, <2>2
  <2>3. CASE x.op # "gone"
    <3>1. o = p[i].by \/ p[i].by \in u \/ \E j \in DOMAIN p : i < j /\ p[j].op = "gone"
      BY <2>1 DEF Explained
    <3>2. o = p[i].by => o \in u \cup w
      BY <2>1, <2>3 DEF Taken
    <3> QED BY <1>1, <2>1, <3>1, <3>2
  <2> QED BY <2>2, <2>3
<1> QED BY <1>2 DEF News, Latest

\* Other news, and news that was heard, change nothing.
LEMMA NewsKept ==
  ASSUME NEW p \in Seq(Reply), NEW o, NEW u, News(p, o), Latest(p, o), Explained(p, o, u)
  PROVE  /\ \A x \in Reply : x.op \notin {"attach", "gone"} =>
              LET r == Append(p, x) IN News(r, o) /\ Latest(r, o) /\ Explained(r, o, u)
         /\ p # <<>> => LET r == Tail(p) IN News(r, o) /\ Latest(r, o) /\ Explained(r, o, u)
<1>1. ASSUME NEW x \in Reply, x.op \notin {"attach", "gone"}, NEW r, r = Append(p, x)
      PROVE  News(r, o) /\ Latest(r, o) /\ Explained(r, o, u)
  <2>1. /\ \A i \in DOMAIN p : i \in DOMAIN r /\ r[i] = p[i]
        /\ \A i \in DOMAIN r : (i \in DOMAIN p /\ r[i] = p[i]) \/ r[i] = x
    BY <1>1, Grown
  <2>2. News(r, o)
    BY <1>1, <2>1 DEF News
  <2>3. Latest(r, o)
    BY <1>1, <2>1 DEF Latest
  <2>4. Explained(r, o, u)
    BY <1>1, <2>1 DEF Explained
  <2> QED BY <2>2, <2>3, <2>4
<1>2. ASSUME p # <<>>, NEW r, r = Tail(p)
      PROVE  News(r, o) /\ Latest(r, o) /\ Explained(r, o, u)
  <2>1. /\ \A i \in DOMAIN r : i + 1 \in DOMAIN p /\ r[i] = p[i + 1] /\ i \in Nat
        /\ \A i \in DOMAIN p : i = 1 \/ (i - 1 \in DOMAIN r /\ r[i - 1] = p[i] /\ i \in Nat)
        /\ 1 \in DOMAIN p /\ DOMAIN p \subseteq Nat
    BY <1>2, Shrunk
  <2>a. ASSUME NEW i \in DOMAIN r, NEW j \in DOMAIN p, i + 1 < j
        PROVE  j - 1 \in DOMAIN r /\ r[j - 1] = p[j] /\ i < j - 1
    <3>1. i \in Nat /\ j \in Nat /\ j # 1
      BY <2>1, <2>a
    <3> QED BY <2>1, <2>a, <3>1
  <2>2. News(r, o)
    <3> SUFFICES ASSUME o # 0, NEW i \in DOMAIN r, r[i].op = "gone"
                 PROVE  \E j \in DOMAIN r : i < j /\ r[j] = [op |-> "attach", by |-> o]
      BY DEF News
    <3>1. PICK j \in DOMAIN p : i + 1 < j /\ p[j] = [op |-> "attach", by |-> o]
      BY <2>1 DEF News
    <3> QED BY <2>a, <3>1
  <2>3. Latest(r, o)
    BY <2>1 DEF Latest
  <2>4. Explained(r, o, u)
    <3> SUFFICES ASSUME NEW i \in DOMAIN r, r[i].op = "attach", o # r[i].by, r[i].by \notin u
                 PROVE  \E j \in DOMAIN r : i < j /\ r[j].op = "gone"
      BY DEF Explained
    <3>1. PICK j \in DOMAIN p : i + 1 < j /\ p[j].op = "gone"
      BY <2>1 DEF Explained
    <3> QED BY <2>a, <3>1
  <2> QED BY <2>2, <2>3, <2>4
<1> QED BY <1>1, <1>2

\* Every step keeps what the answers under way say of the owner.
LEMMA NewsHolds ==
  ASSUME TypeOK, Bounds, TabInv, Next
  PROVE  News(replies', owner') /\ Latest(replies', owner') /\ Explained(replies', owner', undercut')
<1> DEFINE Goal == News(replies', owner') /\ Latest(replies', owner') /\ Explained(replies', owner', undercut')
<1>t. calls \in Seq(Request) /\ replies \in Seq(Reply)
  BY TabTypes
<1>0. News(replies, owner) /\ Latest(replies, owner) /\ Explained(replies, owner, undercut)
  BY DEF TabInv, Debugger, News, Latest, Explained, gone
<1>1. ASSUME NEW x \in Reply, calls # <<>>, replies' = Append(replies, x), x.by = calls[1].by,
             ServeAttach, calls[1].op = "attach", x.op \in {"attach", "refused"},
             x.op = "attach" => owner = 0 /\ owner' = x.by, x.op = "refused" => owner' = owner
      PROVE  Goal
  <2>0. undercut' = undercut
    BY <1>1 DEF ServeAttach, history
  <2>1. CASE x.op = "attach"
    <3>1. /\ calls[1].by \in Cmd
          /\ \A i \in DOMAIN replies : replies[i].op = "attach" =>
               replies[i].by \in Nat /\ replies[i].by < calls[1].by /\ replies[i].by # 0
      <4>1. 1 \in DOMAIN calls /\ InLine(calls, replies, attaching)
        BY <1>t, <1>1, Shrunk, AttachesInLine DEF TabInv
      <4> QED BY <1>1, <4>1, Constants DEF InLine, answer, attaching
    <3>2. x = [op |-> "attach", by |-> calls[1].by]
      BY <1>1, <2>1 DEF Reply
    <3> QED BY <1>t, <1>0, <1>1, <2>0, <2>1, <3>1, <3>2, NewsOpened
  <2>2. CASE x.op # "attach"
    BY <1>t, <1>0, <1>1, <2>0, <2>2, NewsKept
  <2> QED BY <2>1, <2>2
<1>2. ASSUME NEW x \in Reply, calls # <<>>, replies' = Append(replies, x), x.by = calls[1].by,
             ServeDetach, calls[1].op = "detach", x.op = "detach"
      PROVE  Goal
  <2>1. owner' = 0 /\ undercut' = undercut \cup IF calls[1].by \in Cmd THEN {owner} \ {0, calls[1].by} ELSE {}
    BY <1>t, <1>2, Shrunk DEF ServeDetach
  <2>2. ASSUME NEW i \in DOMAIN replies, replies[i].op = "attach", replies[i].by = owner
        PROVE  owner \in undercut'
    <3>1. owner \in attaching
      BY <2>2, AttachesInLine DEF InLine, answer, TabInv
    <3>2. 1 \in DOMAIN calls
      BY <1>t, <1>2, Shrunk
    <3>3. calls[1].by \in Cmd
      BY <1>2, <2>2, <3>2, SessionFacts DEF Behind, answer
    <3>4. calls[1].by # owner
      BY <1>2, <3>1, <3>2, <3>3, Constants DEF TabInv, Detaches, drops, waits, attaching
    <3> QED BY <2>1, <3>1, <3>3, <3>4, Constants DEF attaching
  <2>3. PICK w : undercut' = undercut \cup w
    BY <2>1
  <2>a. Taken(replies, owner, undercut \cup w)
    BY <2>2, <2>3 DEF Taken
  <2> HIDE DEF Goal
  <2>b. Explained(replies, owner, undercut) /\ x.op # "attach" /\ replies' = Append(replies, x)
    BY <1>0, <1>2
  <2>4. News(replies', 0) /\ Latest(replies', 0) /\ Explained(replies', 0, undercut \cup w)
    BY <1>t, <2>a, <2>b, <2>3, NewsClosed
  <2> QED BY <2>1, <2>3, <2>4 DEF Goal
<1>3. ASSUME Dismiss, replies' = Append(replies, [op |-> "gone", by |-> NoOne]), [op |-> "gone", by |-> NoOne] \in Reply
      PROVE  Goal
  <2>1. owner' = 0 /\ undercut' = undercut
    BY <1>3 DEF Dismiss
  <2>2. ASSUME NEW x \in Reply, x.op = "gone", replies' = Append(replies, x)
        PROVE  News(replies', 0) /\ Latest(replies', 0) /\ Explained(replies', 0, undercut)
    <3>1. x.op # "attach" /\ x.op = "gone" /\ Explained(replies, owner, undercut)
      BY <1>0, <2>2
    <3>2. News(replies', 0) /\ Latest(replies', 0) /\ Explained(replies', 0, undercut \cup {})
      BY <1>t, <2>2, <3>1, NewsClosed
    <3> QED BY <3>2
  <2> QED BY <1>3, <2>1, <2>2
<1>4. ASSUME HearAttach \/ HearDetach \/ HearGone, replies # <<>>, replies' = Tail(replies)
      PROVE  Goal
  <2>1. owner' = owner /\ undercut' = undercut
    BY <1>4 DEF HearAttach, HearDetach, HearGone, history
  <2> QED BY <1>t, <1>0, <1>4, <2>1, NewsKept
<1>5. ASSUME UNCHANGED <<replies, owner, undercut>>
      PROVE  Goal
  BY <1>0, <1>5
<1> HIDE DEF Goal
<1>6. Goal
  BY <1>1, <1>2, <1>3, <1>4, <1>5, Shapes
<1> QED BY <1>6 DEF Goal

\* Every step keeps what Debugger says.
LEMMA DebuggerKept ==
  ASSUME TypeOK, TypeOK', Bounds, TabInv, Next
  PROVE  Debugger'
<1>t. /\ owner \in 0 .. MaxCmd /\ owner' \in 0 .. MaxCmd /\ turn'.cmd \in Nat /\ turn.cmd \in Nat /\ turn.cmd <= turn'.cmd
      /\ MaxCmd \in Nat
  BY TabTypes, OwnerEffect, Constants DEF TypeOK
<1>e. \/ owner' = owner
      \/ ServeAttach /\ owner = 0 /\ owner' = calls[1].by /\ owner' \in attaching /\ calls # <<>> /\ calls[1].op = "attach"
      \/ (ServeDetach \/ Dismiss) /\ owner' = 0
  <2>1. ServeAttach => calls # <<>> /\ calls[1].op = "attach"
    BY TabTypes, Shrunk DEF ServeAttach
  <2> QED BY <2>1, OwnerEffect
<1>0. /\ owner <= turn.cmd
      /\ \A c \in Cmd : Holder(handler[c]) => owner \in {0, c}
      /\ \A c \in Cmd : Uses(handler[c]) => owner = c
  BY DEF TabInv, Debugger, Holder, holds, Uses
<1>1. owner' <= turn'.cmd
  <2>1. owner' \in attaching => owner' <= turn.cmd
    BY TurnFacts DEF TabInv, attaching
  <2> QED BY <1>t, <1>0, <1>e, <2>1
<1>2. ASSUME NEW c \in Cmd, Holder(handler'[c])
      PROVE  owner' \in {0, c}
  <2>1. CASE Adopts(c)
    <3>1. c = turn.cmd /\ owner' = owner
      BY <2>1, AdoptsClear DEF Adopts
    <3>2. owner = 0 \/ c <= owner
      <4>1. 1 \in DOMAIN replies /\ replies[1].op = "attach" /\ replies[1].by = c
        BY <2>1, TabTypes, Shrunk DEF Adopts
      <4> QED BY <4>1 DEF TabInv, Debugger
    <3> QED BY <1>t, <1>0, <3>1, <3>2
  <2>2. CASE Holder(handler[c])
    <3>1. Clear(calls, replies)
      BY <2>2, SessionFacts
    <3>2. ~(calls # <<>> /\ calls[1].op = "attach")
      BY <3>1, ClearKept, TabTypes
    <3> QED BY <1>0, <1>e, <2>2, <3>2
  <2> QED BY <1>2, <2>1, <2>2, HolderEffect
<1>3. ASSUME NEW c \in Cmd, Uses(handler'[c])
      PROVE  owner' = c
  <2>1. ~ServeDetach /\ ~Dismiss
    BY <1>3, CutOffIdle
  <2>2. CASE Uses(handler[c])
    BY <1>0, <1>e, <2>1, <2>2, Constants
  <2>3. CASE owner # 0 /\ owner' = owner /\ Holder(handler[c])
    BY <1>0, <2>3
  <2> QED BY <1>3, <2>2, <2>3, HolderEffect
<1>4. Known(calls', replies', owner', session')
  BY KnownKept
<1>5. News(replies', owner') /\ Latest(replies', owner') /\ Explained(replies', owner', undercut')
  BY NewsHolds
<1>6. owner' # 0 => \/ \E i \in DOMAIN replies' : replies'[i] = [op |-> "attach", by |-> owner']
                    \/ session' = owner'
                    \/ \E i \in DOMAIN calls' : drops(i)'
  BY <1>4 DEF Known, drops
<1>7. owner' # 0 => \A i \in DOMAIN replies' : gone(i)' =>
        \E j \in DOMAIN replies' : i < j /\ replies'[j] = [op |-> "attach", by |-> owner']
  BY <1>5 DEF News, gone
<1>8. \A i \in DOMAIN replies' : replies'[i].op = "attach" => owner' = 0 \/ replies'[i].by <= owner'
  BY <1>5 DEF Latest
<1>9. \A i \in DOMAIN replies' : replies'[i].op = "attach" =>
        owner' = replies'[i].by \/ replies'[i].by \in undercut' \/ \E j \in DOMAIN replies' : i < j /\ gone(j)'
  BY <1>5 DEF Explained, gone
<1>10. \A c \in Cmd : holds(c)' => owner' \in {0, c}
  BY <1>2 DEF holds, Holder
<1>11. \A c \in Cmd : handler'[c].call = "pending" /\ handler'[c].kind # "tab" => owner' = c
  BY <1>3 DEF Uses
<1> QED BY <1>1, <1>6, <1>7, <1>8, <1>9, <1>10, <1>11 DEF Debugger

\* Every step keeps that the worker's session is open, was undercut, or the news is on its way.
LEMMA SessionIsOpenKept ==
  ASSUME TypeOK, Bounds, TabInv, Next
  PROVE  SessionIsOpen'
<1>t. calls \in Seq(Request) /\ replies \in Seq(Reply)
  BY TabTypes
<1> DEFINE Goal == owner' = session' \/ session' \in undercut' \/ \E i \in DOMAIN replies' : replies'[i].op = "gone"
<1> SUFFICES ASSUME session' # 0
             PROVE  Goal
  BY DEF SessionIsOpen
<1>1. CASE session' \in Cmd /\ Adopts(session')
  <2>1. /\ 1 \in DOMAIN replies /\ replies[1].op = "attach" /\ replies[1].by = session'
        /\ \A i \in DOMAIN replies : i = 1 \/ (i - 1 \in DOMAIN replies' /\ replies'[i - 1] = replies[i])
    BY <1>t, <1>1, Shrunk DEF Adopts
  <2>2. owner = session' \/ session' \in undercut \/ \E j \in DOMAIN replies : 1 < j /\ replies[j].op = "gone"
    BY <2>1 DEF TabInv, Debugger, gone
  <2>3. owner' = owner /\ undercut' = undercut
    BY <1>1 DEF Adopts
  <2> QED BY <2>1, <2>2, <2>3
<1>2. CASE session' = session /\ session \in Cmd /\ Holder(handler[session])
  <2>0. session # 0 /\ Clear(calls, replies) /\ \A i \in DOMAIN calls : calls[i].op = "detach" => calls[i].by \in Cmd
    BY <1>2, SessionFacts
  <2>1. owner = session \/ session \in undercut \/ \E i \in DOMAIN replies : replies[i].op = "gone"
    BY <2>0 DEF TabInv, SessionIsOpen
  <2>2. undercut \subseteq undercut'
    BY OwnerEffect
  <2>3. ASSUME NEW x \in Reply, calls # <<>>, replies' = Append(replies, x), x.by = calls[1].by,
               ServeDetach, calls[1].op = "detach", x.op = "detach"
        PROVE  Goal
    <3>1. undercut' = undercut \cup IF calls[1].by \in Cmd THEN {owner} \ {0, calls[1].by} ELSE {}
      BY <1>t, <2>3, Shrunk DEF ServeDetach
    <3>2. 1 \in DOMAIN calls /\ calls[1].by \in Cmd
      BY <1>t, <2>0, <2>3, Shrunk
    <3>3. calls[1].by # session
      BY <1>2, <2>3, <3>2, Constants DEF TabInv, Detaches, drops, waits, Holder, Inside
    <3>4. owner = session => session \in undercut'
      BY <2>0, <3>1, <3>2, <3>3
    <3>5. \A i \in DOMAIN replies : i \in DOMAIN replies' /\ replies'[i] = replies[i]
      BY <1>t, <2>3, Grown
    <3> QED BY <1>2, <2>1, <2>2, <3>4, <3>5
  <2>4. ASSUME Dismiss, replies' = Append(replies, [op |-> "gone", by |-> NoOne]), [op |-> "gone", by |-> NoOne] \in Reply
        PROVE  Goal
    <3>1. Len(replies) + 1 \in DOMAIN replies' /\ replies'[Len(replies) + 1].op = "gone"
      BY <1>t, <2>4, AppendProperties
    <3> QED BY <3>1
  <2>5. ~HearAttach
    BY <2>0, HearAttachEffect DEF TabInv, Clear, hears, answer
  <2>6. ~HearGone
    BY <1>2, <2>0 DEF HearGone
  <2>7. ASSUME HearDetach, replies # <<>>, replies' = Tail(replies)
        PROVE  Goal
    <3>1. owner' = owner /\ replies[1].op = "detach"
      BY <2>7, HearDetachEffect DEF TabInv, dropped
    <3>2. \A i \in DOMAIN replies : i = 1 \/ (i - 1 \in DOMAIN replies' /\ replies'[i - 1] = replies[i])
      BY <1>t, <2>7, Shrunk
    <3> QED BY <1>2, <2>1, <2>2, <3>1, <3>2
  <2>8. ~ServeAttach
    BY <1>t, <2>0, ClearKept, Shrunk DEF ServeAttach
  <2>9. ASSUME replies' = replies, UNCHANGED owner
        PROVE  Goal
    BY <1>2, <2>1, <2>2, <2>9
  <2> HIDE DEF Goal
  <2> QED BY <2>3, <2>4, <2>5, <2>6, <2>7, <2>8, <2>9, Shapes
<1> QED BY <1>1, <1>2, SessionEffect

\* Together.
LEMMA TabKept ==
  ASSUME TypeOK, Bounds, TabInv, [Next]_vars
  PROVE  TypeOK' /\ Bounds' /\ TabInv'
<1>1. TypeOK' /\ Bounds'
  BY TypesKept DEF TabInv
<1>2. CASE Next
  <2>1. Turns' /\ Attaches' /\ Detaches' /\ Session' /\ Debugger' /\ ChainGoesOn' /\ SessionIsOpen'
    BY <1>1, <1>2, TurnsKept, AttachesKept, DetachesKept, SessionKept, DebuggerKept, ChainGoesOnKept, SessionIsOpenKept
  <2> QED BY <1>1, <2>1 DEF TabInv
<1>3. CASE UNCHANGED vars
  <2>1. UNCHANGED <<turn, handler, calls, replies, session, owner, undercut, hit, sent>>
    BY <1>3 DEF vars, chain, handlers, tabs, chrome, history
  <2> QED BY <1>1, <2>1 DEF TabInv, Turns, Attaches, Detaches, Session, Debugger, ChainGoesOn, SessionIsOpen,
                            asks, hears, drops, dropped, gone, waits, holds
<1> QED BY <1>2, <1>3

\* The invariant holds at the start.
LEMMA TabStarts ==
  ASSUME Init
  PROVE  TypeOK /\ Bounds /\ TabInv
<1>1. TypeOK
  <2>1. /\ enabled \in BOOLEAN /\ policy \in 0 .. MaxControl /\ epoch \in 0 .. MaxControl /\ accepting \in BOOLEAN
        /\ changes \in Seq({"pause", "resume", "settings"})
        /\ turn \in [cmd : 0 .. MaxCmd, at : {"idle", "taken", "running", "confirming", "releasing", "sending"}]
    BY Constants DEF Init
  <2>2. /\ outcome \in Report /\ handler \in [Cmd -> Handler] /\ bag \in [Cmd -> [Step -> StepStatus]]
    BY Blank DEF Init
  <2>3. session \in 0 .. MaxCmd /\ detached \in BOOLEAN /\ owner \in 0 .. MaxCmd /\ undercut \subseteq Cmd
    <3>1. session = 0 /\ detached = FALSE /\ owner = 0 /\ undercut = {}
      BY DEF Init
    <3>2. 0 \in 0 .. MaxCmd
      BY Constants
    <3> QED BY <3>1, <3>2
  <2>5. calls \in Seq(Request) /\ replies \in Seq(Reply)
    <3>1. calls = <<>> /\ replies = <<>>
      BY DEF Init
    <3> QED BY <3>1, EmptySeq
  <2>4. /\ sent \in [Cmd -> [at : {"unsent", "sent"}, dispatched : BOOLEAN, unstarted : SUBSET Step]]
        /\ hit \in [Cmd -> SUBSET Step]
        /\ used \in [control : 0 .. MaxControl, dismiss : 0 .. MaxDismiss]
    BY Constants DEF Init, Unsent
  <2> QED BY <2>1, <2>2, <2>3, <2>4, <2>5 DEF TypeOK
<1>2. Bounds
  BY Constants DEF Init, Bounds
<1>3. \A c \in Cmd : handler[c] = NoHandler /\ hit[c] = {} /\ sent[c].at = "unsent" /\ c > 0 /\ c # 0
  BY Constants DEF Init, Unsent, Cmd
<1>4. turn.cmd = 0 /\ turn.at = "idle" /\ calls = <<>> /\ replies = <<>> /\ session = 0 /\ owner = 0
  BY DEF Init
<1>5. DOMAIN calls = {} /\ DOMAIN replies = {}
  BY <1>4
<1>6. Turns /\ Attaches
  BY <1>3, <1>4, <1>5, Absent, Constants DEF Turns, Attaches, Idle, Cmd
<1>7. Detaches /\ Session /\ Debugger /\ ChainGoesOn /\ SessionIsOpen
  BY <1>3, <1>4, <1>5, Absent, Constants DEF Detaches, Session, Debugger, ChainGoesOn, SessionIsOpen, holds, Inside
<1> QED BY <1>1, <1>2, <1>6, <1>7 DEF TabInv

\* Every variable keeps its type, and every counter its bound.
THEOREM CommandTypes == Spec => []TypeOK
<1>1. Spec => [](TypeOK /\ Bounds /\ TabInv)
  BY TabStarts, TabKept, PTL DEF Spec
<1> QED BY <1>1, PTL

\* ChainGoesOn: the command queue never waits for a detach that is not under
\* way; runCommand's own release is in Chrome's queue or its answer is in the
\* worker's (background.js:1753-1758).
THEOREM QueueGoesOn == Spec => []ChainGoesOn
<1>1. Spec => [](TypeOK /\ Bounds /\ TabInv)
  BY TabStarts, TabKept, PTL DEF Spec
<1>2. TypeOK /\ Bounds /\ TabInv => ChainGoesOn
  BY DEF TabInv
<1> QED BY <1>1, <1>2, PTL

\* SessionIsOpen: the session the worker believes in is the debugger Chrome has
\* open, unless news of its end is under way or an abandoned handler of another
\* command detached it (background.js:396-434).
THEOREM SessionStaysOpen == Spec => []SessionIsOpen
<1>1. Spec => [](TypeOK /\ Bounds /\ TabInv)
  BY TabStarts, TabKept, PTL DEF Spec
<1>2. TypeOK /\ Bounds /\ TabInv => SessionIsOpen
  BY DEF TabInv
<1> QED BY <1>1, <1>2, PTL

\* NothingLeftAttached: when the queue is idle and nothing is under way to or
\* from Chrome, no debugger is left attached (background.js:411-416, :445-447).
THEOREM NothingStaysAttached == Spec => []NothingLeftAttached
<1>1. Spec => [](TypeOK /\ Bounds /\ TabInv)
  BY TabStarts, TabKept, PTL DEF Spec
<1>2. TypeOK /\ Bounds /\ TabInv => NothingLeftAttached
  <2> SUFFICES ASSUME TypeOK, Bounds, TabInv, turn.at = "idle", calls = <<>>, replies = <<>>, owner # 0
               PROVE  FALSE
    BY DEF NothingLeftAttached
  <2>1. session = 0
    BY Current DEF TabInv
  <2> QED BY <2>1 DEF TabInv, Debugger, drops
<1> QED BY <1>1, <1>2, PTL

\* Only a call that was pending lands.
LEMMA LandingEffect ==
  ASSUME TypeOK, Bounds, TabInv, Next, NEW c \in Cmd, handler'[c].call = "landed", handler[c].call # "landed"
  PROVE  handler[c].call = "pending"
<1> USE DEF TabInv
<1>t. handler \in [Cmd -> Handler] /\ handler[c] \in Handler
  BY TabTypes
<1>1. ASSUME NEW kind \in {"tab", "plain", "workflow"}, Take(kind)
      PROVE  FALSE
  <2> DEFINE n == turn.cmd + 1
  <2>1. handler' = [handler EXCEPT ![n] = [handler[n] EXCEPT !.kind = kind, !.policy = policy, !.epoch = epoch]]
    BY <1>1 DEF Take
  <2> HIDE DEF n
  <2>2. handler'[c].call = handler[c].call
    BY <1>t, <2>1 DEF Handler
  <2> QED BY <2>2
<1>2. ASSUME RunCommand \/ RaceSettles \/ Confirm \/ Timeout
      PROVE  FALSE
  <2>1. CASE RunCommand
    <3>1. handler' = handler \/ handler' = [handler EXCEPT ![turn.cmd] = [handler[turn.cmd] EXCEPT !.pc = "authorize"]]
      BY <1>t, <2>1 DEF RunCommand
    <3>2. handler'[c].call = handler[c].call
      BY <1>t, <3>1 DEF Handler
    <3> QED BY <3>2
  <2>2. CASE RaceSettles \/ Confirm \/ Timeout
    <3>1. Others(turn.cmd) /\ (handler' = handler \/ handler'[turn.cmd] = [handler[turn.cmd] EXCEPT !.dead = TRUE])
      BY <2>2, ChainEffect
    <3>2. handler'[c] = handler[c] \/ handler'[c] = [handler[c] EXCEPT !.dead = TRUE]
      BY <3>1 DEF Others
    <3>3. handler'[c].call = handler[c].call
      BY <1>t, <3>2 DEF Handler
    <3> QED BY <3>3
  <2> QED BY <1>2, <2>1, <2>2
<1>3. ASSUME Send
      PROVE  FALSE
  <2>1. /\ Others(turn.cmd) /\ turn.cmd \in Cmd
        /\ handler'[turn.cmd] = IF handler[turn.cmd].pc \in Idle THEN NoHandler ELSE remnant(handler[turn.cmd])
    BY <1>3, SendEffect
  <2>2. handler'[c].call \in {"none", handler[c].call}
    BY <2>1, Absent, RemnantEffect DEF Others
  <2> QED BY <2>2
<1>4. ASSUME NEW d \in Cmd, HandlerStep(d)
      PROVE  FALSE
  <2>1. Over(d) \/ Went(d) \/ Starts(d)
    BY <1>4, HandlerEffect
  <2>2. CASE Starts(d)
    <3>1. handler'[c].call = handler[c].call
      BY <1>t, <2>2 DEF Starts, Handler
    <3> QED BY <3>1
  <2> QED BY <2>1, <2>2 DEF Over, Went, Others
<1>5. ASSUME NEW d \in Cmd, Lands(d)
      PROVE  handler[c].call = "pending"
  BY <1>5, <1>t DEF Lands
<1>6. ASSUME ServeDetach \/ Dismiss
      PROVE  FALSE
  <2>1. handler'[c] = cutOff[c]
    BY <1>6 DEF ServeDetach, Dismiss
  <2>2. cutOff[c].call \in {"cut", handler[c].call}
    BY <1>t DEF cutOff, Handler
  <2> QED BY <2>1, <2>2
<1>7. ASSUME HearAttach
      PROVE  FALSE
  <2> DEFINE b == replies[1].by
  <2>1. \/ handler' = [handler EXCEPT ![b] = [handler[b] EXCEPT !.pc = "bind"]]
        \/ \E e \in Error : handler' = [handler EXCEPT ![b] = [handler[b] EXCEPT !.pc = "dropping", !.err = e]]
        \/ Over(b)
    BY <1>7, HearAttachEffect
  <2> HIDE DEF b
  <2>2. CASE handler' = [handler EXCEPT ![b] = [handler[b] EXCEPT !.pc = "bind"]]
    <3>1. handler'[c].call = handler[c].call
      BY <1>t, <2>2 DEF Handler
    <3> QED BY <3>1
  <2>3. ASSUME NEW e \in Error, handler' = [handler EXCEPT ![b] = [handler[b] EXCEPT !.pc = "dropping", !.err = e]]
        PROVE  FALSE
    <3>1. handler'[c].call = handler[c].call
      BY <1>t, <2>3 DEF Handler
    <3> QED BY <3>1
  <2>4. CASE Over(b)
    BY <2>4 DEF Over, Others
  <2> QED BY <2>1, <2>2, <2>3, <2>4
<1>8. ASSUME HearDetach
      PROVE  FALSE
  BY <1>8, HearDetachEffect, Absent DEF Others
<1>9. ASSUME ServeAttach \/ HearGone \/ HearChange \/ \E what \in {"pause", "resume", "settings"} : Change(what)
      PROVE  FALSE
  BY <1>9 DEF ServeAttach, HearGone, HearChange, Change, handlers
<1> QED BY <1>1, <1>2, <1>3, <1>4, <1>5, <1>6, <1>7, <1>8, <1>9 DEF Next, ChainStep, ChromeStep

\* OwnSessionOnly: an input lands only through the session its own command
\* opened, never through that of the next (background.js:411-421).
THEOREM InputsAreOwn == Spec => OwnSessionOnly
<1>1. Spec => [](TypeOK /\ Bounds /\ TabInv)
  BY TabStarts, TabKept, PTL DEF Spec
<1>2. TypeOK /\ Bounds /\ TabInv /\ [Next]_vars =>
        [\A c \in Cmd : handler'[c].call = "landed" /\ handler[c].call # "landed" /\ handler[c].kind # "tab" => owner = c]_vars
  <2> SUFFICES ASSUME TypeOK, Bounds, TabInv, Next, NEW c \in Cmd,
                      handler'[c].call = "landed", handler[c].call # "landed", handler[c].kind # "tab"
               PROVE  owner = c
    OBVIOUS
  <2> QED BY LandingEffect DEF TabInv, Debugger
<1> QED BY <1>1, <1>2, PTL DEF OwnSessionOnly, Spec

\* Who starts an input is live, and its turn.
LEMMA InputEffect ==
  ASSUME TypeOK, Bounds, TabInv, Next, NEW c \in Cmd, handler'[c].pc = "input", handler[c].pc # "input"
  PROVE  turn = [cmd |-> c, at |-> "running"] /\ live(c)
<1> USE DEF TabInv
<1>t. handler \in [Cmd -> Handler] /\ handler[c] \in Handler
  BY TabTypes
<1>1. ASSUME NEW kind \in {"tab", "plain", "workflow"}, Take(kind)
      PROVE  FALSE
  <2> DEFINE n == turn.cmd + 1
  <2>1. handler' = [handler EXCEPT ![n] = [handler[n] EXCEPT !.kind = kind, !.policy = policy, !.epoch = epoch]]
    BY <1>1 DEF Take
  <2> HIDE DEF n
  <2>2. handler'[c].pc = handler[c].pc
    BY <1>t, <2>1 DEF Handler
  <2> QED BY <2>2
<1>2. ASSUME RunCommand
      PROVE  FALSE
  <2>1. handler' = handler \/ handler' = [handler EXCEPT ![turn.cmd] = [handler[turn.cmd] EXCEPT !.pc = "authorize"]]
    BY <1>t, <1>2 DEF RunCommand
  <2>2. handler'[c].pc \in {"authorize", handler[c].pc}
    BY <1>t, <2>1 DEF Handler
  <2> QED BY <2>2
<1>3. ASSUME RaceSettles \/ Confirm \/ Timeout
      PROVE  FALSE
  <2>1. Others(turn.cmd) /\ (handler' = handler \/ handler'[turn.cmd] = [handler[turn.cmd] EXCEPT !.dead = TRUE])
    BY <1>3, ChainEffect
  <2>2. handler'[c] = handler[c] \/ handler'[c] = [handler[c] EXCEPT !.dead = TRUE]
    BY <2>1 DEF Others
  <2>3. handler'[c].pc = handler[c].pc
    BY <1>t, <2>2 DEF Handler
  <2> QED BY <2>3
<1>4. ASSUME Send
      PROVE  FALSE
  <2>1. /\ Others(turn.cmd) /\ turn.cmd \in Cmd
        /\ handler'[turn.cmd] = IF handler[turn.cmd].pc \in Idle THEN NoHandler ELSE remnant(handler[turn.cmd])
    BY <1>4, SendEffect
  <2>2. handler'[c].pc \in {"none", handler[c].pc}
    BY <2>1, Absent, RemnantEffect DEF Others
  <2> QED BY <2>2
<1>5. ASSUME NEW d \in Cmd, HandlerStep(d)
      PROVE  turn = [cmd |-> c, at |-> "running"] /\ live(c)
  <2>1. Over(d) \/ Went(d) \/ Starts(d)
    BY <1>5, HandlerEffect
  <2>2. CASE Starts(d)
    <3>1. handler'[c].pc \in {"attaching", handler[c].pc}
      BY <1>t, <2>2 DEF Starts, Handler
    <3> QED BY <3>1
  <2>3. CASE Over(d)
    BY <2>3, Absent DEF Over, Others
  <2>4. CASE Went(d)
    <3>1. c = d /\ handler[c].pc = "ready" /\ live(c)
      BY <2>4 DEF Went, Others
    <3>2. c = turn.cmd /\ turn.at = "running"
      BY <3>1, Current DEF Idle
    <3> QED BY <3>1, <3>2, TurnFacts
  <2> QED BY <2>1, <2>2, <2>3, <2>4
<1>6. ASSUME NEW d \in Cmd, Lands(d)
      PROVE  FALSE
  <2>1. handler'[c].pc = handler[c].pc
    BY <1>6, <1>t DEF Lands, Handler
  <2> QED BY <2>1
<1>7. ASSUME ServeDetach \/ Dismiss
      PROVE  FALSE
  BY <1>7, CutOffEffect DEF ServeDetach, Dismiss
<1>8. ASSUME HearAttach
      PROVE  FALSE
  <2> DEFINE b == replies[1].by
  <2>1. \/ handler' = [handler EXCEPT ![b] = [handler[b] EXCEPT !.pc = "bind"]]
        \/ \E e \in Error : handler' = [handler EXCEPT ![b] = [handler[b] EXCEPT !.pc = "dropping", !.err = e]]
        \/ Over(b)
    BY <1>8, HearAttachEffect
  <2> HIDE DEF b
  <2>2. CASE handler' = [handler EXCEPT ![b] = [handler[b] EXCEPT !.pc = "bind"]]
    <3>1. handler'[c].pc \in {"bind", handler[c].pc}
      BY <1>t, <2>2 DEF Handler
    <3> QED BY <3>1
  <2>3. ASSUME NEW e \in Error, handler' = [handler EXCEPT ![b] = [handler[b] EXCEPT !.pc = "dropping", !.err = e]]
        PROVE  FALSE
    <3>1. handler'[c].pc \in {"dropping", handler[c].pc}
      BY <1>t, <2>3 DEF Handler
    <3> QED BY <3>1
  <2>4. CASE Over(b)
    BY <2>4, Absent DEF Over, Others
  <2> QED BY <2>1, <2>2, <2>3, <2>4
<1>9. ASSUME HearDetach
      PROVE  FALSE
  BY <1>9, HearDetachEffect, Absent DEF Others
<1>10. ASSUME ServeAttach \/ HearGone \/ HearChange \/ \E what \in {"pause", "resume", "settings"} : Change(what)
       PROVE  FALSE
  BY <1>10 DEF ServeAttach, HearGone, HearChange, Change, handlers
<1> QED BY <1>1, <1>2, <1>3, <1>4, <1>5, <1>6, <1>7, <1>8, <1>9, <1>10 DEF Next, ChainStep, ChromeStep

\* NoLateInput: only the command the chain waits for starts an input, before its
\* timer and under the epoch it began with (background.js:135-143, :1776-1777).
THEOREM NoInputAfterItsTurn == Spec => NoLateInput
<1>1. Spec => [](TypeOK /\ Bounds /\ TabInv)
  BY TabStarts, TabKept, PTL DEF Spec
<1>2. TypeOK /\ Bounds /\ TabInv /\ [Next]_vars =>
        [\A c \in Cmd : handler'[c].pc = "input" /\ handler[c].pc # "input" =>
           turn = [cmd |-> c, at |-> "running"] /\ accepting /\ handler[c].epoch = epoch]_vars
  <2> SUFFICES ASSUME TypeOK, Bounds, TabInv, Next, NEW c \in Cmd, handler'[c].pc = "input", handler[c].pc # "input"
               PROVE  turn = [cmd |-> c, at |-> "running"] /\ accepting /\ handler[c].epoch = epoch
    OBVIOUS
  <2> QED BY InputEffect DEF live
<1> QED BY <1>1, <1>2, PTL DEF NoLateInput, Spec
-----------------------------------------------------------------------------
(* What a handler's record says of its inputs *)

\* A report exists once the handler has left, is a workflow's, and says what it sent.
Claims(h) ==
  /\ h.report # NoReport =>
       h.pc \in {"leaving", "settled"} /\ h.kind = "workflow" /\ h.report.dispatched = h.dispatched
  /\ h.bagged => h.kind = "workflow"
  /\ h.pc = "none" => ~h.dispatched

\* Before its report is written a handler's list and flag cover its inputs.
Covers(h, list, landed) ==
  /\ landed # {} \/ h.pc = "input" => h.dispatched
  /\ h.pc \in {"authorize", "lookup", "attach", "attaching", "dropping", "bind"} => landed = {}
  /\ \A i \in landed : i <= h.step /\ (h.pc = "check" => i < h.step)
  /\ h.kind = "workflow" => \A i \in Step :
       i \in landed \/ (h.pc \in {"prepare", "ready", "input", "observe"} /\ i = h.step) => list[i] # "unstarted"
  /\ h.pc = "check" => h.kind = "workflow"

\* An input that may still land is one the report owns up to.
Admits(h, report) == h.pc = "input" => report.dispatched /\ h.step \notin report.unstarted

\* What runCommand returned is true of the handler, which sends nothing more.
Returned ==
  turn.at \in {"releasing", "sending"} =>
    LET h == handler[turn.cmd]
    IN  /\ outcome.dispatched = h.dispatched
        /\ outcome.steps => h.kind = "workflow"
        /\ h.pc \in Idle \/ h.dead

\* What is true of a command's record, its list, the inputs that landed and its report.
Told(h, list, landed, report) ==
  /\ Claims(h)
  /\ report.at # "sent" => Covers(h, list, landed)
  /\ report.at = "sent" =>
       Admits(h, report) /\ (~report.dispatched => landed = {}) /\ report.unstarted \cap landed = {}

ReportInv == (\A c \in Cmd : Told(handler[c], bag[c], hit[c], sent[c])) /\ Returned

\* What a step of its handler leaves true of a command.
Faithful(c) ==
  LET h == handler[c]
      g == handler'[c]
  IN  /\ Claims(g)
      /\ ~abandoned(c) => Covers(g, bag'[c], hit[c])
      /\ ~abandoned(c) => g.kind = h.kind /\ (g.dispatched = h.dispatched \/ live(c))
      /\ abandoned(c) => g.pc # "input"

\* A handler that leaves keeps its claims.
LEMMA UnwindData ==
  ASSUME TypeOK, NEW c \in Cmd, NEW r \in Handler, Unwind(c, r), abandoned(c) => session # c,
         r.report # NoReport => r.kind = "workflow" /\ r.report.dispatched = r.dispatched,
         r.bagged => r.kind = "workflow"
  PROVE  /\ Claims(handler'[c]) /\ handler'[c].pc \notin {"input", "check"}
         /\ ~abandoned(c) => /\ handler'[c].dispatched = r.dispatched /\ handler'[c].kind = r.kind
                             /\ handler'[c].step = r.step /\ handler'[c].pc \in {"leaving", "settled"}
<1> DEFINE g(p) == [r EXCEPT !.pc = p, !.call = "none"]
<1>1. \A p \in {"leaving", "settled"} :
        /\ g(p).pc = p /\ g(p).dispatched = r.dispatched /\ g(p).kind = r.kind /\ g(p).step = r.step
        /\ g(p).report = r.report /\ g(p).bagged = r.bagged
  BY DEF Handler
<1>2. \/ handler' = [handler EXCEPT ![c] = g("leaving")] /\ session = c
      \/ handler' = [handler EXCEPT ![c] = IF abandoned(c) THEN NoHandler ELSE g("settled")]
  BY DEF Unwind, settled
<1> HIDE DEF g
<1>3. (handler'[c] = g("leaving") /\ ~abandoned(c)) \/ (abandoned(c) /\ handler'[c] = NoHandler)
      \/ (~abandoned(c) /\ handler'[c] = g("settled"))
  BY <1>2, TabTypes
<1>4. CASE abandoned(c) /\ handler'[c] = NoHandler
  BY <1>4, Absent DEF Claims
<1>5. ASSUME NEW p \in {"leaving", "settled"}, handler'[c] = g(p)
      PROVE  /\ Claims(handler'[c]) /\ handler'[c].pc \notin {"input", "check"}
             /\ handler'[c].dispatched = r.dispatched /\ handler'[c].kind = r.kind
             /\ handler'[c].step = r.step /\ handler'[c].pc \in {"leaving", "settled"}
  BY <1>1, <1>5 DEF Claims
<1> QED BY <1>3, <1>4, <1>5

\* One that leaves by an error keeps the cover of its list.
LEMMA ThrowData ==
  ASSUME TypeOK, Bounds, TabInv, NEW c \in Cmd, NEW e \in Error, Throw(c, e), handler[c].pc # "none",
         Claims(handler[c]), ~abandoned(c) => Covers(handler[c], bag[c], hit[c])
  PROVE  Faithful(c) /\ Others(c) /\ bag' = bag
<1> DEFINE h == handler[c]
           r == [h EXCEPT !.err = e]
<1>1. h \in Handler /\ r \in Handler
  BY OneHandler, Edited
<1>2. r.report = h.report /\ r.kind = h.kind /\ r.dispatched = h.dispatched /\ r.bagged = h.bagged /\ r.step = h.step
  BY <1>1 DEF Handler
<1>3. Unwind(c, r) /\ bag' = bag
  BY DEF Throw
<1>4. abandoned(c) => session # c
  BY Current DEF TabInv
<1>o. Others(c)
  BY ThrowEffect DEF Over
<1> HIDE DEF r
<1>5. /\ Claims(handler'[c]) /\ handler'[c].pc \notin {"input", "check"}
      /\ ~abandoned(c) => /\ handler'[c].dispatched = h.dispatched /\ handler'[c].kind = h.kind
                          /\ handler'[c].step = h.step /\ handler'[c].pc \in {"leaving", "settled"}
  BY <1>1, <1>2, <1>3, <1>4, UnwindData DEF Claims
<1> HIDE DEF h
<1>6. ~abandoned(c) => Covers(handler'[c], bag[c], hit[c])
  BY <1>5 DEF Covers, h
<1> QED BY <1>3, <1>5, <1>6, <1>o DEF Faithful, h

\* With a report of its own, and the list it leaves.
LEMMA LeavesData ==
  ASSUME TypeOK, Bounds, TabInv, NEW c \in Cmd, NEW e \in Error, NEW s \in Status, NEW steps,
         Unwind(c, [handler[c] EXCEPT !.err = e, !.report = workflowReport(c, s)]), Mark(c, steps),
         handler[c].pc # "none", Claims(handler[c]), ~abandoned(c) => Covers(handler[c], bag[c], hit[c]),
         handler[c].kind = "workflow" \/ abandoned(c), \A i \in hit[c] : ~abandoned(c) => steps[i] # "unstarted"
  PROVE  Faithful(c)
<1> DEFINE h == handler[c]
           w == workflowReport(c, s)
           r == [h EXCEPT !.err = e, !.report = w]
<1>0. w \in Report /\ w.dispatched = h.dispatched
  BY ReportType DEF workflowReport
<1>1. h \in Handler /\ r \in Handler
  BY <1>0, OneHandler, Edited
<1>2. r.report = w /\ r.kind = h.kind /\ r.dispatched = h.dispatched /\ r.bagged = h.bagged /\ r.step = h.step
  BY <1>1 DEF Handler
<1>4. abandoned(c) => session # c
  BY Current DEF TabInv
<1> HIDE DEF r, w
<1>3. Unwind(c, r)
  BY DEF r, w
<1>5. CASE abandoned(c)
  <2>1. handler'[c] = NoHandler
    BY <1>3, <1>4, <1>5, TabTypes DEF Unwind, settled
  <2> QED BY <1>5, <2>1, Absent DEF Faithful, Claims
<1>6. CASE ~abandoned(c)
  <2>1. /\ Claims(handler'[c])
        /\ handler'[c].dispatched = h.dispatched /\ handler'[c].kind = h.kind
        /\ handler'[c].step = h.step /\ handler'[c].pc \in {"leaving", "settled"}
    BY <1>0, <1>1, <1>2, <1>3, <1>4, <1>6, UnwindData DEF Claims
  <2>2. bag'[c] = steps
    BY <1>6, TabTypes DEF Mark
  <2>3. Covers(handler'[c], bag'[c], hit[c])
    BY <1>6, <2>1, <2>2 DEF Covers, h
  <2> QED BY <1>6, <2>1, <2>3 DEF Faithful, h
<1> QED BY <1>5, <1>6

\* A check that fails leaves out no input: the steps from its own on had none.
LEMMA CheckThrowsData ==
  ASSUME TypeOK, Bounds, TabInv, NEW c \in Cmd, NEW e \in Error, CheckThrows(c, e), handler[c].pc = "check",
         Claims(handler[c]), ~abandoned(c) => Covers(handler[c], bag[c], hit[c])
  PROVE  Faithful(c)
<1> DEFINE h == handler[c]
           s == checkStatus(c, e)
           steps == markUnstarted(bag[c], h.step)
<1>1. s \in Status
  BY DEF checkStatus, Status
<1>2. Unwind(c, [h EXCEPT !.err = e, !.report = workflowReport(c, s)]) /\ Mark(c, steps)
  BY DEF CheckThrows
<1>3. \A i \in hit[c] : ~abandoned(c) => steps[i] # "unstarted"
  <2> SUFFICES ASSUME NEW i \in hit[c], ~abandoned(c)
               PROVE  steps[i] # "unstarted"
    OBVIOUS
  <2>1. i \in Step /\ i \in Nat /\ h.step \in Nat
    BY OneHandler DEF TypeOK, Step
  <2>2. i < h.step /\ bag[c][i] # "unstarted"
    BY <2>1 DEF Covers
  <2> QED BY <2>1, <2>2 DEF markUnstarted
<1>4. h.kind = "workflow" \/ abandoned(c)
  BY DEF Covers
<1> HIDE DEF s, steps
<1> QED BY <1>1, <1>2, <1>3, <1>4, LeavesData

\* A step that fails is marked, and only the steps after it are unstarted.
LEMMA StepThrowsData ==
  ASSUME TypeOK, Bounds, TabInv, NEW c \in Cmd, NEW e \in Error, StepThrows(c, e),
         handler[c].pc \in {"prepare", "ready", "input", "observe"},
         Claims(handler[c]), ~abandoned(c) => Covers(handler[c], bag[c], hit[c])
  PROVE  Faithful(c)
<1> DEFINE h == handler[c]
           s == stepStatus(c, e)
           mark == IF s = "unobserved" THEN "failed" ELSE s
           steps == markUnstarted([bag[c] EXCEPT ![h.step] = mark], h.step + 1)
<1>1. CASE h.kind # "workflow"
  BY <1>1, ThrowData DEF StepThrows
<1>2. CASE h.kind = "workflow"
  <2>1. s \in Status /\ mark # "unstarted"
    BY DEF stepStatus, Status
  <2> HIDE DEF mark
  <2>2. Unwind(c, [h EXCEPT !.err = e, !.report = workflowReport(c, s)]) /\ Mark(c, steps)
    BY <1>2 DEF StepThrows, mark
  <2>3. \A i \in hit[c] : ~abandoned(c) => steps[i] # "unstarted"
    <3> SUFFICES ASSUME NEW i \in hit[c], ~abandoned(c)
                 PROVE  steps[i] # "unstarted"
      OBVIOUS
    <3>1. i \in Step /\ i \in Nat /\ h.step \in Nat /\ h.step \in Step /\ bag[c] \in [Step -> StepStatus]
      BY OneHandler DEF TypeOK, Step
    <3>2. i <= h.step /\ bag[c][i] # "unstarted"
      BY <1>2, <3>1 DEF Covers
    <3> QED BY <2>1, <3>1, <3>2 DEF markUnstarted
  <2> HIDE DEF s, steps
  <2> QED BY <1>2, <2>1, <2>2, <2>3, LeavesData
<1> QED BY <1>1, <1>2

\* A live handler that is not over is the one the chain waits for.
LEMMA LiveIsAwaited ==
  ASSUME TypeOK, Bounds, TabInv, NEW c \in Cmd, live(c), handler[c].pc \notin Idle
  PROVE  ~abandoned(c) /\ c = turn.cmd /\ turn.at = "running"
<1>1. c = turn.cmd /\ turn.at = "running"
  BY Current DEF TabInv
<1> QED BY <1>1, TurnFacts DEF TabInv

\* A step marks the list of its own command.
LEMMA BagElsewhere ==
  ASSUME TypeOK, NEW c \in Cmd, HandlerStep(c)
  PROVE  \A d \in Cmd \ {c} : bag'[d] = bag[d]
<1>1. ASSUME NEW list, Mark(c, list)
      PROVE  \A d \in Cmd \ {c} : bag'[d] = bag[d]
  BY <1>1, TabTypes DEF Mark
<1>2. ASSUME NEW e, Throw(c, e) \/ StepThrows(c, e) \/ CheckThrows(c, e)
      PROVE  \A d \in Cmd \ {c} : bag'[d] = bag[d]
  BY <1>1, <1>2 DEF Throw, StepThrows, CheckThrows
<1> QED BY <1>1, <1>2 DEF HandlerStep, Authorize, LookUp, Attach, Bind, BindWorkflow, Check, Prepare, Dispatch, InputDone,
                          InputFails, Observe, StepDone, Loaded, Capture

\* A handler that goes on, as its checks let only an awaited one do.
LEMMA EditData ==
  ASSUME TypeOK, NEW c \in Cmd, NEW g, handler' = [handler EXCEPT ![c] = g], ~abandoned(c),
         Claims(g), Covers(g, bag'[c], hit[c]), g.kind = handler[c].kind, g.dispatched = handler[c].dispatched \/ live(c)
  PROVE  Faithful(c)
<1>1. handler'[c] = g
  BY TabTypes
<1> QED BY <1>1 DEF Faithful

\* The steps in which an input may have landed for the step at hand.
Stepping == {"prepare", "ready", "input", "observe"}

\* A handler that only goes on keeps the cover of its list.
LEMMA GotoData ==
  ASSUME TypeOK, NEW c \in Cmd, NEW p, Goto(c, p), UNCHANGED bag, ~abandoned(c),
         Claims(handler[c]), Covers(handler[c], bag[c], hit[c]), handler[c].pc # "none", handler[c].pc \notin {"leaving", "settled"},
         \/ p \in {"ready", "observe", "prepare"} /\ handler[c].pc \in Stepping
         \/ p \in {"ready", "prepare"} /\ handler[c].pc \in {"lookup", "bind"} /\ handler[c].kind # "workflow"
         \/ p = "check" /\ handler[c].pc = "bind" /\ handler[c].kind = "workflow"
         \/ p = "attaching" /\ handler[c].pc = "attach"
  PROVE  Faithful(c)
<1> DEFINE h == handler[c]
           g == [h EXCEPT !.pc = p]
<1>1. handler' = [handler EXCEPT ![c] = g]
  BY TabTypes DEF Goto
<1>2. h \in Handler
  BY OneHandler
<1>3. g.pc = p /\ g.kind = h.kind /\ g.dispatched = h.dispatched /\ g.step = h.step /\ g.bagged = h.bagged /\ g.report = h.report
  BY <1>2 DEF Handler
<1> HIDE DEF g, h
<1>4. Claims(g)
  BY <1>3 DEF Claims, h, Stepping
<1>5. Covers(g, bag[c], hit[c])
  BY <1>3 DEF Covers, h, Stepping
<1> QED BY <1>1, <1>3, <1>4, <1>5, EditData DEF h

\* So does every step of a handler.
LEMMA HandlerData ==
  ASSUME TypeOK, Bounds, TabInv, NEW c \in Cmd, HandlerStep(c),
         Claims(handler[c]), ~abandoned(c) => Covers(handler[c], bag[c], hit[c])
  PROVE  Faithful(c)
<1> DEFINE h == handler[c]
<1>0. h \in Handler /\ h.step \in Step /\ bag[c] \in [Step -> StepStatus] /\ bag \in [Cmd -> [Step -> StepStatus]]
      /\ hit[c] \subseteq Step /\ Step \subseteq Nat
  BY OneHandler DEF TypeOK, Step
<1>t. trouble(c) \subseteq Error /\ callError(c) \in Error /\ unready(c) \subseteq Error
      /\ "failed" \in Error /\ "cancelled" \in Error /\ "uncertain" \in Error /\ "none" \in Error
  BY TroubleType DEF unready, Error
<1>w. h.pc \in Working /\ h.pc \notin Idle /\ h.pc \notin {"none", "leaving", "settled"}
  BY HandlerEffect DEF TabInv, Working, Idle
<1>l. live(c) => ~abandoned(c) /\ Covers(h, bag[c], hit[c])
  BY <1>w, LiveIsAwaited
<1>p. permitted(c) => live(c)
  BY DEF permitted
<1>1. CASE \E e \in Error : Throw(c, e)
  BY <1>1, <1>w, ThrowData
<1>2. CASE \E e \in Error : CheckThrows(c, e) /\ h.pc = "check"
  BY <1>2, CheckThrowsData
<1>3. CASE \E e \in Error : StepThrows(c, e) /\ h.pc \in Stepping
  BY <1>3, StepThrowsData DEF Stepping
<1> DEFINE Goes == /\ ~ \E e \in Error : Throw(c, e)
                   /\ ~ \E e \in Error : CheckThrows(c, e) /\ h.pc = "check"
                   /\ ~ \E e \in Error : StepThrows(c, e) /\ h.pc \in Stepping
<1>4. ASSUME Goes
      PROVE  Faithful(c)
  <2>1. CASE Authorize(c)
    <3> DEFINE p == IF h.kind = "tab" THEN "lookup" ELSE "attach"
               w == h.kind = "workflow"
               g == [h EXCEPT !.pc = p, !.bagged = w]
    <3>1. handler' = [handler EXCEPT ![c] = g] /\ bag' = bag /\ live(c) /\ h.pc = "authorize"
      BY <1>t, <1>p, <1>4, <2>1, TabTypes DEF Authorize
    <3>2. p \in {"lookup", "attach"}
      OBVIOUS
    <3>w. w => h.kind = "workflow"
      OBVIOUS
    <3> HIDE DEF p, w
    <3>3. g.pc = p /\ g.kind = h.kind /\ g.dispatched = h.dispatched /\ g.step = h.step /\ g.bagged = w /\ g.report = h.report
      BY <1>0 DEF Handler
    <3> HIDE DEF g
    <3>4. Claims(g)
      BY <3>1, <3>2, <3>3, <3>w DEF Claims
    <3>5. Covers(g, bag'[c], hit[c])
      BY <1>l, <3>1, <3>2, <3>3 DEF Covers
    <3> QED BY <1>l, <3>1, <3>3, <3>4, <3>5, EditData
  <2>2. CASE LookUp(c)
    <3>1. Goto(c, "ready") /\ UNCHANGED bag /\ live(c) /\ h.pc = "lookup" /\ h.kind = "tab"
      BY <1>t, <1>p, <1>4, <2>2 DEF LookUp, TabInv, Attaches
    <3> QED BY <1>l, <1>w, <3>1, GotoData
  <2>3. CASE Attach(c)
    <3>1. Goto(c, "attaching") /\ UNCHANGED bag /\ live(c) /\ h.pc = "attach"
      BY <1>t, <1>4, <2>3 DEF Attach
    <3> QED BY <1>l, <1>w, <3>1, GotoData
  <2>4. CASE Bind(c)
    <3>1. Goto(c, "prepare") /\ UNCHANGED bag /\ live(c) /\ h.pc = "bind" /\ h.kind = "plain"
      BY <1>t, <1>p, <1>4, <2>4 DEF Bind
    <3> QED BY <1>l, <1>w, <3>1, GotoData
  <2>5. CASE BindWorkflow(c)
    <3>1. Goto(c, "check") /\ UNCHANGED bag /\ live(c) /\ h.pc = "bind" /\ h.kind = "workflow"
      BY <1>t, <1>p, <1>4, <2>5 DEF BindWorkflow
    <3> QED BY <1>l, <1>w, <3>1, GotoData
  <2>6. CASE Check(c)
    <3> DEFINE g == [h EXCEPT !.pc = "prepare", !.before = h.dispatched]
               list == [bag[c] EXCEPT ![h.step] = "running"]
    <3>1. handler' = [handler EXCEPT ![c] = g] /\ Mark(c, list) /\ live(c) /\ h.pc = "check"
      BY <1>t, <1>p, <1>4, <2>6, TabTypes DEF Check
    <3>2. g.pc = "prepare" /\ g.kind = h.kind /\ g.dispatched = h.dispatched /\ g.step = h.step /\ g.bagged = h.bagged
          /\ g.report = h.report
      BY <1>0 DEF Handler
    <3> HIDE DEF g
    <3>3. Claims(g)
      BY <3>1, <3>2 DEF Claims
    <3>4. bag'[c] = list
      BY <1>0, <1>l, <3>1 DEF Mark
    <3>5. Covers(g, list, hit[c])
      <4>1. \A i \in Step : list[i] = IF i = h.step THEN "running" ELSE bag[c][i]
        BY <1>0
      <4> HIDE DEF list
      <4>2. \A i \in hit[c] : i < h.step /\ i <= h.step
        BY <1>0, <1>l, <3>1 DEF Covers
      <4>3. h.kind = "workflow" => \A i \in Step : i \in hit[c] \/ i = h.step => list[i] # "unstarted"
        BY <1>0, <1>l, <3>1, <4>1 DEF Covers
      <4> HIDE DEF h
      <4> QED BY <1>l, <3>1, <3>2, <4>2, <4>3 DEF Covers
    <3> HIDE DEF list
    <3> QED BY <1>l, <3>1, <3>2, <3>3, <3>4, <3>5, EditData
  <2>7. CASE Prepare(c)
    <3>1. PICK p \in {"ready", "observe"} : Goto(c, p) /\ UNCHANGED bag /\ live(c) /\ h.pc = "prepare"
      BY <1>t, <1>p, <1>4, <2>7 DEF Prepare, Stepping
    <3> QED BY <1>l, <1>w, <3>1, GotoData DEF Stepping
  <2>8. CASE Dispatch(c)
    <3> DEFINE call == IF h.kind # "tab" /\ owner = 0 THEN "cut" ELSE "pending"
               g == [h EXCEPT !.pc = "input", !.dispatched = TRUE, !.call = call]
    <3>1. handler' = [handler EXCEPT ![c] = g] /\ bag' = bag /\ h.pc = "ready" /\ live(c)
      BY <1>t, <1>4, <2>8, TabTypes DEF Dispatch, Stepping
    <3> HIDE DEF call
    <3>2. g.pc = "input" /\ g.kind = h.kind /\ g.dispatched = TRUE /\ g.step = h.step /\ g.bagged = h.bagged
          /\ g.report = h.report
      BY <1>0 DEF Handler
    <3> HIDE DEF g
    <3>3. Claims(g)
      BY <3>1, <3>2 DEF Claims
    <3>4. Covers(g, bag'[c], hit[c])
      BY <1>l, <3>1, <3>2 DEF Covers
    <3> QED BY <1>l, <3>1, <3>2, <3>3, <3>4, EditData
  <2>9. CASE InputDone(c)
    <3>1. PICK p \in {"observe", "prepare"} :
            handler' = [handler EXCEPT ![c].pc = p, ![c].call = "none"] /\ UNCHANGED bag /\ live(c) /\ h.pc = "input"
      BY <1>t, <1>p, <1>4, <2>9 DEF InputDone, Stepping
    <3> DEFINE g == [h EXCEPT !.pc = p, !.call = "none"]
    <3>2. g.pc = p /\ g.kind = h.kind /\ g.dispatched = h.dispatched /\ g.step = h.step /\ g.bagged = h.bagged
          /\ g.report = h.report
      BY <1>0 DEF Handler
    <3>3. handler' = [handler EXCEPT ![c] = g]
      BY <3>1, TabTypes
    <3> HIDE DEF g
    <3>4. Claims(g)
      BY <3>1, <3>2 DEF Claims
    <3>5. Covers(g, bag'[c], hit[c])
      BY <1>l, <3>1, <3>2 DEF Covers
    <3> QED BY <1>l, <3>1, <3>2, <3>3, <3>4, <3>5, EditData
  <2>10. CASE StepDone(c)
    <3> DEFINE more == h.step < MaxStep
               p == IF more THEN "check" ELSE "capture"
               n == IF more THEN h.step + 1 ELSE h.step
               g == [h EXCEPT !.pc = p, !.step = n]
               list == [bag[c] EXCEPT ![h.step] = "completed"]
    <3>1. handler' = [handler EXCEPT ![c] = g] /\ Mark(c, list) /\ live(c) /\ h.pc = "observe" /\ h.kind = "workflow"
      BY <1>t, <1>p, <1>4, <2>10, TabTypes DEF StepDone, Stepping
    <3>2. p \in {"check", "capture"} /\ n \in Nat /\ h.step <= n /\ (p = "check" => h.step < n)
      <4>1. h.step \in Nat
        BY <1>0
      <4> HIDE DEF h
      <4> QED BY <4>1
    <3> HIDE DEF p, n
    <3>3. g.pc = p /\ g.kind = h.kind /\ g.dispatched = h.dispatched /\ g.step = n /\ g.bagged = h.bagged
          /\ g.report = h.report
      BY <1>0 DEF Handler
    <3> HIDE DEF g
    <3>4. Claims(g)
      BY <3>1, <3>2, <3>3 DEF Claims
    <3>5. bag'[c] = list
      BY <1>0, <1>l, <3>1 DEF Mark
    <3>6. Covers(g, list, hit[c])
      <4>1. \A i \in Step : list[i] = IF i = h.step THEN "completed" ELSE bag[c][i]
        BY <1>0
      <4> HIDE DEF list
      <4>2. \A i \in hit[c] : i <= n /\ (p = "check" => i < n)
        <5>1. \A i \in hit[c] : i <= h.step /\ i \in Nat
          BY <1>0, <1>l, <3>1 DEF Covers
        <5>2. h.step \in Nat
          BY <1>0
        <5> HIDE DEF h
        <5> QED BY <3>2, <5>1, <5>2
      <4>3. \A i \in Step : i \in hit[c] => list[i] # "unstarted"
        BY <1>0, <1>l, <3>1, <4>1 DEF Covers
      <4>4. hit[c] # {} => h.dispatched
        BY <1>l, <3>1 DEF Covers
      <4> QED BY <3>1, <3>2, <3>3, <4>2, <4>3, <4>4 DEF Covers
    <3> HIDE DEF list
    <3> QED BY <1>l, <3>1, <3>3, <3>4, <3>5, <3>6, EditData
  <2>11. ~(InputFails(c) \/ Observe(c) \/ Loaded(c) \/ Capture(c))
    BY <1>t, <1>4 DEF InputFails, Observe, Loaded, Capture, Stepping
  <2> QED BY <2>1, <2>2, <2>3, <2>4, <2>5, <2>6, <2>7, <2>8, <2>9, <2>10, <2>11 DEF HandlerStep
<1> QED BY <1>1, <1>2, <1>3, <1>4
\* A record with the same claims.
Alike(h, g) ==
  /\ g.pc = h.pc /\ g.kind = h.kind /\ g.dispatched = h.dispatched
  /\ g.step = h.step /\ g.bagged = h.bagged /\ g.report = h.report

\* What is told of a record is told of one alike.
LEMMA ToldAlike ==
  ASSUME NEW h, NEW g, NEW list, NEW landed, NEW report, Alike(h, g), Told(h, list, landed, report)
  PROVE  Told(g, list, landed, report)
<1>1. Claims(g)
  BY DEF Told, Claims, Alike
<1>2. Covers(h, list, landed) => Covers(g, list, landed)
  BY DEF Covers, Alike
<1>3. Admits(h, report) => Admits(g, report)
  BY DEF Admits, Alike
<1> QED BY <1>1, <1>2, <1>3 DEF Told

\* The input at hand may land.
LEMMA ToldLanded ==
  ASSUME NEW h, NEW list, NEW landed, NEW report, h.pc = "input", h.step \in Step, Told(h, list, landed, report)
  PROVE  Told(h, list, landed \cup {h.step}, report)
<1>1. h.step \in Nat
  BY DEF Step
<1>2. Covers(h, list, landed) => Covers(h, list, landed \cup {h.step})
  BY <1>1 DEF Covers
<1> QED BY <1>2 DEF Told, Admits

\* A handler's step, as its command's report sees it.
LEMMA ToldFaithful ==
  ASSUME TypeOK, NEW c \in Cmd, Faithful(c), UNCHANGED history, Told(handler[c], bag[c], hit[c], sent[c])
  PROVE  Told(handler'[c], bag'[c], hit'[c], sent'[c])
<1>1. hit' = hit /\ sent' = sent
  BY DEF history
<1> QED BY <1>1 DEF Told, Faithful, Admits, abandoned

\* What runCommand returned stays true while nothing more is sent.
LEMMA ReturnedKept ==
  ASSUME Returned, UNCHANGED chain,
         turn.at \in {"releasing", "sending"} =>
           LET h == handler[turn.cmd]
               g == handler'[turn.cmd]
           IN  /\ g.kind = h.kind
               /\ h.pc \in Idle \/ h.dead => g.dispatched = h.dispatched /\ (g.pc \in Idle \/ g.dead)
  PROVE  Returned'
<1>1. turn' = turn /\ outcome' = outcome
  BY DEF chain
<1> QED BY <1>1 DEF Returned

\* What runCommand returns says what the handler's flag says.
LEMMA Returns ==
  ASSUME TypeOK, NEW c \in Cmd, Claims(handler[c])
  PROVE  \A r \in {failure(c), plainFailure(c), timedOut(c)} :
              r.dispatched = handler[c].dispatched /\ (r.steps => handler[c].kind = "workflow")
<1> DEFINE h == handler[c]
<1>0. h.dispatched \in BOOLEAN /\ h.bagged \in BOOLEAN /\ h.report \in Report
  <2>1. h \in Handler
    BY OneHandler
  <2> HIDE DEF h
  <2> QED BY <2>1 DEF Handler
<1>b. h.bagged => h.kind = "workflow"
  BY DEF Claims
<1>1. /\ plainFailure(c).dispatched = h.dispatched /\ (plainFailure(c).steps => h.kind = "workflow")
      /\ DOMAIN plainFailure(c) = {"ok", "status", "dispatched", "steps"}
  <2>1. CASE h.dispatched \/ ~live(c)
    <3> DEFINE s == IF h.dispatched THEN "uncertain" ELSE "cancelled"
    <3>1. plainFailure(c) = [ok |-> FALSE, status |-> s, dispatched |-> h.dispatched, steps |-> h.bagged]
      BY <2>1 DEF plainFailure
    <3> HIDE DEF s, h
    <3> QED BY <1>b, <3>1
  <2>2. CASE ~(h.dispatched \/ ~live(c))
    <3>1. plainFailure(c) = NoReport /\ h.dispatched = FALSE
      BY <1>0, <2>2 DEF plainFailure
    <3> HIDE DEF h
    <3>2. plainFailure(c).dispatched = FALSE /\ plainFailure(c).steps = FALSE
          /\ DOMAIN plainFailure(c) = {"ok", "status", "dispatched", "steps"}
      BY <3>1 DEF NoReport
    <3> QED BY <3>1, <3>2
  <2> QED BY <2>1, <2>2
<1>2. timedOut(c).dispatched = h.dispatched /\ (timedOut(c).steps => h.kind = "workflow")
  <2> DEFINE r == plainFailure(c)
             s == IF h.dispatched THEN "uncertain" ELSE "cancelled"
  <2>1. timedOut(c) = [r EXCEPT !.status = s, !.dispatched = h.dispatched, !.steps = h.bagged]
    BY DEF timedOut
  <2>2. DOMAIN r = {"ok", "status", "dispatched", "steps"}
    BY <1>1
  <2> HIDE DEF r, s, h
  <2> QED BY <1>b, <2>1, <2>2
<1>3. \A s : workflowReport(c, s).dispatched = h.dispatched
             /\ [workflowReport(c, s) EXCEPT !.steps = FALSE].dispatched = h.dispatched
             /\ ~[workflowReport(c, s) EXCEPT !.steps = FALSE].steps
  BY DEF workflowReport
<1>4. failure(c).dispatched = h.dispatched /\ (failure(c).steps => h.kind = "workflow")
  <2>1. CASE h.report # NoReport
    <3>1. failure(c) = h.report
      BY <2>1 DEF failure
    <3> QED BY <2>1, <3>1 DEF Claims
  <2>2. CASE h.report = NoReport /\ h.bagged
    BY <1>3, <2>2 DEF failure, Claims
  <2>3. CASE h.report = NoReport /\ ~h.bagged /\ h.err = "unobserved"
    BY <1>3, <2>3 DEF failure
  <2>4. CASE h.report = NoReport /\ ~h.bagged /\ h.err # "unobserved"
    BY <1>1, <2>4 DEF failure
  <2> QED BY <2>1, <2>2, <2>3, <2>4
<1> QED BY <1>1, <1>2, <1>4

\* The answer to attach, heard by a handler nothing has landed for yet.
LEMMA HearAttachData ==
  ASSUME TypeOK, Bounds, TabInv, HearAttach, \A c \in Cmd : Told(handler[c], bag[c], hit[c], sent[c])
  PROVE  LET c == replies[1].by IN c \in Cmd /\ Faithful(c) /\ Others(c) /\ bag' = bag /\ handler[c].pc = "attaching"
<1> DEFINE c == replies[1].by
           h == handler[c]
<1>1. c \in Cmd /\ h.pc = "attaching" /\ session # c
      /\ \/ handler' = [handler EXCEPT ![c] = [h EXCEPT !.pc = "bind"]]
         \/ \E e \in Error : handler' = [handler EXCEPT ![c] = [h EXCEPT !.pc = "dropping", !.err = e]]
         \/ Over(c)
  BY HearAttachEffect DEF TabInv
<1>2. Head(replies) = replies[1] /\ bag' = bag
  BY HeadTailProperties DEF HearAttach, Attached, Throw, TypeOK
<1> SUFFICES Faithful(c) /\ Others(c)
  BY <1>1, <1>2
<1>c. Head(replies).by = c
  BY <1>2
<1> HIDE DEF c
<1>3. Told(h, bag[c], hit[c], sent[c]) /\ Claims(h) /\ (~abandoned(c) => Covers(h, bag[c], hit[c]))
  BY <1>1 DEF Told, abandoned
<1>4. h \in Handler
  BY <1>1, OneHandler
<1>5. ASSUME NEW g, handler' = [handler EXCEPT ![c] = g], g.pc \in {"bind", "dropping"},
             g.kind = h.kind, g.dispatched = h.dispatched, g.step = h.step, g.bagged = h.bagged, g.report = h.report
      PROVE  Faithful(c) /\ Others(c)
  <2>1. handler'[c] = g /\ Others(c)
    BY <1>1, <1>5, TabTypes DEF Others
  <2>2. Claims(g)
    BY <1>1, <1>3, <1>5 DEF Claims
  <2>3. ~abandoned(c) => Covers(g, bag[c], hit[c])
    BY <1>1, <1>3, <1>5 DEF Covers
  <2> QED BY <1>2, <1>5, <2>1, <2>2, <2>3 DEF Faithful
<1>6. CASE handler' = [handler EXCEPT ![c] = [h EXCEPT !.pc = "bind"]]
  <2> DEFINE g == [h EXCEPT !.pc = "bind"]
  <2>1. g.pc = "bind" /\ g.kind = h.kind /\ g.dispatched = h.dispatched /\ g.step = h.step /\ g.bagged = h.bagged
        /\ g.report = h.report
    BY <1>4 DEF Handler
  <2>2. handler' = [handler EXCEPT ![c] = g]
    BY <1>6
  <2> HIDE DEF g, h
  <2> QED BY <1>5, <2>1, <2>2
<1>7. CASE \E e \in Error : handler' = [handler EXCEPT ![c] = [h EXCEPT !.pc = "dropping", !.err = e]]
  <2>1. PICK e \in Error : handler' = [handler EXCEPT ![c] = [h EXCEPT !.pc = "dropping", !.err = e]]
    BY <1>7
  <2> DEFINE g == [h EXCEPT !.pc = "dropping", !.err = e]
  <2>2. g.pc = "dropping" /\ g.kind = h.kind /\ g.dispatched = h.dispatched /\ g.step = h.step /\ g.bagged = h.bagged
        /\ g.report = h.report
    BY <1>4 DEF Handler
  <2>3. handler' = [handler EXCEPT ![c] = g]
    BY <2>1
  <2> HIDE DEF g, h
  <2> QED BY <1>5, <2>2, <2>3
<1>8. CASE Over(c)
  <2>1. CASE Throw(c, "failed")
    <3>1. "failed" \in Error
      BY DEF Error
    <3> QED BY <1>1, <1>2, <1>3, <2>1, <3>1, ThrowData
  <2>2. ASSUME NEW e \in Error, Unwind(c, [h EXCEPT !.err = e])
        PROVE  Faithful(c) /\ Others(c)
    <3>1. [h EXCEPT !.err = e] \in Handler
      BY <1>4, Edited
    <3> DEFINE r == [h EXCEPT !.err = e]
    <3>2. r.report = h.report /\ r.kind = h.kind /\ r.dispatched = h.dispatched /\ r.bagged = h.bagged /\ r.step = h.step
      BY <1>4 DEF Handler
    <3> HIDE DEF r
    <3>3. Unwind(c, r) /\ r \in Handler
      BY <2>2, <3>1 DEF r
    <3>4. /\ Claims(handler'[c]) /\ handler'[c].pc \notin {"input", "check"}
          /\ ~abandoned(c) => /\ handler'[c].dispatched = h.dispatched /\ handler'[c].kind = h.kind
                              /\ handler'[c].step = h.step /\ handler'[c].pc \in {"leaving", "settled"}
      BY <1>1, <1>3, <3>2, <3>3, UnwindData DEF Claims
    <3>5. ~abandoned(c) => Covers(handler'[c], bag[c], hit[c])
      BY <1>1, <1>3, <3>4 DEF Covers
    <3> QED BY <1>2, <1>3, <1>8, <3>4, <3>5 DEF Faithful, Over
  <2>3. CASE \E e \in Error : Unwind(c, [h EXCEPT !.err = e])
    BY <1>1, <1>2, <2>2, <2>3
  <2>4. CASE ~Throw(c, "failed") /\ ~ \E e \in Error : Unwind(c, [h EXCEPT !.err = e])
    <3>1. Attached(c)
      BY <1>2, <1>c, <2>4 DEF HearAttach
    <3> DEFINE error == IF ~live(c) THEN "cancelled" ELSE IF detached THEN "uncertain" ELSE "failed"
    <3>2. error \in Error
      BY DEF Error
    <3>3. \/ handler' = [handler EXCEPT ![c].pc = "bind"]
          \/ handler' = [handler EXCEPT ![c].pc = "dropping", ![c].err = error]
      BY <2>4, <3>1, <3>2 DEF Attached, Goto
    <3> HIDE DEF error
    <3>4. \/ handler' = [handler EXCEPT ![c] = [h EXCEPT !.pc = "bind"]]
          \/ handler' = [handler EXCEPT ![c] = [h EXCEPT !.pc = "dropping", !.err = error]]
      BY <1>1, <3>3, TabTypes
    <3> QED BY <1>1, <1>2, <1>6, <1>7, <3>2, <3>4
  <2> QED BY <1>1, <1>2, <2>1, <2>3, <2>4
<1> QED BY <1>1, <1>6, <1>7, <1>8

\* The answer to a detach, heard by the handler that asked for it.
LEMMA HearDetachData ==
  ASSUME TypeOK, Bounds, TabInv, HearDetach, NEW c \in Cmd, handler'[c] # handler[c],
         Claims(handler[c]), ~abandoned(c) => Covers(handler[c], bag[c], hit[c])
  PROVE  Faithful(c) /\ handler[c].pc \notin Idle
         /\ (~abandoned(c) => handler'[c].pc \in Idle /\ handler'[c].dispatched = handler[c].dispatched)
<1> DEFINE h == handler[c]
           e == IF h.pc = "dropping" /\ ~live(c) THEN "cancelled" ELSE h.err
           r == [h EXCEPT !.err = e]
<1>0. h \in Handler /\ Head(replies) = replies[1] /\ bag' = bag
  BY OneHandler, HeadTailProperties DEF HearDetach, TypeOK
<1>1. handler' = [handler EXCEPT ![c] = settled(c, r)] /\ h.pc \in {"leaving", "dropping"}
  BY <1>0, TabTypes DEF HearDetach
<1>2. e \in Error
  <2>1. h.err \in Error /\ "cancelled" \in Error
    BY <1>0 DEF Handler, Error
  <2> QED BY <2>1
<1> HIDE DEF e
<1>3. handler'[c] = IF abandoned(c) THEN NoHandler ELSE [r EXCEPT !.pc = "settled", !.call = "none"]
  BY <1>1, TabTypes DEF settled
<1> DEFINE g == [r EXCEPT !.pc = "settled", !.call = "none"]
<1>4. /\ g.pc = "settled" /\ g.kind = h.kind /\ g.dispatched = h.dispatched /\ g.step = h.step /\ g.bagged = h.bagged
      /\ g.report = h.report
  BY <1>0, <1>2 DEF Handler
<1> HIDE DEF g, r, h
<1>5. Claims(g)
  BY <1>1, <1>4 DEF Claims, h
<1>6. ~abandoned(c) => Covers(g, bag[c], hit[c])
  BY <1>1, <1>4 DEF Covers, h
<1>7. CASE abandoned(c)
  BY <1>1, <1>3, <1>7, Absent DEF Faithful, Claims, h, Idle
<1>8. CASE ~abandoned(c)
  BY <1>0, <1>1, <1>3, <1>4, <1>5, <1>6, <1>8 DEF Faithful, h, g, Idle
<1> QED BY <1>7, <1>8

\* The turn moves on: take, start, give up, answer.
LEMMA TakeTold ==
  ASSUME TypeOK, Bounds, TabInv, ReportInv, NEW kind \in {"tab", "plain", "workflow"}, Take(kind)
  PROVE  ReportInv'
<1> DEFINE n == turn.cmd + 1
<1>1. n \in Cmd /\ turn' = [cmd |-> n, at |-> "taken"] /\ UNCHANGED <<bag, hit, sent>> /\ n > turn.cmd
      /\ turn.at = "idle"
  <2>1. turn.cmd \in 0 .. MaxCmd /\ turn.cmd < MaxCmd /\ turn.at = "idle" /\ turn' = [cmd |-> n, at |-> "taken"]
        /\ UNCHANGED <<bag, hit, sent>>
    BY DEF Take, history, TypeOK
  <2> QED BY <2>1, Constants DEF Cmd
<1>2. handler' = [handler EXCEPT ![n] = [handler[n] EXCEPT !.kind = kind, !.policy = policy, !.epoch = epoch]]
  BY <1>1, TabTypes DEF Take
<1> HIDE DEF n
<1>3. handler[n] = NoHandler /\ hit[n] = {} /\ ~abandoned(n)
  BY <1>1, TurnFacts DEF TabInv, Turns
<1> DEFINE g == [NoHandler EXCEPT !.kind = kind, !.policy = policy, !.epoch = epoch]
<1>4. g.pc = "none" /\ ~g.dispatched /\ ~g.bagged /\ g.report = NoReport /\ g.kind = kind
  BY DEF NoHandler
<1>5. handler'[n] = g /\ \A c \in Cmd \ {n} : handler'[c] = handler[c]
  BY <1>1, <1>2, <1>3, TabTypes
<1> HIDE DEF g
<1>6. Told(g, bag[n], {}, sent[n])
  BY <1>3, <1>4 DEF Told, Claims, Covers, abandoned
<1>7. \A c \in Cmd : Told(handler'[c], bag'[c], hit'[c], sent'[c])
  BY <1>1, <1>3, <1>5, <1>6 DEF ReportInv
<1>8. Returned'
  BY <1>1 DEF Returned
<1> QED BY <1>7, <1>8 DEF ReportInv

\* The handler starts, or the command is refused before it does.
LEMMA RunTold ==
  ASSUME TypeOK, Bounds, TabInv, ReportInv, RunCommand
  PROVE  ReportInv'
<1> DEFINE c == turn.cmd
           h == handler[c]
           g == [h EXCEPT !.pc = "authorize"]
<1>1. c \in Cmd /\ turn.at = "taken" /\ h.pc = "none" /\ UNCHANGED <<bag, hit, sent>>
  BY HasTurn DEF RunCommand, TabInv, Turns, history
<1>2. h \in Handler /\ turn = [cmd |-> turn.cmd, at |-> turn.at]
  BY <1>1, OneHandler, TurnFacts DEF TabInv
<1>3. g.pc = "authorize" /\ g.kind = h.kind /\ g.dispatched = h.dispatched /\ g.step = h.step /\ g.bagged = h.bagged
      /\ g.report = h.report
  BY <1>2 DEF Handler
<1>4. Told(h, bag[c], hit[c], sent[c])
  BY <1>1 DEF ReportInv
<1>5. CASE live(c)
  <2>1. handler' = [handler EXCEPT ![c] = g] /\ turn' = [turn EXCEPT !.at = "running"]
    BY <1>1, <1>5, TabTypes DEF RunCommand
  <2> HIDE DEF g
  <2>2. handler'[c] = g /\ (\A d \in Cmd \ {c} : handler'[d] = handler[d]) /\ turn'.at = "running"
    BY <1>1, <1>2, <2>1, TabTypes
  <2> HIDE DEF c, h
  <2>3. Told(g, bag[c], hit[c], sent[c])
    BY <1>1, <1>3, <1>4 DEF Told, Claims, Covers, Admits
  <2>4. \A d \in Cmd : Told(handler'[d], bag'[d], hit'[d], sent'[d])
    BY <1>1, <2>2, <2>3 DEF ReportInv
  <2>5. Returned'
    BY <2>2 DEF Returned
  <2> QED BY <2>4, <2>5 DEF ReportInv
<1>6. CASE ~live(c)
  <2>1. handler' = handler /\ turn'.cmd = c /\ outcome' = NoReport
    BY <1>1, <1>2, <1>6 DEF RunCommand
  <2>2. ~h.dispatched
    BY <1>1, <1>4 DEF Told, Claims
  <2>3. h.dispatched \in BOOLEAN
    <3> HIDE DEF h
    <3> QED BY <1>2 DEF Handler
  <2>4. outcome'.dispatched = FALSE /\ outcome'.steps = FALSE
    BY <2>1 DEF NoReport
  <2>5. outcome'.dispatched = handler'[turn'.cmd].dispatched
    BY <2>1, <2>2, <2>3, <2>4
  <2>6. Returned'
    BY <1>1, <2>1, <2>4, <2>5 DEF Returned, Idle
  <2> QED BY <1>1, <2>1, <2>6 DEF ReportInv
<1> QED BY <1>5, <1>6

\* runCommand returns: nothing more will be sent.
LEMMA ReturnTold ==
  ASSUME TypeOK, Bounds, TabInv, ReportInv, RaceSettles \/ Confirm \/ Timeout
  PROVE  ReportInv'
<1> DEFINE c == turn.cmd
           h == handler[c]
           g == [h EXCEPT !.dead = TRUE]
<1>1. /\ turn'.cmd = c /\ c \in Cmd /\ turn.at \in {"running", "confirming"} /\ Others(c)
      /\ UNCHANGED <<bag, hit, sent>> /\ (handler' = handler \/ handler'[c] = g)
  BY ChainEffect DEF TabInv, history
<1>2. h \in Handler
  BY <1>1, OneHandler
<1>3. Alike(h, g) /\ Alike(h, h)
  BY <1>2 DEF Alike, Handler
<1>4. \A d \in Cmd : Told(handler'[d], bag'[d], hit'[d], sent'[d])
  <2>1. Told(h, bag[c], hit[c], sent[c])
    BY <1>1 DEF ReportInv
  <2> HIDE DEF g, h
  <2>2. Told(g, bag[c], hit[c], sent[c])
    BY <1>3, <2>1, ToldAlike
  <2> QED BY <1>1, <2>1, <2>2 DEF ReportInv, Others, h
<1>5. Claims(h)
  BY <1>1 DEF ReportInv, Told
<1>6. turn.at = "confirming" => h.pc \in Idle \/ h.dead
  BY <1>1, TurnFacts DEF TabInv
<1>7. ASSUME turn'.at \in {"releasing", "sending"}
      PROVE  /\ outcome'.dispatched = h.dispatched /\ (outcome'.steps => h.kind = "workflow")
             /\ handler'[c].pc \in Idle \/ handler'[c].dead
             /\ Alike(h, handler'[c])
  <2>t. turn = [cmd |-> turn.cmd, at |-> turn.at]
    BY <1>1, TurnFacts DEF TabInv
  <2>r. \A r \in {failure(c), plainFailure(c), timedOut(c)} :
          r.dispatched = h.dispatched /\ (r.steps => h.kind = "workflow")
    BY <1>1, <1>5, Returns
  <2>1. CASE RaceSettles
    <3>1. handler' = handler /\ h.pc = "settled"
      BY <2>1 DEF RaceSettles, handlers
    <3>2. CASE h.err = "none"
      BY <1>7, <2>1, <2>t, <3>2 DEF RaceSettles
    <3>3. CASE h.err # "none"
      <4>1. outcome' = failure(c)
        BY <2>1, <3>3 DEF RaceSettles, Return
      <4> QED BY <1>3, <2>r, <3>1, <4>1 DEF Idle
    <3> QED BY <3>2, <3>3
  <2>2. CASE Confirm
    <3>1. handler' = handler /\ turn.at = "confirming"
      BY <2>2 DEF Confirm, handlers
    <3>2. CASE permitted(c)
      <4>1. outcome' = [ok |-> TRUE, status |-> "completed", dispatched |-> h.dispatched, steps |-> h.bagged]
        BY <2>2, <3>2 DEF Confirm, Return
      <4>2. outcome'.dispatched = h.dispatched /\ outcome'.steps = h.bagged
        BY <4>1
      <4>3. h.bagged => h.kind = "workflow"
        BY <1>5 DEF Claims
      <4> QED BY <1>3, <1>6, <3>1, <4>2, <4>3
    <3>3. CASE ~permitted(c)
      <4>1. outcome' = plainFailure(c)
        BY <2>2, <3>3 DEF Confirm, Return
      <4> QED BY <1>3, <1>6, <2>r, <3>1, <4>1
    <3> QED BY <3>2, <3>3
  <2>3. CASE Timeout
    <3>1. handler' = [handler EXCEPT ![c] = g]
      BY <2>3, TabTypes DEF Timeout
    <3>2. handler'[c] = g
      BY <1>1, <3>1, TabTypes
    <3>3. turn.at = "running" /\ outcome' = timedOut(c)
      BY <1>7, <2>3, <2>t DEF Timeout, Return, chain
    <3>4. g.dead
      BY <1>2 DEF Handler
    <3> HIDE DEF g, h
    <3> QED BY <1>3, <2>r, <3>2, <3>3, <3>4
  <2> QED BY <2>1, <2>2, <2>3
<1> HIDE DEF g, h
<1>8. Returned'
  BY <1>1, <1>7 DEF Returned, Alike
<1> QED BY <1>4, <1>8 DEF ReportInv

\* The report is written from the list and the flag as they are by now.
LEMMA SendTold ==
  ASSUME TypeOK, Bounds, TabInv, ReportInv, Send
  PROVE  ReportInv'
<1> DEFINE c == turn.cmd
           h == handler[c]
           g == IF h.pc \in Idle THEN NoHandler ELSE remnant(h)
           report == [at |-> "sent", dispatched |-> outcome.dispatched,
                      unstarted |-> IF outcome.steps THEN {i \in Step : bag[c][i] = "unstarted"} ELSE {}]
<1>1. c \in Cmd /\ turn.at = "sending" /\ turn' = [turn EXCEPT !.at = "idle"] /\ Others(c) /\ handler'[c] = g /\ hit' = hit
  BY SendEffect
<1>2. turn = [cmd |-> turn.cmd, at |-> turn.at]
  BY <1>1, TurnFacts DEF TabInv
<1>3. sent' = [sent EXCEPT ![c] = report] /\ bag' = [bag EXCEPT ![c] = NoSteps]
  BY DEF Send
<1>4. sent'[c] = report /\ \A d \in Cmd \ {c} : sent'[d] = sent[d] /\ bag'[d] = bag[d]
  <2> HIDE DEF report
  <2> QED BY <1>1, <1>3 DEF TypeOK
<1>5. ~abandoned(c) /\ hit[c] \subseteq Step
  BY <1>1, TurnFacts DEF TabInv, TypeOK
<1>6. Told(h, bag[c], hit[c], sent[c]) /\ Covers(h, bag[c], hit[c])
  BY <1>1, <1>5 DEF ReportInv, Told, abandoned
<1>7. outcome.dispatched = h.dispatched /\ (outcome.steps => h.kind = "workflow")
  BY <1>1 DEF ReportInv, Returned
<1>8. h \in Handler /\ h.step \in Step
  BY <1>1, OneHandler
<1>9. g.pc \in {"none", h.pc} /\ (g.pc = "input" => h.pc = "input" /\ g.step = h.step) /\ Claims(g)
  <2>1. CASE h.pc \in Idle
    BY <2>1, Absent DEF Claims
  <2>2. CASE h.pc \notin Idle
    <3>1. g = remnant(h)
      BY <2>2
    <3>2. /\ g.pc = h.pc /\ (g.pc = "input" => g.step = h.step) /\ ~g.dispatched /\ ~g.bagged /\ g.report = NoReport
      BY <1>1, <3>1, RemnantEffect
    <3> HIDE DEF g, h
    <3> QED BY <3>2 DEF Claims
  <2> QED BY <2>1, <2>2
<1> HIDE DEF g
<1>10. report.at = "sent" /\ report.dispatched = h.dispatched
       /\ report.unstarted = IF outcome.steps THEN {i \in Step : bag[c][i] = "unstarted"} ELSE {}
  BY <1>7
<1>11. h.pc = "input" => report.dispatched /\ h.step \notin report.unstarted
  <2> SUFFICES ASSUME h.pc = "input"
               PROVE  report.dispatched /\ h.step \notin report.unstarted
    OBVIOUS
  <2> HIDE DEF report, h
  <2>1. h.dispatched
    BY <1>6 DEF Covers
  <2>2. h.kind = "workflow" => bag[c][h.step] # "unstarted"
    BY <1>6, <1>8 DEF Covers
  <2> QED BY <1>7, <1>10, <2>1, <2>2
<1>12. (~report.dispatched => hit[c] = {}) /\ report.unstarted \cap hit[c] = {}
  <2> HIDE DEF report, h
  <2>1. hit[c] # {} => h.dispatched
    BY <1>6 DEF Covers
  <2>2. h.kind = "workflow" => \A i \in hit[c] : bag[c][i] # "unstarted"
    BY <1>5, <1>6 DEF Covers
  <2> QED BY <1>7, <1>10, <2>1, <2>2
<1> HIDE DEF report
<1>13. Told(g, bag'[c], hit[c], report)
  <2> HIDE DEF h
  <2>1. Admits(g, report)
    BY <1>9, <1>11 DEF Admits
  <2> QED BY <1>9, <1>10, <1>12, <2>1 DEF Told
<1>14. \A d \in Cmd : Told(handler'[d], bag'[d], hit'[d], sent'[d])
  BY <1>1, <1>4, <1>13 DEF ReportInv, Others
<1>15. turn'.at = "idle"
  BY <1>1, <1>2
<1> QED BY <1>14, <1>15 DEF ReportInv, Returned

\* The handlers and Chrome: what the report claims stays true.
LEMMA HandlerTold ==
  ASSUME TypeOK, Bounds, TabInv, ReportInv, NEW c \in Cmd, HandlerStep(c)
  PROVE  ReportInv'
<1>1. Told(handler[c], bag[c], hit[c], sent[c])
  BY DEF ReportInv
<1>2. Claims(handler[c]) /\ (~abandoned(c) => Covers(handler[c], bag[c], hit[c]))
  BY <1>1 DEF Told, abandoned
<1>3. Faithful(c)
  BY <1>2, HandlerData
<1>4. /\ UNCHANGED <<control, chain, chrome, history>> /\ handler[c].pc \in Working
      /\ Over(c) \/ Went(c) \/ Starts(c)
  BY HandlerEffect DEF TabInv
<1>5. Others(c)
  BY <1>4, TabTypes DEF Over, Went, Starts, Others
<1>6. Told(handler'[c], bag'[c], hit'[c], sent'[c])
  BY <1>1, <1>3, <1>4, ToldFaithful
<1>7. \A d \in Cmd : Told(handler'[d], bag'[d], hit'[d], sent'[d])
  BY <1>4, <1>5, <1>6, BagElsewhere DEF ReportInv, Others, history
<1>8. Returned'
  <2>1. ASSUME turn.at \in {"releasing", "sending"}, c = turn.cmd
        PROVE  LET h == handler[turn.cmd]
                   g == handler'[turn.cmd]
               IN  /\ g.kind = h.kind
                   /\ h.pc \in Idle \/ h.dead => g.dispatched = h.dispatched /\ (g.pc \in Idle \/ g.dead)
    <3>1. ~abandoned(c)
      BY <2>1, TurnFacts DEF TabInv
    <3>2. ~live(c)
      BY <1>4, <2>1, Current DEF TabInv, Working, Idle
    <3>3. handler'[c].kind = handler[c].kind /\ handler'[c].dispatched = handler[c].dispatched
      BY <1>3, <3>1, <3>2 DEF Faithful
    <3>4. handler'[c].dead = handler[c].dead
      BY <1>4, <3>1, <3>2 DEF Over, Went, Starts
    <3>5. handler[c].pc \notin Idle
      BY <1>4 DEF Working, Idle
    <3> QED BY <2>1, <3>3, <3>4, <3>5
  <2>2. turn.at \in {"releasing", "sending"} => turn.cmd \in Cmd
    BY HasTurn
  <2> QED BY <1>4, <1>5, <2>1, <2>2, ReturnedKept DEF ReportInv, Others
<1> QED BY <1>7, <1>8 DEF ReportInv

\* An input that lands, or a debugger that closes.
LEMMA ChromeTold ==
  ASSUME TypeOK, Bounds, TabInv, ReportInv, UNCHANGED <<chain, bag, sent>>, \A c \in Cmd : Alike(handler[c], handler'[c]),
         \A c \in Cmd : handler'[c].dead = handler[c].dead,
         \A c \in Cmd : hit'[c] = hit[c] \/ (handler[c].pc = "input" /\ hit'[c] = hit[c] \cup {handler[c].step})
  PROVE  ReportInv'
<1>1. ASSUME NEW c \in Cmd
      PROVE  Told(handler'[c], bag'[c], hit'[c], sent'[c])
  <2>1. Told(handler[c], bag[c], hit[c], sent[c])
    BY DEF ReportInv
  <2>2. Told(handler[c], bag[c], hit'[c], sent[c])
    BY <2>1, OneHandler, ToldLanded
  <2>3. Told(handler'[c], bag[c], hit'[c], sent[c])
    BY <2>2, ToldAlike
  <2> QED BY <2>3
<1>2. turn.at \in {"releasing", "sending"} => turn.cmd \in Cmd
  BY HasTurn
<1>3. Returned'
  BY <1>2, ReturnedKept DEF ReportInv, Alike
<1> QED BY <1>1, <1>3 DEF ReportInv

\* One handler hears Chrome's answer.
LEMMA HeardTold ==
  ASSUME TypeOK, Bounds, TabInv, ReportInv, NEW c \in Cmd, Faithful(c), Others(c), UNCHANGED <<bag, outcome, history>>,
         turn' = turn, handler[c].pc \notin Idle,
         ~abandoned(c) =>
           \/ turn.at = "running"
           \/ handler'[c].dispatched = handler[c].dispatched /\ (handler'[c].dead \/ handler'[c].pc \in Idle)
  PROVE  ReportInv'
<1>1. Told(handler[c], bag[c], hit[c], sent[c])
  BY DEF ReportInv
<1>2. Told(handler'[c], bag'[c], hit'[c], sent'[c])
  BY <1>1, ToldFaithful
<1>3. \A d \in Cmd : Told(handler'[d], bag'[d], hit'[d], sent'[d])
  BY <1>2 DEF ReportInv, Others, history
<1>4. turn.at \in {"releasing", "sending"} => turn.cmd \in Cmd /\ (c = turn.cmd => ~abandoned(c))
  BY HasTurn, TurnFacts DEF TabInv
<1>5. Returned'
  BY <1>4, ReturnedKept DEF ReportInv, Others, Faithful, chain
<1> QED BY <1>3, <1>5 DEF ReportInv

\* Every step keeps the reports honest.
LEMMA ReportKept ==
  ASSUME TypeOK, Bounds, TabInv, ReportInv, [Next]_vars
  PROVE  ReportInv'
<1>h. \A c \in Cmd : handler[c] \in Handler
  BY OneHandler
<1>1. ASSUME NEW d \in Cmd, Lands(d)
      PROVE  ReportInv'
  <2>1. handler' = [handler EXCEPT ![d] = [handler[d] EXCEPT !.call = "landed"]] /\ handler[d].pc = "input"
        /\ hit' = [hit EXCEPT ![d] = hit[d] \cup {handler[d].step}] /\ UNCHANGED <<chain, bag, sent>>
    BY <1>1, TabTypes DEF Lands, TypeOK
  <2>2. \A c \in Cmd : Alike(handler[c], handler'[c]) /\ handler'[c].dead = handler[c].dead
    <3> SUFFICES ASSUME NEW c \in Cmd
                 PROVE  Alike(handler[c], handler'[c]) /\ handler'[c].dead = handler[c].dead
      OBVIOUS
    <3>1. handler'[c] = handler[c] \/ handler'[c] = [handler[c] EXCEPT !.call = "landed"]
      BY <2>1, TabTypes
    <3> QED BY <1>h, <3>1 DEF Handler, Alike
  <2>3. \A c \in Cmd : hit'[c] = hit[c] \/ (handler[c].pc = "input" /\ hit'[c] = hit[c] \cup {handler[c].step})
    BY <2>1 DEF TypeOK
  <2> QED BY <2>1, <2>2, <2>3, ChromeTold
<1>2. CASE ServeDetach \/ Dismiss
  <2>1. handler' = cutOff /\ UNCHANGED <<chain, bag, sent, hit>>
    BY <1>2 DEF ServeDetach, Dismiss
  <2>2. \A c \in Cmd : Alike(handler[c], handler'[c]) /\ handler'[c].dead = handler[c].dead
    <3> SUFFICES ASSUME NEW c \in Cmd
                 PROVE  Alike(handler[c], handler'[c]) /\ handler'[c].dead = handler[c].dead
      OBVIOUS
    <3>1. \E call \in {"none", "pending", "landed", "cut"} : handler'[c] = [handler[c] EXCEPT !.call = call]
      BY <2>1, CutOffEffect
    <3> QED BY <1>h, <3>1 DEF Handler, Alike
  <2> QED BY <2>1, <2>2, ChromeTold
<1>3. CASE UNCHANGED <<chain, handlers, sent, hit>>
  BY <1>3, ChromeTold DEF Alike, handlers
<1>4. CASE HearAttach
  <2> DEFINE c == replies[1].by
  <2>1. c \in Cmd /\ Faithful(c) /\ Others(c) /\ bag' = bag /\ handler[c].pc = "attaching"
    BY <1>4, HearAttachData DEF ReportInv
  <2>2. UNCHANGED <<chain, history>>
    BY <1>4 DEF HearAttach
  <2>3. /\ \/ handler' = [handler EXCEPT ![c] = [handler[c] EXCEPT !.pc = "bind"]]
           \/ \E e \in Error : handler' = [handler EXCEPT ![c] = [handler[c] EXCEPT !.pc = "dropping", !.err = e]]
           \/ Over(c)
    BY <1>4, HearAttachEffect DEF TabInv
  <2> HIDE DEF c
  <2>4. ~abandoned(c) => handler'[c].dead = handler[c].dead
    <3>1. \/ handler'[c] = [handler[c] EXCEPT !.pc = "bind"]
          \/ \E e \in Error : handler'[c] = [handler[c] EXCEPT !.pc = "dropping", !.err = e]
          \/ Over(c)
      BY <2>1, <2>3, TabTypes
    <3> QED BY <1>h, <2>1, <3>1 DEF Over, Handler
  <2>5. turn.at = "running" \/ handler[c].dead
    BY <2>1, TurnFacts DEF TabInv, Idle
  <2>6. ~abandoned(c) =>
           \/ turn.at = "running"
           \/ handler'[c].dispatched = handler[c].dispatched /\ (handler'[c].dead \/ handler'[c].pc \in Idle)
    BY <2>1, <2>4, <2>5 DEF Faithful, live
  <2> QED BY <2>1, <2>2, <2>6, HeardTold DEF Idle, chain
<1>5. CASE HearDetach
  <2>1. UNCHANGED <<outcome, bag, history>>
    BY <1>5 DEF HearDetach
  <2>2. CASE handler' = handler /\ turn' = turn
    <3> QED BY <1>3, <2>1, <2>2 DEF chain, handlers, history
  <2>3. CASE handler' = handler /\ turn.at = "releasing" /\ turn' = [turn EXCEPT !.at = "sending"]
    <3>1. turn'.cmd = turn.cmd
      BY <2>3 DEF TypeOK
    <3>2. Returned'
      BY <2>1, <2>3, <3>1 DEF ReportInv, Returned
    <3> QED BY <2>1, <2>3, <3>2 DEF ReportInv, history
  <2>4. ASSUME NEW b \in Cmd, UNCHANGED turn, Others(b), handler' # handler
        PROVE  ReportInv'
    <3>1. handler'[b] # handler[b]
      <4>1. handler \in [Cmd -> Handler] /\ handler' \in [Cmd -> Handler]
        BY <1>5, TypesKept, TabTypes DEF Next, ChromeStep, TypeOK, TabInv
      <4> QED BY <2>4, <4>1 DEF Others
    <3>2. Told(handler[b], bag[b], hit[b], sent[b])
      BY DEF ReportInv
    <3>3. Claims(handler[b]) /\ (~abandoned(b) => Covers(handler[b], bag[b], hit[b]))
      BY <3>2 DEF Told, abandoned
    <3>4. Faithful(b) /\ handler[b].pc \notin Idle
          /\ (~abandoned(b) => handler'[b].pc \in Idle /\ handler'[b].dispatched = handler[b].dispatched)
      BY <1>5, <3>1, <3>3, HearDetachData
    <3> QED BY <2>1, <2>4, <3>4, HeardTold
  <2> QED BY <1>5, <2>2, <2>3, <2>4, HearDetachEffect DEF TabInv
<1>6. CASE ServeAttach \/ HearGone \/ HearChange \/ \E what \in {"pause", "resume", "settings"} : Change(what)
  BY <1>3, <1>6 DEF ServeAttach, HearGone, HearChange, Change, history
<1>7. CASE UNCHANGED vars
  BY <1>3, <1>7 DEF vars, history
<1> QED BY <1>1, <1>2, <1>4, <1>5, <1>6, <1>7, TakeTold, RunTold, ReturnTold, SendTold, HandlerTold
        DEF Next, ChainStep, ChromeStep

\* Nothing is told at the start.
LEMMA ReportStarts ==
  ASSUME Init
  PROVE  ReportInv
<1>1. \A c \in Cmd : handler[c] = NoHandler /\ hit[c] = {} /\ sent[c] = Unsent
  BY DEF Init
<1>2. \A list : Told(NoHandler, list, {}, Unsent)
  BY Absent DEF Told, Claims, Covers, Unsent
<1>3. turn.at = "idle"
  BY DEF Init
<1> QED BY <1>1, <1>2, <1>3 DEF ReportInv, Returned

\* HonestReport: a report that does not own up to an input, or to a step, is a
\* promise that none reached the page, before or after it was written
\* (background.js:1376-1378, :1788-1796).
THEOREM ReportsAreHonest == Spec => []HonestReport
<1>1. Spec => [](TypeOK /\ Bounds /\ TabInv /\ ReportInv)
  BY TabStarts, TabKept, ReportStarts, ReportKept, PTL DEF Spec
<1>2. TypeOK /\ Bounds /\ TabInv /\ ReportInv => HonestReport
  BY DEF ReportInv, Told, HonestReport, answered
<1> QED BY <1>1, <1>2, PTL
==============================================================================
