-------------------------------- MODULE Command --------------------------------
(***************************************************************************)
(* How the extension runs one command after another in a tab: the timeout  *)
(* race of runCommand, the handler that may go on after it lost the race,  *)
(* the debugger session of withDebugger, the browser input of cdp, and the *)
(* report (src/extension/background.js: runCommand, withDebugger, cdp,     *)
(* releaseAllDebuggers, cmdWorkflow, the tab commands).                    *)
(*                                                                         *)
(* A handler is a process of its own: the work chain stops waiting for it  *)
(* at the timeout and starts the next command, the handler notices later.  *)
(* Chrome takes attach and detach in order and answers in order; a call    *)
(* into the page may never be answered.  What the page answers (an element *)
(* that is gone, another document, a condition not met) is a choice.       *)
(***************************************************************************)
EXTENDS Naturals, Sequences

CONSTANTS
  MaxCmd,       \* bound on the commands run
  MaxStep,      \* the steps of a workflow
  MaxControl,   \* bound on pauses, resumes and settings changes
  MaxDismiss    \* bound on debugging bars the user dismisses

ASSUME CommandAssumption == MaxCmd \in Nat /\ MaxStep \in Nat \ {0} /\ MaxControl \in Nat /\ MaxDismiss \in Nat

Cmd == 1 .. MaxCmd
Step == 1 .. MaxStep

VARIABLES
  \* chrome.storage, its events still to come, and what the worker heard of it
  enabled, policy, changes, epoch, accepting,
  turn,       \* the work chain: the command in it and how far runCommand is
  outcome,    \* what runCommand returned
  handler,    \* the handler of each command and its control record
  bag,        \* control.report: the step list a workflow keeps up to date
  session,    \* debugSessions: whose session the tab has, 0 for none
  detached,   \* detachedTabs has the tab
  \* Chrome
  owner,      \* the command whose attach opened the debugger, 0 when closed
  calls,      \* attach and detach calls under way to Chrome
  replies     \* its answers and onDetach events under way to the worker

\* What has happened, and the bounds already used.
VARIABLES
  sent,       \* the report each command was answered with
  hit,        \* the steps whose input reached the page
  undercut,   \* the commands whose debugger another handler's detach closed
  used

control == <<enabled, policy, changes, epoch, accepting>>
chain == <<turn, outcome>>
handlers == <<handler, bag>>
tabs == <<session, detached, calls>>
chrome == <<owner, replies>>
history == <<sent, hit, undercut, used>>
vars == <<control, chain, handlers, tabs, chrome, history>>

Chain == 0                \* who asked for a detach: runCommand,
NoOne == MaxCmd + 1       \* or a listener that does not wait for it

Error == {"none", "failed", "unobserved", "uncertain", "cancelled"}
StepStatus == {"unstarted", "running", "completed", "failed", "interrupted", "uncertain"}
Status == {"none", "completed", "cancelled", "interrupted", "uncertain", "unobserved", "failed"}
Report == [ok : BOOLEAN, status : Status, dispatched : BOOLEAN, steps : BOOLEAN]
NoReport == [ok |-> FALSE, status |-> "none", dispatched |-> FALSE, steps |-> FALSE]
Request == [op : {"attach", "detach"}, by : 0 .. NoOne]
Reply == [op : {"attach", "refused", "detach", "gone"}, by : 0 .. NoOne]
NoSteps == [i \in Step |-> "unstarted"]
Unsent == [at |-> "unsent", dispatched |-> FALSE, unstarted |-> {}]

Handler ==
  [kind : {"tab", "plain", "workflow"}, step : Step, epoch : 0 .. MaxControl, policy : 0 .. MaxControl,
   pc : {"none", "authorize", "lookup", "attach", "attaching", "dropping", "bind", "check", "prepare", "ready",
         "input", "observe", "capture", "leaving", "settled"},
   dead : BOOLEAN, dispatched : BOOLEAN, bagged : BOOLEAN, before : BOOLEAN,
   call : {"none", "pending", "landed", "cut"}, err : Error, report : Report]

NoHandler ==
  [kind |-> "plain", pc |-> "none", step |-> 1, epoch |-> 0, policy |-> 0, dead |-> FALSE,
   dispatched |-> FALSE, bagged |-> FALSE, before |-> FALSE, call |-> "none", err |-> "none", report |-> NoReport]

TypeOK ==
  /\ enabled \in BOOLEAN /\ policy \in 0 .. MaxControl /\ epoch \in 0 .. MaxControl /\ accepting \in BOOLEAN
  /\ changes \in Seq({"pause", "resume", "settings"})
  /\ turn \in [cmd : 0 .. MaxCmd, at : {"idle", "taken", "running", "confirming", "releasing", "sending"}]
  /\ outcome \in Report
  /\ handler \in [Cmd -> Handler]
  /\ bag \in [Cmd -> [Step -> StepStatus]]
  /\ session \in 0 .. MaxCmd /\ detached \in BOOLEAN /\ owner \in 0 .. MaxCmd
  /\ calls \in Seq(Request) /\ replies \in Seq(Reply)
  /\ sent \in [Cmd -> [at : {"unsent", "sent"}, dispatched : BOOLEAN, unstarted : SUBSET Step]]
  /\ hit \in [Cmd -> SUBSET Step] /\ undercut \subseteq Cmd
  /\ used \in [control : 0 .. MaxControl, dismiss : 0 .. MaxDismiss]

Init ==
  /\ enabled = TRUE /\ policy = 0 /\ changes = <<>> /\ epoch = 0 /\ accepting = TRUE
  /\ turn = [cmd |-> 0, at |-> "idle"] /\ outcome = NoReport
  /\ handler = [c \in Cmd |-> NoHandler] /\ bag = [c \in Cmd |-> NoSteps]
  /\ session = 0 /\ detached = FALSE /\ owner = 0 /\ calls = <<>> /\ replies = <<>>
  /\ sent = [c \in Cmd |-> Unsent] /\ hit = [c \in Cmd |-> {}] /\ undercut = {}
  /\ used = [control |-> 0, dismiss |-> 0]

-----------------------------------------------------------------------------
(* What every handler checks *)

\* Slip: the timer rejects the race and marks nothing.
Slip_live_timedOut(c) == accepting /\ handler[c].epoch = epoch

\* commandLive: not paused, not superseded, not timed out.
live(c) == accepting /\ handler[c].epoch = epoch /\ ~handler[c].dead

\* assertPermissions: the same, and storage still holds the policy it started with.
permitted(c) == live(c) /\ enabled /\ policy = handler[c].policy

\* The error of a check: the policy's, or one about the page.  cdp names a
\* detach it knows of.
trouble(c) ==
  IF ~permitted(c) THEN {"cancelled"} ELSE {"failed"} \cup IF detached THEN {"uncertain"} ELSE {}

\* The catch of cdp around the browser call.
callError(c) == IF ~live(c) THEN "cancelled" ELSE IF detached THEN "uncertain" ELSE "failed"

Call(op, by) == calls' = Append(calls, [op |-> op, by |-> by])

\* A handler, or a step list, nothing waits for any more leaves nothing behind.
abandoned(c) == sent[c].at = "sent"
Mark(c, steps) == bag' = [bag EXCEPT ![c] = IF abandoned(c) THEN NoSteps ELSE steps]
remnant(r) ==
  [NoHandler EXCEPT !.kind = IF r.kind = "tab" THEN "tab" ELSE "plain", !.pc = r.pc, !.dead = r.dead,
                    !.call = r.call, !.step = IF r.pc = "input" THEN r.step ELSE 1]
settled(c, r) == IF abandoned(c) THEN NoHandler ELSE [r EXCEPT !.pc = "settled", !.call = "none"]

\* The handler is over: r is its record.  The finally of withDebugger detaches
\* a session that is still this command's, and waits for it.
Unwind(c, r) ==
  IF session = c
  THEN /\ session' = 0 /\ Call("detach", c)
       /\ handler' = [handler EXCEPT ![c] = [r EXCEPT !.pc = "leaving", !.call = "none"]]
  ELSE /\ handler' = [handler EXCEPT ![c] = settled(c, r)]
       /\ UNCHANGED <<session, calls>>

\* An error outside the steps: before the session is adopted, while it is being
\* bound, or in a command that is not a workflow.
Throw(c, e) ==
  /\ Unwind(c, [handler[c] EXCEPT !.err = e])
  /\ UNCHANGED <<bag, detached>>

\* Slip: from the step before.
Slip_markUnstarted_early(steps, from) == [i \in Step |-> IF i + 1 >= from THEN "unstarted" ELSE steps[i]]

markUnstarted(steps, from) == [i \in Step |-> IF i >= from THEN "unstarted" ELSE steps[i]]

workflowReport(c, status) ==
  [ok |-> FALSE, status |-> status, dispatched |-> handler[c].dispatched, steps |-> TRUE]

\* The catch around the checks before a step.
checkStatus(c, e) ==
  IF e = "uncertain" \/ handler[c].dispatched THEN "uncertain" ELSE IF ~live(c) THEN "cancelled" ELSE "failed"

CheckThrows(c, e) ==
  LET r == handler[c]
  IN  /\ Mark(c, markUnstarted(bag[c], r.step))
      /\ Unwind(c, [r EXCEPT !.err = e, !.report = workflowReport(c, checkStatus(c, e))])
      /\ UNCHANGED detached

\* The catch around a step.
stepStatus(c, e) ==
  LET dispatched == handler[c].dispatched
  IN  IF e = "unobserved" THEN "unobserved"
      ELSE IF e = "uncertain" \/ (~live(c) /\ dispatched) THEN "uncertain"
      ELSE IF ~live(c) \/ (dispatched /\ ~handler[c].before) THEN "interrupted"
      ELSE "failed"

StepThrows(c, e) ==
  LET r == handler[c]
      status == stepStatus(c, e)
  IN  IF r.kind # "workflow" THEN Throw(c, e)
      ELSE /\ Mark(c, markUnstarted([bag[c] EXCEPT ![r.step] = IF status = "unobserved" THEN "failed" ELSE status],
                                     r.step + 1))
           /\ Unwind(c, [r EXCEPT !.err = e, !.report = workflowReport(c, status)])
           /\ UNCHANGED detached

-----------------------------------------------------------------------------
(* The work chain: takeAndRun and runCommand *)

Take(kind) ==
  /\ turn.at = "idle" /\ turn.cmd < MaxCmd /\ accepting /\ enabled
  /\ turn' = [cmd |-> turn.cmd + 1, at |-> "taken"]
  /\ handler' = [handler EXCEPT ![turn.cmd + 1].kind = kind, ![turn.cmd + 1].policy = policy, ![turn.cmd + 1].epoch = epoch]
  /\ UNCHANGED <<control, outcome, bag, tabs, chrome, history>>

\* The last check of takeAndRun, and the start of the handler and its timer.
RunCommand ==
  LET c == turn.cmd
  IN  /\ turn.at = "taken"
      /\ IF live(c)
         THEN /\ turn' = [turn EXCEPT !.at = "running"]
              /\ handler' = [handler EXCEPT ![c].pc = "authorize"]
              /\ UNCHANGED outcome
         ELSE /\ turn' = [turn EXCEPT !.at = "sending"]
              /\ outcome' = NoReport
              /\ UNCHANGED handler
      /\ UNCHANGED <<control, bag, tabs, chrome, history>>

\* releaseAllDebuggers.
Release(by) ==
  IF session # 0 THEN session' = 0 /\ Call("detach", by) ELSE UNCHANGED <<session, calls>>

\* What runCommand makes of an error that carries no report.
plainFailure(c) ==
  LET r == handler[c]
  IN  IF r.dispatched \/ ~live(c)
      THEN [ok |-> FALSE, status |-> IF r.dispatched THEN "uncertain" ELSE "cancelled",
            dispatched |-> r.dispatched, steps |-> r.bagged]
      ELSE NoReport

\* Slip: a timeout is reported like any other error.
Slip_timedOut_clean(c) == NoReport

\* Its timer set dead before it rejected.
timedOut(c) ==
  [plainFailure(c) EXCEPT !.status = IF handler[c].dispatched THEN "uncertain" ELSE "cancelled",
                          !.dispatched = handler[c].dispatched, !.steps = handler[c].bagged]

\* The catch around withDebugger in cmdWorkflow, for errors outside its steps.
outerStatus(c) ==
  IF handler[c].err = "uncertain" \/ handler[c].dispatched THEN "uncertain"
  ELSE IF ~live(c) THEN "cancelled" ELSE "failed"

failure(c) ==
  LET r == handler[c]
  IN  CASE r.report # NoReport -> r.report
        [] r.report = NoReport /\ r.bagged -> workflowReport(c, outerStatus(c))
        [] r.report = NoReport /\ ~r.bagged /\ r.err = "unobserved" ->
             [workflowReport(c, "unobserved") EXCEPT !.steps = FALSE]
        [] OTHER -> plainFailure(c)

\* Slip: the sessions are forgotten and nobody detaches them.
Slip_Return_forgets(report) ==
  /\ outcome' = report
  /\ turn' = [turn EXCEPT !.at = IF session # 0 THEN "releasing" ELSE "sending"]
  /\ session' = 0 /\ UNCHANGED calls

\* runCommand returns: the finally waits for the detach of what is still attached.
Return(report) ==
  /\ outcome' = report
  /\ turn' = [turn EXCEPT !.at = IF session # 0 THEN "releasing" ELSE "sending"]
  /\ Release(Chain)

RaceSettles ==
  LET c == turn.cmd
  IN  /\ turn.at = "running" /\ handler[c].pc = "settled"
      /\ IF handler[c].err = "none"
         THEN turn' = [turn EXCEPT !.at = "confirming"] /\ UNCHANGED <<outcome, session, calls>>
         ELSE Return(failure(c))
      /\ UNCHANGED <<control, handlers, detached, chrome, history>>

\* The result counts only if the policy still holds.
Confirm ==
  LET c == turn.cmd
  IN  /\ turn.at = "confirming"
      /\ Return(IF permitted(c) THEN [ok |-> TRUE, status |-> "completed", dispatched |-> handler[c].dispatched,
                                      steps |-> handler[c].bagged]
                ELSE plainFailure(c))
      /\ UNCHANGED <<control, handlers, detached, chrome, history>>

Timeout ==
  LET c == turn.cmd
  IN  /\ turn.at \in {"running", "confirming"} /\ ~handler[c].dead
      /\ handler' = [handler EXCEPT ![c].dead = TRUE]
      /\ IF turn.at = "running" THEN Return(timedOut(c)) ELSE UNCHANGED <<chain, session, calls>>
      /\ UNCHANGED <<control, bag, detached, chrome, history>>

\* finishTaken writes out the report.  Its steps are the list itself, as the
\* handler left it by now.
Send ==
  LET c == turn.cmd
  IN  /\ turn.at = "sending"
      /\ sent' = [sent EXCEPT ![c] = [at |-> "sent", dispatched |-> outcome.dispatched,
                       unstarted |-> IF outcome.steps THEN {i \in Step : bag[c][i] = "unstarted"} ELSE {}]]
      /\ turn' = [turn EXCEPT !.at = "idle"] /\ outcome' = NoReport
      /\ bag' = [bag EXCEPT ![c] = NoSteps]
      /\ handler' = [handler EXCEPT ![c] = IF @.pc \in {"none", "settled"} THEN NoHandler ELSE remnant(@)]
      /\ UNCHANGED <<control, tabs, chrome, hit, undercut, used>>

-----------------------------------------------------------------------------
(* The handler *)

Goto(c, pc) == handler' = [handler EXCEPT ![c].pc = pc]

\* authorizeTab, and the first check of withDebugger.
Authorize(c) ==
  LET r == handler[c]
  IN  /\ r.pc = "authorize"
      /\ \/ /\ permitted(c)
            /\ handler' = [handler EXCEPT ![c].pc = IF r.kind = "tab" THEN "lookup" ELSE "attach",
                                          ![c].bagged = r.kind = "workflow"]
            /\ UNCHANGED <<bag, tabs>>
         \/ \E e \in {"failed", "cancelled"} \cap trouble(c) : Throw(c, e)
      /\ UNCHANGED <<control, chain, chrome, history>>

\* navigate and close look the tab up again before they act.
LookUp(c) ==
  /\ handler[c].pc = "lookup"
  /\ \/ permitted(c) /\ Goto(c, "ready") /\ UNCHANGED <<bag, tabs>>
     \/ \E e \in {"failed", "cancelled"} \cap trouble(c) : Throw(c, e)
  /\ UNCHANGED <<control, chain, chrome, history>>

Attach(c) ==
  /\ handler[c].pc = "attach"
  /\ IF ~live(c) THEN Throw(c, "cancelled")
     ELSE IF session # 0 THEN Throw(c, "failed")
     ELSE /\ detached' = FALSE /\ Call("attach", c)
          /\ Goto(c, "attaching")
          /\ UNCHANGED <<bag, session>>
  /\ UNCHANGED <<control, chain, chrome, history>>

\* Slip: a session that came too late is dropped without a detach.
Slip_Attached_leaks(c) ==
  IF live(c) /\ session = 0 /\ ~detached
  THEN Goto(c, "bind") /\ session' = c /\ UNCHANGED <<bag, detached, calls>>
  ELSE Throw(c, "cancelled")

\* The answer to attach.  A session that came too late is given back, unless a
\* newer command holds the tab.
Attached(c) ==
  LET adopts == live(c) /\ session = 0 /\ ~detached
      error == IF ~live(c) THEN "cancelled" ELSE IF detached THEN "uncertain" ELSE "failed"
  IN  IF adopts
      THEN Goto(c, "bind") /\ session' = c /\ UNCHANGED <<bag, detached, calls>>
      ELSE IF session = 0
      THEN /\ Call("detach", c)
           /\ handler' = [handler EXCEPT ![c].pc = "dropping", ![c].err = error]
           /\ UNCHANGED <<bag, session, detached>>
      ELSE /\ detached' = FALSE
           /\ Unwind(c, [handler[c] EXCEPT !.err = error])
           /\ UNCHANGED bag

\* The reads that need the session before any input: the target a condition
\* names and what it says now,
Bind(c) ==
  /\ handler[c].pc = "bind" /\ handler[c].kind = "plain"
  /\ \/ permitted(c) /\ owner # 0 /\ Goto(c, "prepare") /\ UNCHANGED <<bag, tabs>>
     \/ \E e \in trouble(c) : Throw(c, e)
  /\ UNCHANGED <<control, chain, chrome, history>>

\* and for a workflow the snapshot it was given, or a first look at the page.
BindWorkflow(c) ==
  /\ handler[c].pc = "bind" /\ handler[c].kind = "workflow"
  /\ \/ permitted(c) /\ owner # 0 /\ Goto(c, "check") /\ UNCHANGED <<bag, tabs>>
     \/ \E e \in trouble(c) : Throw(c, e)
  /\ UNCHANGED <<control, chain, chrome, history>>

\* A workflow checks the document before each step.
Check(c) ==
  LET r == handler[c]
  IN  /\ r.pc = "check"
      /\ \/ /\ permitted(c) /\ owner # 0
            /\ handler' = [handler EXCEPT ![c].pc = "prepare", ![c].before = r.dispatched]
            /\ Mark(c, [bag[c] EXCEPT ![r.step] = "running"])
            /\ UNCHANGED tabs
         \/ \E e \in trouble(c) : CheckThrows(c, e)
      /\ UNCHANGED <<control, chain, chrome, history>>

\* The reads of a step: cdp's checks before an input, or all of a step that
\* only looks or waits.
Prepare(c) ==
  LET r == handler[c]
  IN  /\ r.pc = "prepare"
      /\ \/ /\ permitted(c) /\ owner # 0
            /\ Goto(c, "ready") \/ Goto(c, "observe")
            /\ UNCHANGED <<bag, tabs>>
         \/ \E e \in trouble(c) : StepThrows(c, e)
      /\ UNCHANGED <<control, chain, chrome, history>>

\* The browser call, with no await after the last check.
Dispatch(c) ==
  LET r == handler[c]
  IN  /\ r.pc = "ready"
      /\ IF ~live(c) THEN StepThrows(c, "cancelled")
         ELSE IF r.kind # "tab" /\ detached THEN StepThrows(c, "uncertain")
         ELSE /\ handler' = [handler EXCEPT ![c].pc = "input", ![c].dispatched = TRUE,
                                            ![c].call = IF r.kind # "tab" /\ owner = 0 THEN "cut" ELSE "pending"]
              /\ UNCHANGED <<bag, tabs>>
      /\ UNCHANGED <<control, chain, chrome, history>>

\* The call resolved; the policy is read again.  A click is three inputs, a key two.
InputDone(c) ==
  LET r == handler[c]
  IN  /\ r.pc = "input" /\ r.call = "landed"
      /\ IF permitted(c)
         THEN /\ \E next \in {"observe"} \cup IF r.kind = "tab" THEN {} ELSE {"prepare"} :
                   handler' = [handler EXCEPT ![c].pc = next, ![c].call = "none"]
              /\ UNCHANGED <<bag, tabs>>
         ELSE StepThrows(c, IF r.kind = "tab" \/ (live(c) /\ ~detached) THEN "cancelled" ELSE callError(c))
      /\ UNCHANGED <<control, chain, chrome, history>>

\* It was rejected: by Chrome, or because the session ended under it.
InputFails(c) ==
  LET r == handler[c]
  IN  /\ r.pc = "input" /\ r.call \in {"cut", "pending"}
      /\ StepThrows(c, IF r.kind = "tab" THEN "failed" ELSE callError(c))
      /\ UNCHANGED <<control, chain, chrome, history>>

\* waitReady gives up on its condition, with a report of its own.
unready(c) == IF permitted(c) THEN {"unobserved"} ELSE {}

\* What a command wants to see after its input, and its result.
Observe(c) ==
  /\ handler[c].pc = "observe" /\ handler[c].kind = "plain"
  /\ \/ permitted(c) /\ owner # 0 /\ Throw(c, "none")
     \/ \E e \in trouble(c) \cup unready(c) : Throw(c, e)
  /\ UNCHANGED <<control, chain, chrome, history>>

\* The same for a step of a workflow, which goes on to the next.
StepDone(c) ==
  LET r == handler[c]
      more == r.step < MaxStep
  IN  /\ r.pc = "observe" /\ r.kind = "workflow"
      /\ \/ /\ permitted(c) /\ owner # 0
            /\ Mark(c, [bag[c] EXCEPT ![r.step] = "completed"])
            /\ handler' = [handler EXCEPT ![c].pc = IF more THEN "check" ELSE "capture",
                                          ![c].step = IF more THEN @ + 1 ELSE @]
            /\ UNCHANGED tabs
         \/ \E e \in trouble(c) \cup unready(c) : StepThrows(c, e)
      /\ UNCHANGED <<control, chain, chrome, history>>

\* navigate waits for the page to load, and reads where it went.
Loaded(c) ==
  /\ handler[c].pc = "observe" /\ handler[c].kind = "tab"
  /\ \E e \in {"none", "failed", "cancelled"} :
       (e \in trouble(c) \/ (e = "none" /\ permitted(c))) /\ Throw(c, e)
  /\ UNCHANGED <<control, chain, chrome, history>>

\* A workflow that ends with a snapshot captures it under a new id.
Capture(c) ==
  /\ handler[c].pc = "capture"
  /\ \E e \in {"none"} \cup trouble(c) : Throw(c, e)
  /\ UNCHANGED <<control, chain, chrome, history>>

-----------------------------------------------------------------------------
(* Chrome *)

Answer(op, by) == replies' = Append(replies, [op |-> op, by |-> by])

\* The debugger closes: calls that were under way through it are rejected.
cutOff ==
  [c \in Cmd |-> [handler[c] EXCEPT !.call = IF @ # "none" /\ handler[c].kind # "tab" THEN "cut" ELSE @]]

ServeAttach ==
  /\ calls # <<>> /\ Head(calls).op = "attach"
  /\ calls' = Tail(calls)
  /\ \/ owner = 0 /\ owner' = Head(calls).by /\ Answer("attach", Head(calls).by)
     \/ UNCHANGED owner /\ Answer("refused", Head(calls).by)
  /\ UNCHANGED <<control, chain, handlers, session, detached, history>>

ServeDetach ==
  /\ calls # <<>> /\ Head(calls).op = "detach"
  /\ calls' = Tail(calls)
  /\ owner' = 0 /\ handler' = cutOff
  /\ Answer("detach", Head(calls).by)
  /\ undercut' = undercut \cup IF Head(calls).by \in Cmd THEN {owner} \ {0, Head(calls).by} ELSE {}
  /\ UNCHANGED <<control, chain, bag, session, detached, sent, hit, used>>

\* An input reaches the page.
Lands(c) ==
  LET r == handler[c]
  IN  /\ r.pc = "input" /\ r.call = "pending"
      /\ handler' = [handler EXCEPT ![c].call = "landed"]
      /\ hit' = [hit EXCEPT ![c] = @ \cup {r.step}]
      /\ UNCHANGED <<control, chain, bag, tabs, chrome, sent, undercut, used>>

\* The user dismisses the debugging bar, or the tab goes.
Dismiss ==
  /\ owner # 0 /\ used.dismiss < MaxDismiss
  /\ used' = [used EXCEPT !.dismiss = @ + 1]
  /\ owner' = 0 /\ handler' = cutOff
  /\ Answer("gone", NoOne)
  /\ UNCHANGED <<control, chain, bag, tabs, sent, hit, undercut>>

\* Slip: "already attached" is taken for success.
Slip_HearAttach_already ==
  LET c == Head(replies).by
  IN  /\ replies # <<>> /\ Head(replies).op \in {"attach", "refused"}
      /\ replies' = Tail(replies)
      /\ Attached(c)
      /\ UNCHANGED <<control, chain, owner, history>>

HearAttach ==
  LET c == Head(replies).by
  IN  /\ replies # <<>> /\ Head(replies).op \in {"attach", "refused"}
      /\ replies' = Tail(replies)
      /\ IF Head(replies).op = "attach" THEN Attached(c) ELSE Throw(c, "failed")
      /\ UNCHANGED <<control, chain, owner, history>>

\* runCommand's own release, a handler that leaves, or one that gives back a
\* session it did not adopt.
HearDetach ==
  LET c == Head(replies).by
      r == handler[c]
  IN  /\ replies # <<>> /\ Head(replies).op = "detach"
      /\ replies' = Tail(replies)
      /\ turn' = IF c = Chain THEN [turn EXCEPT !.at = "sending"] ELSE turn
      /\ IF c \in Cmd /\ handler[c].pc \in {"leaving", "dropping"}
         THEN /\ detached' = IF r.pc = "dropping" THEN FALSE ELSE detached
              /\ handler' = [handler EXCEPT ![c] =
                   settled(c, [r EXCEPT !.err = IF r.pc = "dropping" /\ ~live(c) THEN "cancelled" ELSE r.err])]
         ELSE UNCHANGED <<handler, detached>>
      /\ UNCHANGED <<control, outcome, bag, session, calls, owner, history>>

\* Slip: onDetach only marks the tab, the session stays.
Slip_HearGone_keeps ==
  /\ replies # <<>> /\ Head(replies).op = "gone"
  /\ replies' = Tail(replies)
  /\ detached' = TRUE
  /\ UNCHANGED <<control, chain, handlers, calls, session, owner, history>>

\* chrome.debugger.onDetach.
HearGone ==
  /\ replies # <<>> /\ Head(replies).op = "gone"
  /\ replies' = Tail(replies)
  /\ session' = 0 /\ detached' = TRUE
  /\ UNCHANGED <<control, chain, handlers, calls, owner, history>>

-----------------------------------------------------------------------------
(* The user *)

Change(what) ==
  /\ used.control < MaxControl
  /\ used' = [used EXCEPT !.control = @ + 1]
  /\ CASE what = "pause" -> enabled /\ enabled' = FALSE /\ UNCHANGED policy
       [] what = "resume" -> ~enabled /\ enabled' = TRUE /\ UNCHANGED policy
       [] what = "settings" -> policy' = policy + 1 /\ UNCHANGED enabled
  /\ changes' = Append(changes, what)
  /\ UNCHANGED <<epoch, accepting, chain, handlers, tabs, chrome, sent, hit, undercut>>

\* The storage listener and applyEnabled.
HearChange ==
  /\ changes # <<>>
  /\ changes' = Tail(changes)
  /\ epoch' = epoch + 1
  /\ accepting' = IF Head(changes) = "settings" THEN accepting ELSE Head(changes) = "resume"
  /\ IF Head(changes) = "resume" THEN UNCHANGED <<session, calls>> ELSE Release(NoOne)
  /\ UNCHANGED <<enabled, policy, chain, handlers, detached, chrome, history>>

ChainStep == RunCommand \/ RaceSettles \/ Confirm \/ Timeout \/ Send
HandlerStep(c) ==
  \/ Authorize(c) \/ LookUp(c) \/ Attach(c) \/ Bind(c) \/ BindWorkflow(c) \/ Check(c) \/ Prepare(c) \/ Dispatch(c)
  \/ InputDone(c) \/ InputFails(c) \/ Observe(c) \/ StepDone(c) \/ Loaded(c) \/ Capture(c)
ChromeStep == ServeAttach \/ ServeDetach \/ Dismiss \/ HearAttach \/ HearDetach \/ HearGone

Next ==
  \/ \E kind \in {"tab", "plain", "workflow"} : Take(kind)
  \/ ChainStep
  \/ \E c \in Cmd : HandlerStep(c) \/ Lands(c)
  \/ ChromeStep
  \/ \E what \in {"pause", "resume", "settings"} : Change(what)
  \/ HearChange

Spec == Init /\ [][Next]_vars

-----------------------------------------------------------------------------
(* Properties *)

answered(c) == sent[c].at = "sent"

\* A report that does not say dispatched is a promise that nothing reached the
\* page, then or later, although the handler may outlive its command; so is a
\* step's "unstarted", also when the report is written from the list a
\* timed-out workflow still works on (background.js:1376-1378, :1788-1796).
HonestReport ==
  \A c \in Cmd : answered(c) =>
    /\ ~sent[c].dispatched => hit[c] = {}
    /\ sent[c].unstarted \cap hit[c] = {}

\* The worker's belief that a command holds the tab is right, or the news that
\* Chrome closed the debugger is on its way (background.js:396-434).  Only a
\* handler whose command is over can take the debugger from under it unseen:
\* one that found the tab unused when its own attach was answered, and detaches
\* the tab whoever has it by then (background.js:416).
SessionIsOpen ==
  session # 0 =>
    owner = session \/ session \in undercut \/ \E i \in DOMAIN replies : replies[i].op = "gone"

\* An input reaches the page only through the session of its own command: an
\* abandoned handler cannot use the one of the next (background.js:411-421).
OwnSessionOnly ==
  [][\A c \in Cmd :
       handler'[c].call = "landed" /\ handler[c].call # "landed" /\ handler[c].kind # "tab" => owner = c]_vars

\* Only the command the chain is waiting for starts an input, before its timer,
\* and never after a pause or settings change the worker heard of
\* (background.js:135-143, :363-367, :1776-1777).
NoLateInput ==
  [][\A c \in Cmd : handler'[c].pc = "input" /\ handler[c].pc # "input" =>
       turn = [cmd |-> c, at |-> "running"] /\ accepting /\ handler[c].epoch = epoch]_vars

\* runCommand waits for its timer or for a detach that is under way, never for
\* a call into the page: the queue goes on (background.js:1753-1758).
ChainGoesOn ==
  turn.at = "releasing" => \E q \in {calls, replies} : \E i \in DOMAIN q : q[i] = [op |-> "detach", by |-> Chain]

\* With the queue idle and nothing under way between worker and Chrome no
\* debugging session is left open, also one that was only pending when its
\* command was abandoned (background.js:411-416, :445-447).
NothingLeftAttached == turn.at = "idle" /\ calls = <<>> /\ replies = <<>> => owner = 0
=============================================================================
