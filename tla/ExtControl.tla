------------------------------- MODULE ExtControl -------------------------------
(***************************************************************************)
(* The pages and the loop of the service worker over the storage they      *)
(* share.                                                                  *)
(***************************************************************************)
EXTENDS Pairing, ExtLoop

vars == <<storage, mishaps, pages, worker>>

TypeOK == StorageTypeOK /\ PairingTypeOK /\ LoopTypeOK

Init == StorageInit /\ PairingInit /\ LoopInit

Next ==
  \/ PairingStep /\ UNCHANGED worker
  \/ LoopStep /\ UNCHANGED pages

Spec == Init /\ [][Next]_vars

\* The loop's awaits end, events are delivered, the alarm rings and starts the
\* worker; nobody has to click, and an open socket need not close.
FairSpec ==
  /\ Spec
  /\ WF_vars((Loop \/ Boot) /\ UNCHANGED pages)
  /\ WF_vars(OnChanged /\ UNCHANGED pages)
  /\ WF_vars(Watchdog /\ UNCHANGED pages)

-----------------------------------------------------------------------------
(* Properties *)

\* Once the worker has heard every change, an open socket is that of the stored
\* token and of an extension that is enabled, and the loop does not wait out a
\* delay that began before a change (background.js:1904-1906, :2087-2088,
\* :2174-2187).
HeardIsObeyed ==
  /\ worker.pc = "sleep" => ~worker.moved
  /\ worker.pc = "socket" /\ ~worker.closing =>
       /\ ~worker.moved
       /\ changes = <<>> => enabled /\ token = worker.token /\ worker.accepting

\* Once every change was heard, a loop that is past its read of the state lets
\* commands through exactly while the extension is enabled: an older snapshot
\* must not undo a pause or a resume (background.js:2071-2073, :2117-2119).
AcceptingIsEnabled ==
  worker.pc \in {"connecting", "ticket", "socket", "poll", "rejected", "sleep"} /\ changes = <<>> =>
    (worker.accepting <=> enabled)

\* A device that stays paired and enabled is asked for again and again, or has
\* its socket open, whatever ended or delayed the loop before
\* (background.js:2156-2172, :2220-2229).
PairedIsServed ==
  <>[](enabled /\ token # None) =>
    []<>(worker.pc \in {"ticket", "socket", "poll"} /\ worker.token = token)
=============================================================================
