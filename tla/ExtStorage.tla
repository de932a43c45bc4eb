------------------------------- MODULE ExtStorage -------------------------------
(***************************************************************************)
(* What the extension's pages and its service worker share: the entries of *)
(* chrome.storage that say whom the extension serves, and the onChanged    *)
(* events still on their way to the worker (src/extension).                *)
(***************************************************************************)
EXTENDS Naturals, Sequences

CONSTANTS
  Device,        \* tokens
  None,
  MaxMishaps     \* bound on rejected storage calls, lost answers and worker deaths

ASSUME StorageAssumption == Device # {} /\ None \notin Device /\ MaxMishaps \in Nat

VARIABLES
  enabled, token,
  changes,       \* events to come, in order
  mishaps

storage == <<enabled, token, changes>>

\* An event names the keys whose value changed.
Event == [enabled : {"same", "on", "off"}, other : BOOLEAN]

StorageTypeOK ==
  /\ enabled \in BOOLEAN /\ token \in Device \cup {None}
  /\ changes \in Seq(Event) /\ mishaps \in 0 .. MaxMishaps

AnyDevice == CHOOSE d \in Device : TRUE

StorageInit == enabled = TRUE /\ token \in {None, AnyDevice} /\ changes = <<>> /\ mishaps = 0

\* One call that sets or removes entries.
store(e, t) ==
  LET event == [enabled |-> IF e = enabled THEN "same" ELSE IF e THEN "on" ELSE "off",
                other   |-> t # token]
  IN  /\ enabled' = e /\ token' = t
      /\ changes' = IF event = [enabled |-> "same", other |-> FALSE] THEN changes
                    ELSE Append(changes, event)

Mishap == mishaps < MaxMishaps /\ mishaps' = mishaps + 1
=============================================================================
