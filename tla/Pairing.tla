-------------------------------- MODULE Pairing --------------------------------
(***************************************************************************)
(* The options pages and the side panel: registering, pairing again and    *)
(* unregistering, from several tabs at once, against the relay's table of  *)
(* devices (src/extension/options.js, panel.js; /register and /unregister  *)
(* of src/relay/worker.js).                                                *)
(*                                                                         *)
(* Each click on Register or Unregister is an operation with its own       *)
(* requests.  Storage is changed under a lock shared by the tabs; requests *)
(* to the relay are made outside it.  What is read and written under the   *)
(* lock is one step unless something outside the lock can tell.            *)
(***************************************************************************)
EXTENDS ExtStorage

CONSTANTS
  Click,         \* clicks on Register and Unregister
  MaxToggles     \* bound on clicks on the panel's toggle

ASSUME PairingAssumption == None \notin Click /\ MaxToggles \in Nat

VARIABLES
  registered,    \* the relay's devices
  issued,        \* tokens that were ever made
  intent,        \* pairingIntent
  lock,          \* the click that holds the pairing lock between two calls
  op,            \* what each click is at
  status,        \* the last success a page showed
  astray,        \* devices the user was told to have revoked, or that no page knows of
  toggles

pages == <<registered, issued, intent, lock, op, status, astray, toggles>>

NoOp == [pc |-> "idle", intent |-> 0, old |-> None, new |-> None, target |-> None, says |-> "nothing"]

PairingTypeOK ==
  /\ {registered, issued, astray} \in SUBSET (SUBSET Device)
  /\ intent \in Nat /\ lock \in Click \cup {None}
  /\ op \in [Click -> [pc : {"idle", "asking", "answered", "removing", "revoking", "revoked", "over"}, intent : Nat,
                       old : Device \cup {None}, new : Device \cup {None}, target : Device \cup {None},
                       says : {"nothing", "registered", "cancelled", "unregistered"}]]
  /\ toggles \in 0 .. MaxToggles

PairingInit ==
  /\ registered = {token} \ {None} /\ issued = registered
  /\ intent = 0 /\ lock = None
  /\ op = [c \in Click |-> NoOp]
  /\ status = [says |-> "nothing", dev |-> None]
  /\ astray = {} /\ toggles = 0

at(c, pc) == op[c].pc = pc
over(c) == op' = [op EXCEPT ![c] = [NoOp EXCEPT !.pc = "over"]]

-----------------------------------------------------------------------------
(* Register *)

\* beginPairingIntent.
RegisterClick(c) ==
  /\ at(c, "idle") /\ lock = None
  /\ intent' = intent + 1
  /\ op' = [op EXCEPT ![c] = [@ EXCEPT !.pc = "asking", !.intent = intent + 1, !.old = token]]
  /\ UNCHANGED <<storage, mishaps, registered, lock, status, astray, toggles, issued>>

\* /register: the code is good for one token, or is refused.
RelayRegisters(c) ==
  /\ at(c, "asking")
  /\ \/ /\ issued # Device
        /\ LET d == CHOOSE x \in Device \ issued : TRUE
           IN  /\ registered' = registered \cup {d} /\ issued' = issued \cup {d}
               /\ op' = [op EXCEPT ![c] = [@ EXCEPT !.pc = "answered", !.new = d]]
     \/ over(c) /\ UNCHANGED <<registered, issued>>
  /\ UNCHANGED <<storage, mishaps, intent, lock, status, astray, toggles>>

\* The answer does not arrive, or storage rejects the token: "Registration failed".
TokenLost(c) ==
  /\ at(c, "answered") /\ Mishap
  /\ astray' = astray \cup {op[c].new}
  /\ over(c)
  /\ UNCHANGED <<storage, registered, intent, lock, status, toggles, issued>>

revoke(c, d, says) ==
  op' = [op EXCEPT ![c] = [@ EXCEPT !.pc = IF d = None THEN "revoked" ELSE "revoking", !.target = d, !.says = says]]

\* Slip: the token is stored whatever was clicked since.
Slip_Publish_always(c) ==
  /\ at(c, "answered") /\ lock = None
  /\ store(TRUE, op[c].new)
  /\ revoke(c, op[c].old, "registered")
  /\ UNCHANGED <<mishaps, registered, intent, lock, status, astray, toggles, issued>>

\* Under the lock: the token counts only if nothing was clicked since.
Publish(c) ==
  /\ at(c, "answered") /\ lock = None
  /\ IF op[c].intent = intent
     THEN store(TRUE, op[c].new) /\ revoke(c, op[c].old, "registered")
     ELSE UNCHANGED storage /\ revoke(c, op[c].new, "cancelled")
  /\ UNCHANGED <<mishaps, registered, intent, lock, status, astray, toggles, issued>>

-----------------------------------------------------------------------------
(* Unregister *)

\* Pending registrations are made void, and the worker told to stop, ...
UnregisterClick(c) ==
  /\ at(c, "idle") /\ lock = None
  /\ intent' = intent + 1 /\ lock' = c
  /\ op' = [op EXCEPT ![c] = [@ EXCEPT !.pc = "removing", !.intent = intent + 1, !.old = token]]
  /\ store(FALSE, token)
  /\ UNCHANGED <<mishaps, registered, status, astray, toggles, issued>>

\* ... before the token is removed.
RemoveToken(c) ==
  /\ at(c, "removing")
  /\ lock' = None
  /\ store(enabled, None)
  /\ revoke(c, op[c].old, "unregistered")
  /\ UNCHANGED <<mishaps, registered, intent, status, astray, toggles, issued>>

\* Storage rejects the removal: the token stays, paused.
RemoveFails(c) ==
  /\ at(c, "removing") /\ Mishap
  /\ lock' = None
  /\ over(c)
  /\ UNCHANGED <<storage, registered, intent, status, astray, toggles, issued>>

-----------------------------------------------------------------------------
(* Revocation *)

\* /unregister answers.
RelayUnregisters(c) ==
  /\ at(c, "revoking") /\ op[c].target \in registered
  /\ registered' = registered \ {op[c].target}
  /\ op' = [op EXCEPT ![c].pc = "revoked"]
  /\ UNCHANGED <<storage, mishaps, intent, lock, status, astray, toggles, issued>>

\* It cannot be reached, its answer is lost, or it does not know the device:
\* the page says whom to ask.
RevokeFails(c) ==
  /\ at(c, "revoking")
  /\ \/ op[c].target \notin registered /\ UNCHANGED <<mishaps, registered>>
     \/ Mishap /\ registered' \in {registered, registered \ {op[c].target}}
  /\ astray' = astray \cup {op[c].target}
  /\ over(c)
  /\ UNCHANGED <<storage, intent, lock, status, toggles, issued>>

shown(c) == [says |-> op[c].says, dev |-> IF op[c].says = "unregistered" THEN op[c].old ELSE op[c].new]

\* Slip: a success is shown whatever was clicked since.
Slip_Conclude_always(c) ==
  /\ at(c, "revoked") /\ lock = None
  /\ status' = shown(c)
  /\ over(c)
  /\ UNCHANGED <<storage, mishaps, registered, intent, lock, astray, toggles, issued>>

\* statusIfCurrent, under the lock; a cancelled registration says so in any case.
Conclude(c) ==
  /\ at(c, "revoked") /\ lock = None
  /\ status' = IF op[c].intent = intent \/ op[c].says = "cancelled" THEN shown(c) ELSE status
  /\ over(c)
  /\ UNCHANGED <<storage, mishaps, registered, intent, lock, astray, toggles, issued>>

-----------------------------------------------------------------------------
(* Settings *)

\* The panel's toggle.  Saved site settings reach the worker as a change of token does.
Toggle ==
  /\ toggles < MaxToggles /\ toggles' = toggles + 1
  /\ store(~enabled, token)
  /\ UNCHANGED <<mishaps, registered, issued, intent, lock, op, status, astray>>

PairingStep ==
  \/ \E c \in Click :
       \/ RegisterClick(c) \/ RelayRegisters(c) \/ TokenLost(c) \/ Publish(c)
       \/ UnregisterClick(c) \/ RemoveToken(c) \/ RemoveFails(c)
       \/ RelayUnregisters(c) \/ RevokeFails(c) \/ Conclude(c)
  \/ Toggle

-----------------------------------------------------------------------------
(* Properties *)

\* The relay's table and what the extension stored agree, whatever is clicked
\* while a registration is on its way: the stored token is a registered device,
\* and a registered device is the stored one, in the hands of a click that will
\* publish or revoke it, or the user was told whom to ask (options.js:107-184).
\* Only an answer or a storage call that is lost leaves one behind.
PairingAgrees ==
  /\ token # None => token \in registered
  /\ \A d \in registered \ astray :
       \/ d = token
       \/ \E c \in Click : at(c, "answered") /\ op[c].new = d
       \/ \E c \in Click : at(c, "revoking") /\ op[c].target = d

\* A success that is shown is true when it is shown: requests are slow and the
\* lock is not held over them, so a later click may have undone it
\* (options.js:75-80, :145, :177).
ClaimsAreTrue ==
  [][status' # status =>
       /\ status'.says = "registered" => token' = status'.dev /\ token' \in registered'
       /\ status'.says = "unregistered" => token' = None
       /\ status'.says # "registered" => status'.dev \notin registered']_<<storage, pages>>
=============================================================================
