---------------------------- MODULE ExtControlProofs ----------------------------
(***************************************************************************)
(* Theorems about ExtControl for any clicks, devices and bounds: what the  *)
(* pages leave behind and what they claim, and that the worker's loop      *)
(* follows the settings they store.  To the pages the loop matters only in *)
(* that it leaves the stored settings alone; to the loop the pages are     *)
(* calls of store.                                                         *)
(***************************************************************************)
EXTENDS ExtControl, SequenceTheorems, TLAPS

-----------------------------------------------------------------------------
(* The inductive invariant *)

\* What is known of a click.
Field ==
  [pc : {"idle", "asking", "answered", "removing", "revoking", "revoked", "over"}, intent : Nat,
   old : issued \cup {None}, new : issued \cup {None}, target : issued \cup {None},
   says : {"nothing", "registered", "cancelled", "unregistered"}]

\* Nothing knows a token that was not issued.
Types ==
  /\ registered \subseteq issued /\ issued \subseteq Device
  /\ token \in issued \cup {None} /\ enabled \in BOOLEAN
  /\ intent \in Nat /\ lock \in Click \cup {None}
  /\ op \in [Click -> Field]

Busy(c) == op[c].pc \notin {"idle", "over"}

\* No two clicks under way have the same intent: the latest one is alone.
Intents ==
  \A c \in Click : Busy(c) =>
    /\ op[c].intent <= intent
    /\ \A e \in Click : Busy(e) /\ op[e].intent = op[c].intent => e = c

\* The lock is held between two calls only by the click that removes the token.
Held == \A c \in Click : at(c, "removing") <=> lock = c

\* While nothing was clicked since, storage is what the click found or made.
Current ==
  \A c \in Click : op[c].intent = intent =>
    /\ op[c].pc \in {"asking", "answered", "removing"} => op[c].old = token
    /\ op[c].pc \in {"revoking", "revoked"} /\ op[c].says = "registered" => token = op[c].new
    /\ op[c].pc \in {"revoking", "revoked"} /\ op[c].says = "unregistered" => token = None

\* Nobody can click while the lock is held.
RemovingIsCurrent == \A c \in Click : at(c, "removing") => op[c].intent = intent

\* A device that was just registered is known to one click, and nobody revokes it.
Answers ==
  \A c \in Click : at(c, "answered") =>
    /\ op[c].new \in registered /\ op[c].new # token
    /\ \A e \in Click : at(e, "answered") /\ op[e].new = op[c].new => e = c
    /\ \A e \in Click : at(e, "revoking") => op[e].target # op[c].new

\* What a click revokes is the device it replaced, removed or made in vain, and
\* never the stored one.
Targets ==
  \A c \in Click :
    /\ op[c].pc \in {"revoking", "revoked"} =>
         op[c].says # "nothing" /\ (op[c].says = "registered" => op[c].new # None)
    /\ op[c].pc \in {"revoking", "revoked"} =>
         op[c].target = IF op[c].says = "cancelled" THEN op[c].new ELSE op[c].old
    /\ at(c, "revoking") => op[c].target # None /\ op[c].target # token
    /\ at(c, "revoked") => op[c].target \notin registered

\* Neither property is inductive: both rest on whose intent is the latest.
PairInv == Types /\ Intents /\ Held /\ Current /\ RemovingIsCurrent /\ Answers /\ Targets /\ PairingAgrees

-----------------------------------------------------------------------------
(* Every action keeps it *)

\* An action changes the record of one click.
LEMMA OneClick ==
  ASSUME Types, NEW c \in Click, NEW r, r \in Field', issued \subseteq issued', op' = [op EXCEPT ![c] = r]
  PROVE  /\ op' \in [Click -> Field'] /\ op'[c] = r
         /\ \A e \in Click \ {c} : op'[e] = op[e]
<1>1. \A e \in Click : op[e] \in Field'
  <2> TAKE e \in Click
  <2>1. op[e] \in Field
    BY DEF Types
  <2> QED
    BY <2>1 DEF Field
<1> QED
  BY <1>1 DEF Types

\* A click on Register takes the latest intent and the token it finds.
LEMMA RegisterClickKeeps ==
  ASSUME PairInv, NEW c \in Click, RegisterClick(c)
  PROVE  PairInv'
<1> USE DEF PairInv
<1>c. /\ op' \in [Click -> Field'] /\ issued' = issued
      /\ op'[c].pc = "asking" /\ op'[c].intent = intent + 1 /\ op'[c].old = token
      /\ op'[c].new = op[c].new /\ op'[c].target = op[c].target /\ op'[c].says = op[c].says
      /\ \A e \in Click \ {c} : op'[e] = op[e]
  <2> DEFINE r == [op[c] EXCEPT !.pc = "asking", !.intent = intent + 1, !.old = token]
  <2>1. op[c] \in Field /\ issued' = issued /\ intent + 1 \in Nat /\ token \in issued \cup {None}
    BY DEF Types, RegisterClick, at, storage
  <2>2. r \in Field
    BY <2>1 DEF Field
  <2>3. op' = [op EXCEPT ![c] = r]
    BY DEF RegisterClick, at, storage
  <2>4. Field' = Field
    BY <2>1 DEF Field
  <2>5. op' \in [Click -> Field'] /\ op'[c] = r /\ \A e \in Click \ {c} : op'[e] = op[e]
    BY <2>1, <2>2, <2>3, <2>4, OneClick
  <2> QED
    BY <2>1, <2>5 DEF Field
<1>1. Types'
  BY <1>c, StorageAssumption, PairingAssumption DEF Types, RegisterClick, at, storage
<1>2. Intents'
  BY <1>1, <1>c, PairingAssumption DEF Types, Field, Intents, Busy, RegisterClick, at, storage
<1>3. Held' /\ RemovingIsCurrent'
  BY <1>1, <1>c, PairingAssumption
     DEF Types, Field, Held, RemovingIsCurrent, Intents, Busy, RegisterClick, at, storage
<1>4. Current'
  BY <1>1, <1>c, PairingAssumption
     DEF Types, Field, Current, Held, RemovingIsCurrent, Intents, Busy, RegisterClick, at, storage
<1>5. Answers'
  BY <1>1, <1>c, StorageAssumption, PairingAssumption
     DEF Types, Field, Answers, Targets, Held, Current, RegisterClick, at, storage
<1>6. Targets'
  BY <1>1, <1>c, StorageAssumption, PairingAssumption
     DEF Types, Field, Targets, Answers, Current, Held, RemovingIsCurrent, RegisterClick, at,
         storage
<1>7. PairingAgrees'
  BY <1>1, <1>c, StorageAssumption, PairingAssumption
     DEF Types, Field, PairingAgrees, Answers, Targets, Current, RemovingIsCurrent, RegisterClick,
         at, storage
<1> QED
  BY <1>1, <1>2, <1>3, <1>4, <1>5, <1>6, <1>7

\* A click on Unregister takes the latest intent, the token and the lock.
LEMMA UnregisterClickKeeps ==
  ASSUME PairInv, NEW c \in Click, UnregisterClick(c)
  PROVE  PairInv'
<1> USE DEF PairInv
<1>c. /\ op' \in [Click -> Field'] /\ issued' = issued
      /\ op'[c].pc = "removing" /\ op'[c].intent = intent + 1 /\ op'[c].old = token
      /\ op'[c].new = op[c].new /\ op'[c].target = op[c].target /\ op'[c].says = op[c].says
      /\ \A e \in Click \ {c} : op'[e] = op[e]
  <2> DEFINE r == [op[c] EXCEPT !.pc = "removing", !.intent = intent + 1, !.old = token]
  <2>1. op[c] \in Field /\ issued' = issued /\ intent + 1 \in Nat /\ token \in issued \cup {None}
    BY DEF Types, UnregisterClick, at, storage, store
  <2>2. r \in Field
    BY <2>1 DEF Field
  <2>3. op' = [op EXCEPT ![c] = r]
    BY DEF UnregisterClick, at, storage, store
  <2>4. Field' = Field
    BY <2>1 DEF Field
  <2>5. op' \in [Click -> Field'] /\ op'[c] = r /\ \A e \in Click \ {c} : op'[e] = op[e]
    BY <2>1, <2>2, <2>3, <2>4, OneClick
  <2> QED
    BY <2>1, <2>5 DEF Field
<1>1. Types'
  <2>1. token' = token /\ enabled' = FALSE /\ registered' = registered /\ intent' = intent + 1 /\ lock' = c
    BY DEF UnregisterClick, store
  <2>2. enabled' \in BOOLEAN
    BY <2>1, Zenon
  <2>3. token \in issued \cup {None} /\ registered \subseteq issued /\ issued \subseteq Device /\ intent + 1 \in Nat
    BY DEF Types
  <2> QED
    BY <1>c, <2>1, <2>2, <2>3 DEF Types
<1>2. Intents'
  BY <1>1, <1>c, PairingAssumption
     DEF Types, Field, Intents, Busy, UnregisterClick, at, storage, store
<1>3. Held' /\ RemovingIsCurrent'
  BY <1>1, <1>c, PairingAssumption
     DEF Types, Field, Held, RemovingIsCurrent, Intents, Busy, UnregisterClick, at, storage, store
<1>4. Current'
  BY <1>1, <1>c, PairingAssumption
     DEF Types, Field, Current, Held, RemovingIsCurrent, Intents, Busy, UnregisterClick, at,
         storage, store
<1>5. Answers'
  BY <1>1, <1>c, StorageAssumption, PairingAssumption
     DEF Types, Field, Answers, Targets, Held, Current, UnregisterClick, at, storage, store
<1>6. Targets'
  BY <1>1, <1>c, StorageAssumption, PairingAssumption
     DEF Types, Field, Targets, Answers, Current, Held, RemovingIsCurrent, UnregisterClick, at,
         storage, store
<1>7. PairingAgrees'
  BY <1>1, <1>c, StorageAssumption, PairingAssumption
     DEF Types, Field, PairingAgrees, Answers, Targets, Current, RemovingIsCurrent, UnregisterClick,
         at, storage, store
<1> QED
  BY <1>1, <1>2, <1>3, <1>4, <1>5, <1>6, <1>7

\* The removed token is the one the click found, as nobody else could store.
LEMMA RemoveTokenKeeps ==
  ASSUME PairInv, NEW c \in Click, RemoveToken(c)
  PROVE  PairInv'
<1> USE DEF PairInv
<1>c. /\ op' \in [Click -> Field'] /\ issued' = issued
      /\ op'[c].pc = (IF op[c].old = None THEN "revoked" ELSE "revoking")
      /\ op'[c].intent = op[c].intent /\ op'[c].old = op[c].old
      /\ op'[c].new = op[c].new /\ op'[c].target = op[c].old /\ op'[c].says = "unregistered"
      /\ \A e \in Click \ {c} : op'[e] = op[e]
  <2> DEFINE r == [op[c] EXCEPT !.pc = (IF op[c].old = None THEN "revoked" ELSE "revoking"),
                               !.target = op[c].old, !.says = "unregistered"]
  <2>1. op[c] \in Field /\ issued' = issued /\ intent + 1 \in Nat /\ token \in issued \cup {None}
    BY DEF Types, RemoveToken, at, storage, revoke, store
  <2>2. r \in Field
    BY <2>1 DEF Field
  <2>3. op' = [op EXCEPT ![c] = r]
    BY DEF RemoveToken, at, storage, revoke, store
  <2>4. Field' = Field
    BY <2>1 DEF Field
  <2>5. op' \in [Click -> Field'] /\ op'[c] = r /\ \A e \in Click \ {c} : op'[e] = op[e]
    BY <2>1, <2>2, <2>3, <2>4, OneClick
  <2> QED
    BY <2>1, <2>5 DEF Field
<1>1. Types'
  BY <1>c, StorageAssumption, PairingAssumption DEF Types, RemoveToken, at, storage, revoke, store
<1>2. Intents'
  BY <1>1, <1>c, PairingAssumption
     DEF Types, Field, Intents, Busy, RemoveToken, at, storage, revoke, store
<1>3. Held' /\ RemovingIsCurrent'
  BY <1>1, <1>c, PairingAssumption
     DEF Types, Field, Held, RemovingIsCurrent, Intents, Busy, RemoveToken, at, storage, revoke,
         store
<1>4. Current'
  BY <1>1, <1>c, PairingAssumption
     DEF Types, Field, Current, Held, RemovingIsCurrent, Intents, Busy, RemoveToken, at, storage,
         revoke, store
<1>5. Answers'
  <2>1. op[c].old = token /\ at(c, "removing") /\ token' = None /\ registered' = registered
    BY DEF Current, RemovingIsCurrent, RemoveToken, store, at
  <2>2. \A e \in Click : at(e, "answered")' => at(e, "answered") /\ op'[e].new = op[e].new /\ op[e].new # None
    BY <1>c, <2>1, StorageAssumption DEF Types, Answers, at
  <2> QED
    BY <1>c, <2>1, <2>2 DEF Answers, at
<1>6. Targets'
  BY <1>1, <1>c, StorageAssumption, PairingAssumption
     DEF Types, Field, Targets, Answers, Current, Held, RemovingIsCurrent, RemoveToken, at, storage,
         revoke, store
<1>7. PairingAgrees'
  BY <1>1, <1>c, StorageAssumption, PairingAssumption
     DEF Types, Field, PairingAgrees, Answers, Targets, Current, RemovingIsCurrent, RemoveToken, at,
         storage, revoke, store
<1> QED
  BY <1>1, <1>2, <1>3, <1>4, <1>5, <1>6, <1>7

\* A device whose token is lost is counted as astray, so nobody must hold it.
LEMMA TokenLostKeeps ==
  ASSUME PairInv, NEW c \in Click, TokenLost(c)
  PROVE  PairInv'
<1> USE DEF PairInv
<1>c. /\ op' \in [Click -> Field'] /\ issued' = issued /\ op'[c].pc = "over"
      /\ \A e \in Click \ {c} : op'[e] = op[e]
  <2>1. [NoOp EXCEPT !.pc = "over"] \in Field /\ issued' = issued
    BY DEF Types, Field, NoOp, TokenLost, at, storage, over, Mishap
  <2>2. Field' = Field
    BY <2>1 DEF Field
  <2>3. op' = [op EXCEPT ![c] = [NoOp EXCEPT !.pc = "over"]]
    BY DEF TokenLost, at, storage, over, Mishap
  <2> QED
    BY <2>1, <2>2, <2>3, OneClick DEF NoOp
<1>1. Types'
  BY <1>c, StorageAssumption DEF Types, TokenLost, at, storage, over, Mishap
<1>2. Intents'
  BY <1>1, <1>c, PairingAssumption
     DEF Types, Field, Intents, Busy, TokenLost, at, storage, over, Mishap
<1>3. Held' /\ RemovingIsCurrent'
  BY <1>1, <1>c, PairingAssumption
     DEF Types, Field, Held, RemovingIsCurrent, Intents, Busy, TokenLost, at, storage, over, Mishap
<1>4. Current'
  BY <1>1, <1>c, PairingAssumption
     DEF Types, Field, Current, Held, RemovingIsCurrent, Intents, Busy, TokenLost, at, storage,
         over, Mishap
<1>5. Answers'
  BY <1>1, <1>c, StorageAssumption, PairingAssumption
     DEF Types, Field, Answers, Targets, Held, Current, TokenLost, at, storage, over, Mishap
<1>6. Targets'
  BY <1>1, <1>c, StorageAssumption, PairingAssumption
     DEF Types, Field, Targets, Answers, Current, Held, RemovingIsCurrent, TokenLost, at, storage,
         over, Mishap
<1>7. PairingAgrees'
  BY <1>1, <1>c, StorageAssumption, PairingAssumption
     DEF Types, Field, PairingAgrees, Answers, Targets, Current, RemovingIsCurrent, TokenLost, at,
         storage, over, Mishap
<1> QED
  BY <1>1, <1>2, <1>3, <1>4, <1>5, <1>6, <1>7

\* A removal that fails gives back the lock and leaves the token.
LEMMA RemoveFailsKeeps ==
  ASSUME PairInv, NEW c \in Click, RemoveFails(c)
  PROVE  PairInv'
<1> USE DEF PairInv
<1>c. /\ op' \in [Click -> Field'] /\ issued' = issued /\ op'[c].pc = "over"
      /\ \A e \in Click \ {c} : op'[e] = op[e]
  <2>1. [NoOp EXCEPT !.pc = "over"] \in Field /\ issued' = issued
    BY DEF Types, Field, NoOp, RemoveFails, at, storage, over, Mishap
  <2>2. Field' = Field
    BY <2>1 DEF Field
  <2>3. op' = [op EXCEPT ![c] = [NoOp EXCEPT !.pc = "over"]]
    BY DEF RemoveFails, at, storage, over, Mishap
  <2> QED
    BY <2>1, <2>2, <2>3, OneClick DEF NoOp
<1>1. Types'
  BY <1>c, StorageAssumption DEF Types, RemoveFails, at, storage, over, Mishap
<1>2. Intents'
  BY <1>1, <1>c, PairingAssumption
     DEF Types, Field, Intents, Busy, RemoveFails, at, storage, over, Mishap
<1>3. Held' /\ RemovingIsCurrent'
  BY <1>1, <1>c, PairingAssumption
     DEF Types, Field, Held, RemovingIsCurrent, Intents, Busy, RemoveFails, at, storage, over,
         Mishap
<1>4. Current'
  BY <1>1, <1>c, PairingAssumption
     DEF Types, Field, Current, Held, RemovingIsCurrent, Intents, Busy, RemoveFails, at, storage,
         over, Mishap
<1>5. Answers'
  BY <1>1, <1>c, StorageAssumption, PairingAssumption
     DEF Types, Field, Answers, Targets, Held, Current, RemoveFails, at, storage, over, Mishap
<1>6. Targets'
  BY <1>1, <1>c, StorageAssumption, PairingAssumption
     DEF Types, Field, Targets, Answers, Current, Held, RemovingIsCurrent, RemoveFails, at, storage,
         over, Mishap
<1>7. PairingAgrees'
  BY <1>1, <1>c, StorageAssumption, PairingAssumption
     DEF Types, Field, PairingAgrees, Answers, Targets, Current, RemovingIsCurrent, RemoveFails, at,
         storage, over, Mishap
<1> QED
  BY <1>1, <1>2, <1>3, <1>4, <1>5, <1>6, <1>7

\* A revocation that fails leaves the device astray at most.
LEMMA RevokeFailsKeeps ==
  ASSUME PairInv, NEW c \in Click, RevokeFails(c)
  PROVE  PairInv'
<1> USE DEF PairInv
<1>c. /\ op' \in [Click -> Field'] /\ issued' = issued /\ op'[c].pc = "over"
      /\ \A e \in Click \ {c} : op'[e] = op[e]
  <2>1. [NoOp EXCEPT !.pc = "over"] \in Field /\ issued' = issued
    BY DEF Types, Field, NoOp, RevokeFails, at, storage, over, Mishap
  <2>2. Field' = Field
    BY <2>1 DEF Field
  <2>3. op' = [op EXCEPT ![c] = [NoOp EXCEPT !.pc = "over"]]
    BY DEF RevokeFails, at, storage, over, Mishap
  <2> QED
    BY <2>1, <2>2, <2>3, OneClick DEF NoOp
<1>1. Types'
  BY <1>c, StorageAssumption DEF Types, RevokeFails, at, storage, over, Mishap
<1>2. Intents'
  BY <1>1, <1>c, PairingAssumption
     DEF Types, Field, Intents, Busy, RevokeFails, at, storage, over, Mishap
<1>3. Held' /\ RemovingIsCurrent'
  BY <1>1, <1>c, PairingAssumption
     DEF Types, Field, Held, RemovingIsCurrent, Intents, Busy, RevokeFails, at, storage, over,
         Mishap
<1>4. Current'
  BY <1>1, <1>c, PairingAssumption
     DEF Types, Field, Current, Held, RemovingIsCurrent, Intents, Busy, RevokeFails, at, storage,
         over, Mishap
<1>5. Answers'
  BY <1>1, <1>c, StorageAssumption, PairingAssumption
     DEF Types, Field, Answers, Targets, Held, Current, RevokeFails, at, storage, over, Mishap
<1>6. Targets'
  BY <1>1, <1>c, StorageAssumption, PairingAssumption
     DEF Types, Field, Targets, Answers, Current, Held, RemovingIsCurrent, RevokeFails, at, storage,
         over, Mishap
<1>7. PairingAgrees'
  BY <1>1, <1>c, StorageAssumption, PairingAssumption
     DEF Types, Field, PairingAgrees, Answers, Targets, Current, RemovingIsCurrent, RevokeFails, at,
         storage, over, Mishap
<1> QED
  BY <1>1, <1>2, <1>3, <1>4, <1>5, <1>6, <1>7

\* What is shown changes nothing that is stored.
LEMMA ConcludeKeeps ==
  ASSUME PairInv, NEW c \in Click, Conclude(c)
  PROVE  PairInv'
<1> USE DEF PairInv
<1>c. /\ op' \in [Click -> Field'] /\ issued' = issued /\ op'[c].pc = "over"
      /\ \A e \in Click \ {c} : op'[e] = op[e]
  <2>1. [NoOp EXCEPT !.pc = "over"] \in Field /\ issued' = issued
    BY DEF Types, Field, NoOp, Conclude, at, storage, over
  <2>2. Field' = Field
    BY <2>1 DEF Field
  <2>3. op' = [op EXCEPT ![c] = [NoOp EXCEPT !.pc = "over"]]
    BY DEF Conclude, at, storage, over
  <2> QED
    BY <2>1, <2>2, <2>3, OneClick DEF NoOp
<1>1. Types'
  BY <1>c, StorageAssumption DEF Types, Conclude, at, storage, over
<1>2. Intents'
  BY <1>1, <1>c, PairingAssumption DEF Types, Field, Intents, Busy, Conclude, at, storage, over
<1>3. Held' /\ RemovingIsCurrent'
  BY <1>1, <1>c, PairingAssumption
     DEF Types, Field, Held, RemovingIsCurrent, Intents, Busy, Conclude, at, storage, over
<1>4. Current'
  BY <1>1, <1>c, PairingAssumption
     DEF Types, Field, Current, Held, RemovingIsCurrent, Intents, Busy, Conclude, at, storage, over
<1>5. Answers'
  BY <1>1, <1>c, StorageAssumption, PairingAssumption
     DEF Types, Field, Answers, Targets, Held, Current, Conclude, at, storage, over
<1>6. Targets'
  BY <1>1, <1>c, StorageAssumption, PairingAssumption
     DEF Types, Field, Targets, Answers, Current, Held, RemovingIsCurrent, Conclude, at, storage,
         over
<1>7. PairingAgrees'
  BY <1>1, <1>c, StorageAssumption, PairingAssumption
     DEF Types, Field, PairingAgrees, Answers, Targets, Current, RemovingIsCurrent, Conclude, at,
         storage, over
<1> QED
  BY <1>1, <1>2, <1>3, <1>4, <1>5, <1>6, <1>7

\* A device that is revoked was nobody's: not the stored one, nor a new one.
LEMMA RelayUnregistersKeeps ==
  ASSUME PairInv, NEW c \in Click, RelayUnregisters(c)
  PROVE  PairInv'
<1> USE DEF PairInv
<1>c. /\ op' \in [Click -> Field'] /\ issued' = issued
      /\ op'[c].pc = "revoked" /\ op'[c].intent = op[c].intent /\ op'[c].old = op[c].old
      /\ op'[c].new = op[c].new /\ op'[c].target = op[c].target /\ op'[c].says = op[c].says
      /\ \A e \in Click \ {c} : op'[e] = op[e]
  <2> DEFINE r == [op[c] EXCEPT !.pc = "revoked"]
  <2>1. op[c] \in Field /\ issued' = issued /\ intent + 1 \in Nat /\ token \in issued \cup {None}
    BY DEF Types, RelayUnregisters, at, storage
  <2>2. r \in Field
    BY <2>1 DEF Field
  <2>3. op' = [op EXCEPT ![c] = r]
    BY DEF RelayUnregisters, at, storage
  <2>4. Field' = Field
    BY <2>1 DEF Field
  <2>5. op' \in [Click -> Field'] /\ op'[c] = r /\ \A e \in Click \ {c} : op'[e] = op[e]
    BY <2>1, <2>2, <2>3, <2>4, OneClick
  <2> QED
    BY <2>1, <2>5 DEF Field
<1>1. Types'
  BY <1>c, StorageAssumption DEF Types, RelayUnregisters, at, storage
<1>2. Intents'
  BY <1>1, <1>c, PairingAssumption DEF Types, Field, Intents, Busy, RelayUnregisters, at, storage
<1>3. Held' /\ RemovingIsCurrent'
  BY <1>1, <1>c, PairingAssumption
     DEF Types, Field, Held, RemovingIsCurrent, Intents, Busy, RelayUnregisters, at, storage
<1>4. Current'
  BY <1>1, <1>c, PairingAssumption
     DEF Types, Field, Current, Held, RemovingIsCurrent, Intents, Busy, RelayUnregisters, at,
         storage
<1>5. Answers'
  BY <1>1, <1>c, StorageAssumption, PairingAssumption
     DEF Types, Field, Answers, Targets, Held, Current, RelayUnregisters, at, storage
<1>6. Targets'
  BY <1>1, <1>c, StorageAssumption, PairingAssumption
     DEF Types, Field, Targets, Answers, Current, Held, RemovingIsCurrent, RelayUnregisters, at,
         storage
<1>7. PairingAgrees'
  BY <1>1, <1>c, StorageAssumption, PairingAssumption
     DEF Types, Field, PairingAgrees, Answers, Targets, Current, RemovingIsCurrent,
         RelayUnregisters, at, storage
<1> QED
  BY <1>1, <1>2, <1>3, <1>4, <1>5, <1>6, <1>7

\* The relay makes a device that nobody has heard of, known to one click.
LEMMA RelayRegistersKeeps ==
  ASSUME PairInv, NEW c \in Click, RelayRegisters(c)
  PROVE  PairInv'
<1> USE DEF PairInv
<1>r. CASE UNCHANGED <<registered, issued>> /\ over(c)
  <2>1. op' = [op EXCEPT ![c] = [NoOp EXCEPT !.pc = "over"]] /\ UNCHANGED <<token, enabled, intent, lock, astray, registered, issued>>
    BY <1>r DEF RelayRegisters, storage, over
  <2>2. [NoOp EXCEPT !.pc = "over"] \in Field /\ Field' = Field /\ at(c, "asking")
    BY <2>1 DEF Types, Field, NoOp, RelayRegisters
  <2>c. /\ op' \in [Click -> Field'] /\ op'[c].pc = "over"
        /\ \A e \in Click \ {c} : op'[e] = op[e]
    BY <2>1, <2>2, OneClick DEF NoOp
  <2>3. Types' /\ Intents'
    BY <2>1, <2>c DEF Types, Intents, Busy
  <2>4. Held' /\ RemovingIsCurrent' /\ Current'
    BY <2>1, <2>2, <2>c, PairingAssumption DEF Held, RemovingIsCurrent, Current, at
  <2>5. Answers' /\ Targets' /\ PairingAgrees'
    BY <2>1, <2>2, <2>c DEF Answers, Targets, PairingAgrees, at
  <2> QED
    BY <2>3, <2>4, <2>5
<1>s. CASE ~(UNCHANGED <<registered, issued>> /\ over(c))
  <2>1. PICK d \in Device \ issued :
          /\ registered' = registered \cup {d} /\ issued' = issued \cup {d}
          /\ op' = [op EXCEPT ![c] = [@ EXCEPT !.pc = "answered", !.new = d]]
    BY <1>s DEF RelayRegisters, Types
  <2>c. /\ op' \in [Click -> Field']
        /\ op'[c].pc = "answered" /\ op'[c].intent = op[c].intent /\ op'[c].old = op[c].old
        /\ op'[c].new = d /\ op'[c].target = op[c].target /\ op'[c].says = op[c].says
        /\ \A e \in Click \ {c} : op'[e] = op[e]
    <3> DEFINE r == [op[c] EXCEPT !.pc = "answered", !.new = d]
    <3>1. op[c] \in Field
      BY DEF Types
    <3>2. r \in Field'
      BY <2>1, <3>1 DEF Field
    <3>3. op' = [op EXCEPT ![c] = r] /\ issued \subseteq issued'
      BY <2>1
    <3>4. op' \in [Click -> Field'] /\ op'[c] = r /\ \A e \in Click \ {c} : op'[e] = op[e]
      BY <3>2, <3>3, OneClick
    <3> QED
      BY <3>1, <3>4 DEF Field
  <2>2. UNCHANGED <<token, enabled, intent, lock, astray>> /\ at(c, "asking")
    BY DEF RelayRegisters, storage
  <2>3. Types'
    BY <2>1, <2>c, <2>2 DEF Types
  <2>4. Intents' /\ Held' /\ RemovingIsCurrent'
    BY <2>c, <2>2 DEF Intents, Busy, Held, RemovingIsCurrent, at
  <2>5. Current'
    BY <2>c, <2>2 DEF Current, at
  <2>6. \A e \in Click : op[e].new # d /\ op[e].target # d
    BY <2>1, StorageAssumption DEF Types, Field
  <2>7. Answers'
    BY <2>1, <2>c, <2>2, <2>6, StorageAssumption DEF Types, Answers, at
  <2>8. Targets'
    BY <2>1, <2>c, <2>2, <2>6 DEF Targets, at
  <2>9. PairingAgrees'
    BY <2>1, <2>c, <2>2, <2>6 DEF PairingAgrees, at
  <2> QED
    BY <2>3, <2>4, <2>5, <2>7, <2>8, <2>9
<1> QED
  BY <1>r, <1>s

\* A new token is stored by the latest click, which then revokes what it replaced;
\* an earlier click revokes the device it made.
LEMMA PublishKeeps ==
  ASSUME PairInv, NEW c \in Click, Publish(c)
  PROVE  PairInv'
<1> USE DEF PairInv
<1>1. /\ UNCHANGED <<registered, issued, intent, lock, astray>> /\ at(c, "answered")
      /\ op[c].new \in registered /\ op[c].new # token /\ op[c].new # None
  BY StorageAssumption DEF Publish, Answers, Types
<1>2. ASSUME NEW t \in issued \cup {None}, NEW says \in {"registered", "cancelled"}, revoke(c, t, says)
      PROVE  /\ op' \in [Click -> Field']
             /\ op'[c].pc = (IF t = None THEN "revoked" ELSE "revoking") /\ op'[c].target = t /\ op'[c].says = says
             /\ op'[c].intent = op[c].intent /\ op'[c].old = op[c].old /\ op'[c].new = op[c].new
             /\ \A e \in Click \ {c} : op'[e] = op[e]
  <2> DEFINE r == [op[c] EXCEPT !.pc = IF t = None THEN "revoked" ELSE "revoking", !.target = t, !.says = says]
  <2>1. op[c] \in Field
    BY DEF Types
  <2>2. r \in Field' /\ issued \subseteq issued'
    BY <1>1, <2>1 DEF Field
  <2>3. op' = [op EXCEPT ![c] = r]
    BY <1>2 DEF revoke
  <2>4. op' \in [Click -> Field'] /\ op'[c] = r /\ \A e \in Click \ {c} : op'[e] = op[e]
    BY <2>2, <2>3, OneClick
  <2> QED
    BY <2>1, <2>4 DEF Field
<1>3. CASE op[c].intent = intent
  <2>1. token' = op[c].new /\ enabled' = TRUE /\ revoke(c, op[c].old, "registered") /\ op[c].old = token
    BY <1>1, <1>3 DEF Publish, store, Current, at
  <2>2. op[c].old \in issued \cup {None}
    BY <2>1 DEF Types
  <2>c. /\ op' \in [Click -> Field']
        /\ op'[c].pc = (IF token = None THEN "revoked" ELSE "revoking") /\ op'[c].target = token
        /\ op'[c].says = "registered"
        /\ op'[c].intent = intent /\ op'[c].old = token /\ op'[c].new = op[c].new
        /\ \A e \in Click \ {c} : op'[e] = op[e]
    BY <1>2, <1>3, <2>1, <2>2
  <2>3. Types'
    BY <1>1, <2>1, <2>c DEF Types
  <2>4. Intents' /\ Held' /\ RemovingIsCurrent'
    BY <1>1, <1>3, <2>c DEF Intents, Busy, Held, RemovingIsCurrent, at
  <2>5. \A e \in Click \ {c} : Busy(e) => op[e].intent # intent
    BY <1>1, <1>3 DEF Intents, Busy, at
  <2>6. Current'
    BY <1>1, <2>1, <2>c, <2>5 DEF Current, Busy, at
  <2>7. Answers'
    BY <1>1, <2>1, <2>c DEF Answers, at
  <2>8. Targets'
    BY <1>1, <2>1, <2>c, StorageAssumption DEF Targets, Answers, Types, at
  <2>9. PairingAgrees'
    <3>1. token' # None => token' \in registered'
      BY <1>1, <2>1
    <3>2. SUFFICES ASSUME NEW d \in registered \ astray, d # op[c].new
                   PROVE  \/ \E e \in Click : op'[e].pc = "answered" /\ op'[e].new = d
                          \/ \E e \in Click : op'[e].pc = "revoking" /\ op'[e].target = d
      BY <1>1, <2>1, <3>1 DEF PairingAgrees, at
    <3>3. CASE d = token
      <4>1. token # None
        BY <3>3, StorageAssumption DEF Types
      <4> QED
        BY <2>c, <3>3, <4>1
    <3>4. CASE d # token
      BY <1>1, <2>c, <3>2, <3>4 DEF PairingAgrees, at
    <3> QED
      BY <3>3, <3>4
  <2> QED
    BY <2>3, <2>4, <2>6, <2>7, <2>8, <2>9
<1>4. CASE op[c].intent # intent
  <2>1. UNCHANGED <<token, enabled>> /\ revoke(c, op[c].new, "cancelled")
    BY <1>4 DEF Publish, storage
  <2>2. op[c].new \in issued \cup {None}
    BY <1>1 DEF Types
  <2>c. /\ op' \in [Click -> Field']
        /\ op'[c].pc = "revoking" /\ op'[c].target = op[c].new /\ op'[c].says = "cancelled"
        /\ op'[c].intent = op[c].intent /\ op'[c].old = op[c].old /\ op'[c].new = op[c].new
        /\ \A e \in Click \ {c} : op'[e] = op[e]
    BY <1>1, <1>2, <2>1, <2>2
  <2>3. Types'
    BY <1>1, <2>1, <2>c DEF Types
  <2>4. Intents' /\ Held' /\ RemovingIsCurrent'
    BY <1>1, <2>c DEF Intents, Busy, Held, RemovingIsCurrent, at
  <2>6. Current'
    BY <1>1, <1>4, <2>1, <2>c DEF Current, at
  <2>7. Answers'
    BY <1>1, <2>1, <2>c DEF Answers, at
  <2>8. Targets'
    BY <1>1, <2>1, <2>c DEF Targets, at
  <2>9. PairingAgrees'
    <3>1. token' # None => token' \in registered'
      BY <1>1, <2>1 DEF PairingAgrees
    <3>2. SUFFICES ASSUME NEW d \in registered \ astray
                   PROVE  \/ d = token
                          \/ \E e \in Click : op'[e].pc = "answered" /\ op'[e].new = d
                          \/ \E e \in Click : op'[e].pc = "revoking" /\ op'[e].target = d
      BY <1>1, <2>1, <3>1 DEF PairingAgrees, at
    <3>3. CASE d = op[c].new
      BY <2>c, <3>3
    <3>4. CASE d # op[c].new
      BY <1>1, <2>c, <3>4 DEF PairingAgrees, at
    <3> QED
      BY <3>3, <3>4
  <2> QED
    BY <2>3, <2>4, <2>6, <2>7, <2>8, <2>9
<1> QED
  BY <1>3, <1>4

\* The toggle changes no device.
LEMMA ToggleKeeps ==
  ASSUME PairInv, Toggle
  PROVE  PairInv'
<1>1. UNCHANGED <<token, registered, issued, intent, lock, op, astray>> /\ enabled' = ~enabled
  BY DEF Toggle, store
<1>2. enabled' \in BOOLEAN
  BY <1>1, Zenon
<1> QED
  BY <1>1, <1>2
     DEF PairInv, Types, Field, Intents, Busy, Held, Current, RemovingIsCurrent, Answers, Targets,
         PairingAgrees, at

\* At first nothing was clicked, and a stored token is a registered device.
LEMMA InitInv ==
  ASSUME StorageInit, PairingInit
  PROVE  PairInv
<1>1. enabled \in BOOLEAN
  BY Zenon DEF StorageInit
<1>2. token \in Device \cup {None}
  <2>1. CASE token = None
    BY <2>1
  <2>2. CASE token # None
    BY <2>2, StorageAssumption DEF StorageInit, AnyDevice
  <2> QED
    BY <2>1, <2>2
<1>3. \A c \in Click : op[c] = NoOp
  BY DEF PairingInit
<1>4. Types
  BY <1>1, <1>2, <1>3, StorageAssumption DEF PairingInit, Types, Field, NoOp
<1>5. Intents /\ Held /\ Current /\ RemovingIsCurrent /\ Answers /\ Targets
  BY <1>3, PairingAssumption
     DEF PairingInit, NoOp, Intents, Busy, Held, Current, RemovingIsCurrent, Answers, Targets, at
<1>6. PairingAgrees
  BY <1>2 DEF PairingInit, PairingAgrees
<1> QED
  BY <1>4, <1>5, <1>6 DEF PairInv

\* The worker only reads the settings.
LEMMA LoopLeavesStorage ==
  ASSUME LoopStep
  PROVE  UNCHANGED <<enabled, token>>
<1>1. CASE Loop
  BY <1>1
     DEF Loop, Read, Decide, Connect, TicketAnswer, SocketCloses, PollAnswer, ReportRejected,
         RetryTimer, goes, storage
<1> QED
  BY <1>1 DEF LoopStep, SocketDrops, OnChanged, Watchdog, Kill, Boot, goes, storage

\* Every step of the pages and of the worker keeps the invariant.
LEMMA StepInv ==
  ASSUME PairInv, [Next]_vars
  PROVE  PairInv'
<1>1. CASE UNCHANGED <<enabled, token>> /\ UNCHANGED pages
  BY <1>1
     DEF pages, PairInv, Types, Field, Intents, Busy, Held, Current, RemovingIsCurrent, Answers,
         Targets, PairingAgrees, at
<1>2. CASE LoopStep /\ UNCHANGED pages
  BY <1>1, <1>2, LoopLeavesStorage
<1>3. CASE UNCHANGED vars
  BY <1>1, <1>3 DEF vars, storage
<1>4. CASE PairingStep
  BY <1>4, RegisterClickKeeps, UnregisterClickKeeps, RemoveTokenKeeps, TokenLostKeeps, RemoveFailsKeeps, RevokeFailsKeeps,
     ConcludeKeeps, RelayUnregistersKeeps, RelayRegistersKeeps, PublishKeeps, ToggleKeeps DEF PairingStep
<1> QED
  BY <1>2, <1>3, <1>4 DEF Next

-----------------------------------------------------------------------------
(* What the loop knows of the settings *)

\* What is known of the worker; it is "woken" only within a step.
Woken ==
  [pc : {"dead", "off", "reading", "read", "connecting", "ticket", "socket", "poll", "rejected", "sleep", "woken"},
   moved : BOOLEAN, accepting : BOOLEAN, restart : BOOLEAN, http : BOOLEAN,
   on : BOOLEAN, token : Device \cup {None}, closing : BOOLEAN]

Worker == {w \in Woken : w.pc # "woken"}

SettingsTypes ==
  /\ changes \in Seq(Event)
  /\ enabled \in BOOLEAN /\ token \in Device \cup {None}

\* No pause or resume is still to be heard.
Quiet == \A i \in DOMAIN changes : changes[i].enabled = "same"

\* An event tells of a change, and the last pause or resume is the stored one.
Events ==
  \A i \in DOMAIN changes :
    /\ changes[i].enabled # "same" \/ changes[i].other
    /\ changes[i].enabled # "same" /\ (\A j \in DOMAIN changes : j > i => changes[j].enabled = "same") =>
         (enabled <=> changes[i].enabled = "on")

\* Past its read of the state, the loop lets commands through as it is stored.
Past(w) == w.pc \in {"connecting", "ticket", "socket", "poll", "rejected", "sleep"}
Agrees(w) == Quiet => (w.accepting <=> enabled)

\* What a worker may be: HeardIsObeyed, and a snapshot that no event has
\* overtaken, and acceptingCommands past it, are as stored unless a pause or a
\* resume is still to be heard.
Allowed(w) ==
  /\ w \in Worker
  /\ w.pc = "sleep" => ~w.moved
  /\ w.pc = "socket" /\ ~w.closing =>
       ~w.moved /\ (changes = <<>> => enabled /\ token = w.token /\ w.accepting)
  /\ w.pc = "read" /\ ~w.moved => (Quiet => (w.on <=> enabled))
  /\ Past(w) => Agrees(w)

LoopInv == SettingsTypes /\ Events /\ Allowed(worker)

\* A call that changes storage leaves an event behind it.
LEMMA StoreKeeps ==
  ASSUME LoopInv, NEW e \in BOOLEAN, NEW t \in Device \cup {None}, store(e, t), UNCHANGED worker
  PROVE  LoopInv'
<1> DEFINE event == [enabled |-> IF e = enabled THEN "same" ELSE IF e THEN "on" ELSE "off", other |-> t # token]
<1>1. enabled' = e /\ token' = t
  BY DEF store
<1>2. event \in Event
  BY DEF Event
<1>3. CASE changes' = changes /\ event = [enabled |-> "same", other |-> FALSE]
  <2>1. event.enabled = "same" /\ event.other = FALSE
    BY <1>3
  <2>2. e = enabled /\ t = token
    BY <2>1
  <2> QED
    BY <1>1, <1>3, <2>2 DEF LoopInv, SettingsTypes, Events, Allowed, Past, Agrees, Quiet
<1>4. CASE changes' = Append(changes, event) /\ event # [enabled |-> "same", other |-> FALSE]
  <2>1. event.enabled # "same" \/ event.other
    BY <1>4, <1>2 DEF Event
  <2>2. /\ event.enabled = "same" => e = enabled
        /\ event.enabled # "same" => (e <=> event.enabled = "on")
    OBVIOUS
  <2> HIDE DEF event
  <2>3. /\ changes' \in Seq(Event) /\ Len(changes') = Len(changes) + 1 /\ changes' # <<>>
        /\ changes'[Len(changes) + 1] = event
        /\ \A i \in DOMAIN changes : i \in DOMAIN changes' /\ changes'[i] = changes[i]
        /\ Len(changes) \in Nat /\ DOMAIN changes = 1 .. Len(changes) /\ DOMAIN changes' = 1 .. Len(changes')
    BY <1>2, <1>4, AppendProperties DEF LoopInv, SettingsTypes
  <2>4. Quiet' => Quiet /\ enabled' = enabled
    BY <1>1, <2>2, <2>3 DEF Quiet
  <2>5. SettingsTypes'
    BY <1>1, <2>3 DEF SettingsTypes
  <2>6. Allowed(worker)'
    BY <1>1, <2>3, <2>4 DEF LoopInv, Allowed, Past, Agrees
  <2>7. Events'
    <3> SUFFICES ASSUME NEW i \in DOMAIN changes'
                 PROVE  /\ changes'[i].enabled # "same" \/ changes'[i].other
                        /\ changes'[i].enabled # "same" /\ (\A j \in DOMAIN changes' : j > i => changes'[j].enabled = "same") =>
                             (enabled' <=> changes'[i].enabled = "on")
      BY DEF Events
    <3>1. CASE i = Len(changes) + 1
      BY <1>1, <2>1, <2>2, <2>3, <3>1
    <3>2. CASE i \in DOMAIN changes
      <4>1. /\ changes'[i] = changes[i]
            /\ changes[i].enabled # "same" \/ changes[i].other
            /\ changes[i].enabled # "same" /\ (\A j \in DOMAIN changes : j > i => changes[j].enabled = "same") =>
                 (enabled <=> changes[i].enabled = "on")
        BY <2>3, <3>2 DEF LoopInv, Events
      <4>2. SUFFICES ASSUME changes[i].enabled # "same", \A j \in DOMAIN changes' : j > i => changes'[j].enabled = "same"
                     PROVE  enabled' <=> changes[i].enabled = "on"
        BY <4>1
      <4>3. \A j \in DOMAIN changes : j > i => changes[j].enabled = "same"
        BY <2>3, <4>2
      <4>4. event.enabled = "same"
        BY <2>3, <3>2, <4>2
      <4>5. enabled' = enabled
        BY <1>1, <2>2, <4>4
      <4> QED
        BY <4>1, <4>2, <4>3, <4>5
    <3> QED
      BY <2>3, <3>1, <3>2
  <2> QED
    BY <2>5, <2>6, <2>7 DEF LoopInv
<1> QED
  BY <1>3, <1>4 DEF store

\* A loop that starts anew or ends knows nothing yet.
LEMMA AnewAllowed ==
  ASSUME NEW w \in Woken
  PROVE  Allowed(top(w)) /\ Allowed(start(w)) /\ Allowed(ends(w))
<1>1. /\ top(w) \in Worker /\ top(w).pc = "reading"
      /\ start(w) \in Worker /\ start(w).pc = "reading"
  BY DEF top, start, Worker, Woken
<1>2. ends(w) \in Worker /\ ends(w).pc \in {"reading", "off"}
  BY DEF ends, top, start, Worker, Woken
<1> QED
  BY <1>1, <1>2 DEF Allowed, Past

\* A wait starts only when nothing was heard, and lets through what was let through.
LEMMA WaitAllowed ==
  ASSUME NEW w \in Worker, Agrees(w)
  PROVE  Allowed(retryAfter(w))
<1>1. CASE w.moved
  BY <1>1, AnewAllowed DEF retryAfter, Worker
<1>2. CASE ~w.moved
  <2> DEFINE v == [w EXCEPT !.pc = "sleep", !.on = FALSE, !.token = None, !.closing = FALSE]
  <2>1. v \in Worker /\ v.pc = "sleep" /\ v.moved = w.moved /\ v.accepting = w.accepting
    BY DEF Worker, Woken
  <2>2. retryAfter(w) = v
    BY <1>2 DEF retryAfter
  <2> HIDE DEF v
  <2> QED
    BY <1>2, <2>1, <2>2 DEF Allowed, Agrees
<1> QED
  BY <1>1, <1>2

\* So does a poll.
LEMMA PollAllowed ==
  ASSUME LoopInv, NEW w \in Worker, Agrees(w)
  PROVE  Allowed(polls(w)) /\ Allowed(declined(w))
<1>1. CASE enabled /\ token # None
  <2> DEFINE v == [w EXCEPT !.pc = "poll", !.http = TRUE, !.token = token]
  <2>1. v \in Worker /\ v.pc = "poll" /\ v.accepting = w.accepting
    BY DEF Worker, Woken, LoopInv, SettingsTypes
  <2>2. polls(w) = v
    BY <1>1 DEF polls
  <2> HIDE DEF v
  <2> QED
    BY <2>1, <2>2, AnewAllowed DEF Allowed, Agrees, declined, Worker
<1>2. CASE ~(enabled /\ token # None)
  <2> DEFINE v == [w EXCEPT !.http = TRUE]
  <2>1. v \in Worker /\ v.accepting = w.accepting
    BY DEF Worker, Woken
  <2>2. polls(w) = retryAfter(v)
    BY <1>2 DEF polls
  <2> HIDE DEF v
  <2> QED
    BY <2>1, <2>2, WaitAllowed, AnewAllowed DEF Agrees, declined, Worker
<1> QED
  BY <1>1, <1>2

\* Whatever ends a session.
LEMMA OutcomeAllowed ==
  ASSUME LoopInv, NEW w \in Worker, Agrees(w), NEW v \in outcomes(w)
  PROVE  Allowed(v)
<1>1. CASE v = [w EXCEPT !.pc = "rejected"]
  <2>1. v \in Worker /\ v.pc = "rejected" /\ v.accepting = w.accepting
    BY <1>1 DEF Worker, Woken
  <2> QED
    BY <2>1 DEF Allowed, Agrees
<1>2. CASE v \in {top(w), retryAfter(w), polls(w)}
  BY <1>2, AnewAllowed, WaitAllowed, PollAllowed DEF Worker
<1> QED
  BY <1>1, <1>2 DEF outcomes

\* The steps of the loop: a snapshot is used only if no event came in between.
LEMMA LoopKeeps ==
  ASSUME LoopInv, Loop \/ SocketDrops
  PROVE  Allowed(worker') /\ UNCHANGED storage
<1> USE DEF goes
<1>0. worker \in Worker /\ worker \in Woken
  BY DEF LoopInv, Allowed, Worker
<1>1. CASE Read
  <2> DEFINE v == [worker EXCEPT !.pc = "read", !.on = enabled, !.token = token]
  <2>1. v \in Worker /\ v.pc = "read" /\ v.on = enabled
    BY <1>0 DEF Worker, Woken, LoopInv, SettingsTypes
  <2> HIDE DEF v
  <2>2. Allowed(v)
    BY <2>1 DEF Allowed, Past
  <2>3. (worker' = v \/ worker' = ends(worker)) /\ UNCHANGED storage
    BY <1>1 DEF Read, v
  <2> QED
    BY <1>0, <2>2, <2>3, AnewAllowed
<1>2. CASE Decide
  <2> DEFINE serves == worker.on /\ worker.token # None
             w == [worker EXCEPT !.accepting = serves]
             v == [w EXCEPT !.pc = "connecting"]
  <2>1. serves \in BOOLEAN
    OBVIOUS
  <2>2. w \in Worker /\ w.accepting = serves /\ v \in Worker /\ v.pc = "connecting" /\ v.accepting = serves
    BY <1>0, <2>1 DEF Worker, Woken
  <2>3. CASE worker.moved
    BY <1>0, <1>2, <2>3, AnewAllowed DEF Decide
  <2>4. CASE ~worker.moved /\ ~serves
    <3>1. worker' = ends(w) /\ UNCHANGED storage
      BY <1>2, <2>4 DEF Decide
    <3> QED
      BY <2>2, <3>1, AnewAllowed DEF Worker
  <2>5. CASE ~worker.moved /\ serves
    <3>1. (worker' = v \/ worker' = polls(w)) /\ UNCHANGED storage /\ worker.pc = "read"
      BY <1>2, <2>5 DEF Decide
    <3>2. Quiet => enabled
      BY <2>5, <3>1 DEF LoopInv, Allowed
    <3>3. Agrees(w) /\ Agrees(v)
      BY <2>2, <2>5, <3>2 DEF Agrees
    <3>4. Allowed(v)
      BY <2>2, <3>3 DEF Allowed
    <3>5. Allowed(polls(w))
      BY <2>2, <3>3, PollAllowed
    <3> QED
      BY <3>1, <3>4, <3>5
  <2> QED
    BY <2>3, <2>4, <2>5
<1>3. CASE Past(worker) /\ UNCHANGED storage /\
           \/ worker' \in {top(worker), retryAfter(worker), ends(worker), polls(worker), declined(worker)}
           \/ worker' \in outcomes(worker)
  <2>1. Agrees(worker)
    BY <1>3 DEF LoopInv, Allowed
  <2> QED
    BY <1>0, <1>3, <2>1, AnewAllowed, WaitAllowed, PollAllowed, OutcomeAllowed
<1>4. CASE /\ Past(worker) /\ UNCHANGED storage
           /\ \/ worker' = [worker EXCEPT !.pc = "ticket"]
              \/ worker' = [worker EXCEPT !.pc = "rejected"]
  <2>1. Agrees(worker)
    BY <1>4 DEF LoopInv, Allowed
  <2>2. worker' \in Worker /\ worker'.pc \in {"ticket", "rejected"} /\ worker'.accepting = worker.accepting
    BY <1>0, <1>4 DEF Worker, Woken
  <2> QED
    BY <1>4, <2>1, <2>2 DEF Allowed, Agrees
<1>5. CASE Past(worker) /\ UNCHANGED storage /\ current /\ worker' = [worker EXCEPT !.pc = "socket"]
  <2>1. Agrees(worker) /\ ~worker.moved /\ worker.accepting /\ enabled /\ token = worker.token
    BY <1>5 DEF LoopInv, Allowed, current
  <2>2. /\ worker' \in Worker /\ worker'.pc = "socket" /\ worker'.accepting = worker.accepting
        /\ worker'.moved = worker.moved /\ worker'.token = worker.token
    BY <1>0, <1>5 DEF Worker, Woken
  <2> QED
    BY <1>5, <2>1, <2>2 DEF Allowed, Agrees
<1>6. CASE Connect \/ TicketAnswer
  BY <1>3, <1>4, <1>5, <1>6 DEF Connect, TicketAnswer, Past
<1>7. CASE SocketCloses \/ SocketDrops
  BY <1>3, <1>7 DEF SocketCloses, SocketDrops, Past
<1>8. CASE PollAnswer \/ ReportRejected \/ RetryTimer
  BY <1>3, <1>8 DEF PollAnswer, ReportRejected, RetryTimer, Past
<1> QED
  BY <1>1, <1>2, <1>6, <1>7, <1>8 DEF Loop

\* What is left of a worker that is told of a change: nothing waits, a snapshot
\* and a socket are marked as overtaken.
LEMMA ChangedIs ==
  ASSUME NEW w \in Woken
  PROVE  /\ changed(w) \in Woken
         /\ changed(w).pc = (CASE w.pc = "off" -> "reading" [] w.pc = "sleep" -> "woken" [] OTHER -> w.pc)
         /\ changed(w).accepting = w.accepting
         /\ w.pc # "off" => changed(w).moved /\ (w.pc = "socket" => changed(w).closing)
<1> DEFINE v == [w EXCEPT !.moved = TRUE, !.closing = w.pc = "socket"]
           k == [v EXCEPT !.restart = TRUE, !.pc = IF @ = "sleep" THEN "woken" ELSE @]
<1>1. (w.pc = "socket") \in BOOLEAN
  OBVIOUS
<1>2. v \in Woken /\ v.pc = w.pc /\ v.accepting = w.accepting /\ v.moved /\ (w.pc = "socket" => v.closing)
  BY <1>1 DEF Woken
<1>3. changed(w) = IF v.pc = "off" THEN start(v) ELSE k
  BY DEF changed, kick
<1> HIDE DEF v
<1>4. /\ start(v) \in Woken /\ start(v).pc = "reading" /\ start(v).accepting = v.accepting
  BY <1>2 DEF start, top, Woken
<1>5. /\ k \in Woken /\ k.pc = (IF v.pc = "sleep" THEN "woken" ELSE v.pc)
      /\ k.accepting = v.accepting /\ k.moved = v.moved /\ k.closing = v.closing
  BY <1>2 DEF Woken
<1> HIDE DEF k
<1> QED
  BY <1>2, <1>3, <1>4, <1>5

\* A woken wait goes on.
LEMMA SettleIs ==
  ASSUME NEW w \in Woken
  PROVE  /\ settle(w) \in Worker
         /\ settle(w).pc = (IF w.pc = "woken" THEN "reading" ELSE w.pc)
         /\ w.pc # "woken" => settle(w) = w
<1>1. top(w) \in Worker /\ top(w).pc = "reading"
  BY DEF top, Worker, Woken
<1> QED
  BY <1>1 DEF settle, Worker

\* An event of storage: what was read before it no longer counts, and
\* acceptingCommands follows it.
LEMMA OnChangedKeeps ==
  ASSUME LoopInv, OnChanged
  PROVE  LoopInv'
<1> DEFINE e == Head(changes)
           a == [worker EXCEPT !.accepting = e.enabled = "on"]
           w == IF e.enabled = "same" THEN worker ELSE changed(a)
           x == IF e.other THEN changed(w) ELSE w
<1>1. worker' = settle(x) /\ changes' = Tail(changes) /\ changes # <<>> /\ UNCHANGED <<enabled, token>>
  BY DEF OnChanged
<1>2. /\ Len(changes') = Len(changes) - 1 /\ changes' \in Seq(Event) /\ Len(changes) \in Nat
      /\ 1 \in DOMAIN changes /\ e = changes[1] /\ e \in Event
      /\ DOMAIN changes = 1 .. Len(changes) /\ DOMAIN changes' = 1 .. Len(changes')
      /\ \A i \in DOMAIN changes' : i + 1 \in DOMAIN changes /\ changes'[i] = changes[i + 1]
      /\ \A i \in DOMAIN changes : i > 1 => i - 1 \in DOMAIN changes' /\ changes'[i - 1] = changes[i]
  BY <1>1, HeadTailProperties DEF LoopInv, SettingsTypes
<1>3. /\ worker \in Woken /\ worker.pc # "woken" /\ a \in Woken /\ a.pc = worker.pc
      /\ a.accepting <=> e.enabled = "on"
  <2>1. (e.enabled = "on") \in BOOLEAN
    OBVIOUS
  <2> QED
    BY <2>1 DEF LoopInv, Allowed, Worker, Woken
<1>4. e.enabled # "same" \/ e.other
  BY <1>2 DEF LoopInv, Events
<1>5. Quiet' /\ e.enabled = "same" => Quiet
  BY <1>2 DEF Quiet
<1>6. Quiet' /\ e.enabled # "same" => (enabled <=> e.enabled = "on")
  <2> SUFFICES ASSUME Quiet', e.enabled # "same"
               PROVE  enabled <=> e.enabled = "on"
    OBVIOUS
  <2>1. \A j \in DOMAIN changes : j > 1 => changes[j].enabled = "same"
    BY <1>2 DEF Quiet
  <2> QED
    BY <1>2, <2>1 DEF LoopInv, Events
<1> HIDE DEF e, a
<1>7. /\ w \in Woken
      /\ w.pc = "sleep" => e.enabled = "same"
      /\ e.enabled # "same" => w.pc # "off"
      /\ w.pc \in {"read", "socket"} => w.pc = worker.pc
      /\ w.pc \in {"read", "socket"} /\ e.enabled # "same" => w.moved /\ (w.pc = "socket" => w.closing)
      /\ Past(w) => Past(worker) /\ (w.accepting <=> IF e.enabled = "same" THEN worker.accepting ELSE e.enabled = "on")
  BY <1>3, ChangedIs DEF Past
<1> HIDE DEF w
<1>8. /\ x \in Woken
      /\ x.pc # "sleep"
      /\ x.pc = "read" => x.moved
      /\ x.pc = "socket" => x.closing
      /\ Past(x) => Past(worker) /\ (x.accepting <=> IF e.enabled = "same" THEN worker.accepting ELSE e.enabled = "on")
  <2>1. CASE e.other
    BY <1>7, <2>1, ChangedIs DEF Past
  <2>2. CASE ~e.other
    BY <1>4, <1>7, <2>2
  <2> QED
    BY <2>1, <2>2
<1> HIDE DEF x
<1>9. /\ worker' \in Worker /\ worker'.pc # "sleep"
      /\ worker'.pc = "read" => worker'.moved
      /\ worker'.pc = "socket" => worker'.closing
      /\ Past(worker') => Past(worker) /\ (worker'.accepting <=> IF e.enabled = "same" THEN worker.accepting ELSE e.enabled = "on")
  BY <1>1, <1>8, SettleIs DEF Past
<1>10. Past(worker') => Agrees(worker)'
  BY <1>1, <1>5, <1>6, <1>9 DEF Agrees, LoopInv, Allowed
<1>11. Allowed(worker)'
  BY <1>9, <1>10 DEF Allowed, Past, Worker, Woken
<1>12. Events'
  <2> SUFFICES ASSUME NEW i \in DOMAIN changes'
               PROVE  /\ changes'[i].enabled # "same" \/ changes'[i].other
                      /\ changes'[i].enabled # "same" /\ (\A j \in DOMAIN changes' : j > i => changes'[j].enabled = "same") =>
                           (enabled' <=> changes'[i].enabled = "on")
    BY DEF Events
  <2>1. i + 1 \in DOMAIN changes /\ changes'[i] = changes[i + 1]
    BY <1>2
  <2>2. (\A j \in DOMAIN changes' : j > i => changes'[j].enabled = "same") =>
        (\A j \in DOMAIN changes : j > i + 1 => changes[j].enabled = "same")
    BY <1>2
  <2> QED
    BY <1>1, <2>1, <2>2 DEF LoopInv, Events
<1> QED
  BY <1>1, <1>2, <1>11, <1>12 DEF LoopInv, SettingsTypes

\* The alarm wakes a wait, and starts a loop that is not running.
LEMMA WatchdogKeeps ==
  ASSUME LoopInv, Watchdog
  PROVE  Allowed(worker') /\ UNCHANGED storage
<1> DEFINE k == [worker EXCEPT !.restart = TRUE, !.pc = IF @ = "sleep" THEN "woken" ELSE @]
<1>1. worker' = settle(kick(worker)) /\ UNCHANGED storage /\ worker \in Worker /\ worker \in Woken
  BY DEF Watchdog, goes, LoopInv, Allowed, Worker
<1>2. CASE worker.pc = "off"
  <2>1. start(worker) \in Woken /\ start(worker).pc = "reading"
    BY <1>1 DEF start, top, Woken
  <2>2. worker' = start(worker)
    BY <1>1, <1>2, <2>1, SettleIs DEF kick
  <2> QED
    BY <1>1, <2>2, AnewAllowed
<1>3. CASE worker.pc # "off"
  <2>1. /\ k \in Woken /\ k.pc = (IF worker.pc = "sleep" THEN "woken" ELSE worker.pc)
        /\ k.moved = worker.moved /\ k.accepting = worker.accepting /\ k.on = worker.on
        /\ k.token = worker.token /\ k.closing = worker.closing
    BY <1>1 DEF Woken
  <2>2. worker' = settle(k)
    BY <1>1, <1>3 DEF kick
  <2> HIDE DEF k
  <2>3. CASE worker.pc = "sleep"
    BY <1>1, <2>1, <2>2, <2>3, AnewAllowed DEF settle
  <2>4. CASE worker.pc # "sleep"
    <3>1. worker' = k /\ k.pc = worker.pc /\ k \in Worker
      BY <1>1, <2>1, <2>2, <2>4, SettleIs DEF Worker
    <3> QED
      BY <1>1, <2>1, <3>1 DEF LoopInv, Allowed, Past, Agrees
  <2> QED
    BY <2>3, <2>4
<1> QED
  BY <1>2, <1>3

\* A click changes storage by one call, or not.
LEMMA PagesStore ==
  ASSUME PairInv, PairingStep
  PROVE  \/ UNCHANGED storage
         \/ \E e \in BOOLEAN, t \in Device \cup {None} : store(e, t)
<1>1. issued \subseteq Device /\ token \in Device \cup {None} /\ enabled \in BOOLEAN
  BY DEF PairInv, Types
<1>2. ASSUME NEW c \in Click, Publish(c)
      PROVE  UNCHANGED storage \/ \E t \in Device \cup {None} : store(TRUE, t)
  <2>1. op[c].new \in Device \cup {None}
    BY <1>1 DEF PairInv, Types, Field
  <2> QED
    BY <1>2, <2>1 DEF Publish
<1>3. ASSUME NEW c \in Click, UnregisterClick(c)
      PROVE  store(FALSE, token)
  BY <1>3 DEF UnregisterClick
<1>4. ASSUME NEW c \in Click, RemoveToken(c)
      PROVE  store(enabled, None)
  BY <1>4 DEF RemoveToken
<1>5. CASE Toggle
  <2>1. store(~enabled, token) /\ (~enabled) \in BOOLEAN
    BY <1>1, <1>5 DEF Toggle
  <2> QED
    BY <1>1, <2>1
<1>6. ASSUME NEW c \in Click, \/ RegisterClick(c) \/ RelayRegisters(c) \/ TokenLost(c) \/ RemoveFails(c)
                             \/ RelayUnregisters(c) \/ RevokeFails(c) \/ Conclude(c)
      PROVE  UNCHANGED storage
  BY <1>6 DEF RegisterClick, RelayRegisters, TokenLost, RemoveFails, RelayUnregisters, RevokeFails, Conclude
<1> QED
  BY <1>1, <1>2, <1>3, <1>4, <1>5, <1>6 DEF PairingStep

\* At first the worker is dead and nothing is to be heard.
LEMMA LoopStarts ==
  ASSUME PairInv, StorageInit, LoopInit
  PROVE  LoopInv
<1>1. Dead \in Worker /\ Dead.pc = "dead"
  BY DEF Dead, Worker, Woken
<1>2. SettingsTypes
  BY EmptySeq DEF PairInv, Types, StorageInit, SettingsTypes
<1> QED
  BY <1>1, <1>2 DEF StorageInit, LoopInit, LoopInv, Events, Allowed, Past

\* Every step of the pages and of the worker keeps it.
LEMMA LoopStepInv ==
  ASSUME PairInv, LoopInv, [Next]_vars
  PROVE  LoopInv'
<1>1. ASSUME Allowed(worker'), UNCHANGED storage PROVE LoopInv'
  <2>1. Allowed(worker)'
    BY <1>1 DEF Allowed, Past, Agrees, Quiet, storage, Worker, Woken
  <2> QED
    BY <1>1, <2>1 DEF LoopInv, SettingsTypes, Events, storage
<1>2. CASE UNCHANGED <<storage, worker>>
  BY <1>1, <1>2 DEF LoopInv
<1>3. CASE PairingStep /\ UNCHANGED worker
  BY <1>2, <1>3, PagesStore, StoreKeeps
<1>4. CASE Loop \/ SocketDrops
  BY <1>1, <1>4, LoopKeeps
<1>5. CASE Watchdog
  BY <1>1, <1>5, WatchdogKeeps
<1>6. CASE OnChanged
  BY <1>6, OnChangedKeeps
<1>7. CASE Kill
  <2>1. /\ worker' = Dead /\ UNCHANGED <<enabled, token>>
        /\ changes' = changes \/ changes' = <<>>
    BY <1>7 DEF Kill
  <2>2. Dead \in Worker /\ Dead.pc = "dead"
    BY DEF Dead, Worker, Woken
  <2>3. Allowed(worker)'
    BY <2>1, <2>2 DEF Allowed, Past, Worker, Woken
  <2>4. SettingsTypes'
    BY <2>1, EmptySeq DEF LoopInv, SettingsTypes
  <2>5. Events'
    <3>1. CASE changes' = changes
      BY <2>1, <3>1 DEF LoopInv, Events
    <3>2. CASE changes' = <<>>
      BY <3>2 DEF Events
    <3> QED
      BY <2>1, <3>1, <3>2
  <2> QED
    BY <2>3, <2>4, <2>5 DEF LoopInv
<1>8. CASE Boot
  <2>1. worker \in Woken
    BY DEF LoopInv, Allowed, Worker
  <2> QED
    BY <1>1, <1>8, <2>1, AnewAllowed DEF Boot, goes
<1> QED
  BY <1>2, <1>3, <1>4, <1>5, <1>6, <1>7, <1>8 DEF Next, LoopStep, vars

-----------------------------------------------------------------------------
(* Theorems *)

\* However registrations, new pairings, removals and lost answers interleave, the
\* relay's table of devices and the stored token agree (options.js:107-184).
THEOREM PairingAlwaysAgrees == Spec => []PairingAgrees
<1>1. Init => PairInv
  BY InitInv DEF Init
<1>2. PairInv /\ [Next]_vars => PairInv'
  BY StepInv
<1>3. PairInv => PairingAgrees
  BY DEF PairInv
<1> QED
  BY <1>1, <1>2, <1>3, PTL DEF Spec

\* A success a page shows is true at that moment (options.js:75-80, :145, :177).
THEOREM ClaimsAlwaysTrue == Spec => ClaimsAreTrue
<1> DEFINE Claim ==
       /\ status'.says = "registered" => token' = status'.dev /\ token' \in registered'
       /\ status'.says = "unregistered" => token' = None
       /\ status'.says # "registered" => status'.dev \notin registered'
<1>1. ASSUME PairInv, NEW c \in Click, Conclude(c), status' # status
      PROVE  Claim
  <2>1. /\ status' = shown(c) /\ at(c, "revoked") /\ op[c] \in Field
        /\ op[c].intent = intent \/ op[c].says = "cancelled"
        /\ UNCHANGED <<token, registered>>
    BY <1>1 DEF Conclude, storage, PairInv, Types
  <2>2. status'.says = op[c].says /\ status'.dev = IF op[c].says = "unregistered" THEN op[c].old ELSE op[c].new
    BY <2>1 DEF shown
  <2>3. /\ op[c].says \in {"registered", "cancelled", "unregistered"}
        /\ op[c].target \notin registered
        /\ op[c].target = IF op[c].says = "cancelled" THEN op[c].new ELSE op[c].old
    BY <1>1, <2>1 DEF PairInv, Targets, Field, at
  <2>4. op[c].says = "registered" => token = op[c].new /\ op[c].new # None
    BY <1>1, <2>1 DEF PairInv, Current, Targets, at
  <2> QED
    BY <1>1, <2>1, <2>2, <2>3, <2>4 DEF PairInv, Current, PairingAgrees, at
<1>2. ASSUME Next, ~\E c \in Click : Conclude(c)
      PROVE  UNCHANGED status
  <2>1. CASE PairingStep
    BY <1>2, <2>1
       DEF PairingStep, RegisterClick, RelayRegisters, TokenLost, Publish, UnregisterClick,
           RemoveToken,
       RemoveFails, RelayUnregisters, RevokeFails, Toggle
  <2>2. CASE UNCHANGED pages
    BY <2>2 DEF pages
  <2> QED
    BY <1>2, <2>1, <2>2 DEF Next
<1>3. PairInv /\ [Next]_vars => [status' # status => Claim]_<<storage, pages>>
  BY <1>1, <1>2 DEF vars, pages
<1>4. Init => PairInv
  BY InitInv DEF Init
<1>5. PairInv /\ [Next]_vars => PairInv'
  BY StepInv
<1> QED
  BY <1>3, <1>4, <1>5, PTL DEF Spec, ClaimsAreTrue

\* Both invariants hold whatever the pages and the worker do.
LEMMA BothInvariants == Spec => [](PairInv /\ LoopInv)
<1>1. Init => PairInv /\ LoopInv
  BY InitInv, LoopStarts DEF Init
<1>2. PairInv /\ LoopInv /\ [Next]_vars => (PairInv /\ LoopInv)'
  BY StepInv, LoopStepInv
<1> QED
  BY <1>1, <1>2, PTL DEF Spec

\* Once the worker has heard every change, an open socket is the stored token's
\* and nothing is waited out that a change should have ended
\* (background.js:1904-1906, :2087-2088, :2174-2187).
THEOREM HeardIsAlwaysObeyed == Spec => []HeardIsObeyed
<1>1. LoopInv => HeardIsObeyed
  BY DEF LoopInv, Allowed, HeardIsObeyed
<1> QED
  BY <1>1, BothInvariants, PTL

\* No older snapshot undoes a pause or a resume that was heard
\* (background.js:2071-2073, :2117-2119).
THEOREM AcceptingIsAlwaysEnabled == Spec => []AcceptingIsEnabled
<1>1. LoopInv => AcceptingIsEnabled
  <2> SUFFICES ASSUME LoopInv, Past(worker), changes = <<>>
               PROVE  worker.accepting <=> enabled
    BY DEF AcceptingIsEnabled, Past
  <2>1. Quiet
    BY DEF Quiet
  <2> QED
    BY <2>1 DEF LoopInv, Allowed, Agrees
<1> QED
  BY <1>1, BothInvariants, PTL
=============================================================================
