----------------------------- MODULE MCRelayHub -----------------------------
(* Instances of RelayHub for TLC. *)
EXTENDS RelayHubLedger, TLC

\* A small body fits anywhere, a large one fits once, a huge one never.
BytesOf == [small |-> 1, other |-> 1, large |-> 2, huge |-> 4, failure |-> 1]
MCSize == [b \in Content |-> BytesOf[b]]

Interchangeable ==
  UNION {Permutations(S) : S \in {Device, Cmd, Request, Code, Ticket}}
=============================================================================
