------------------------------ MODULE MCRelayLive ------------------------------
(* Instances of RelayLive for TLC. *)
EXTENDS RelayLive, TLC

Interchangeable == Permutations(Device) \cup Permutations(Socket) \cup Permutations(Driver)
=============================================================================
