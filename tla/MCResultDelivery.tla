--------------------------- MODULE MCResultDelivery ---------------------------
(* Instances of ResultDelivery for TLC. *)
EXTENDS ResultDelivery, TLC

Interchangeable == Permutations(Device)
=============================================================================
