----------------------------- MODULE MCDelivery -----------------------------
\* Nothing tells one device from another.
EXTENDS DeliveryCourse, TLC

Devices == Permutations(Device)
=============================================================================
