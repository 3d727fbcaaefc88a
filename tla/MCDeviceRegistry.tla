--------------------------- MODULE MCDeviceRegistry ---------------------------
(***************************************************************************)
(* Instances of DeviceRegistry for TLC: one device that connects again.    *)
(***************************************************************************)
EXTENDS DeviceRegistry, TLC

CONSTANT d1

OneDevice == [c \in Conns |-> d1]

Symmetric == Permutations(Users) \cup Permutations(Requests)
===============================================================================
