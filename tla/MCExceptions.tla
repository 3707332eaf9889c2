---------------------------- MODULE MCExceptions ----------------------------
(* Small instances of LM32Exceptions. *)
EXTENDS LM32Exceptions

Slots == {Vector(0, id) : id \in ExcId}
MCUser == {200, 201}
MCCode == Slots \cup {256 + v : v \in Slots} \cup {150, 151} \cup MCUser
MCTargets == {150, 200}
=============================================================================
