------------------------------ MODULE MCSlots -------------------------------
(* Slots on a small instance. *)
EXTENDS Slots, TLC

CONSTANTS t1, t2, pat, sam, alex

StationAndRole == {1, 2}
OneStation == {1}
FamilyOf == [k \in {alex} |-> pat]
RoomForOne == [s \in Slots |-> 1]
Interchangeable == Permutations(Requests)
=============================================================================
