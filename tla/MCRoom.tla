------------------------------- MODULE MCRoom --------------------------------
(* Three concurrent requests on one room.  Two complete values of the locked *)
(* settings and one incomplete one; two ids, one more than a room ever uses. *)
EXTENDS RoomStart, TLC

CONSTANTS p1, p2, p3, m1, m2

MCCallers == {p1, p2, p3}
MCOneCaller == {p1}
MCIds == {m1, m2}
MCSymmetry == Permutations(MCCallers) \cup Permutations(MCIds)
=============================================================================
