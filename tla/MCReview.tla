------------------------------- MODULE MCReview -------------------------------
(* One observed result, two callers who share command ids, and one reconciler. *)
EXTENDS IrcReview

CONSTANTS p1, p2, i1, i2, o1, red, blue, k1

AllRed == [o \in Observations |-> red]
=============================================================================
