------------------------------- MODULE MCStore -------------------------------
(* Two servers' worth of concurrent requests on one match of at most two     *)
(* commands.  Ids may be reused for another body or another version, and the *)
(* clocks of the servers may differ.                                         *)
EXTENDS CommandStore, TLC

CONSTANTS p1, p2, i1, i2, b1, b2

MCCallers == {p1, p2}
MCIds == {i1, i2}
MCBodies == {b1, b2}
MCSymmetry == Permutations(MCCallers) \cup Permutations(MCIds) \cup Permutations(MCBodies)
=============================================================================
