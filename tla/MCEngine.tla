------------------------------ MODULE MCEngine ------------------------------
(***************************************************************************)
(* A whole match on a small pool and two cells of the board: every command *)
(* is issued, every window has length one, and time runs past expiry.      *)
(***************************************************************************)
EXTENDS MatchSurface, TLC

CONSTANTS n1, n2, h1, sh, tb

MCSlots == {n1, n2, h1, sh, tb}

MCMod == [s \in MCSlots |-> CASE s = sh -> "SHIRO" [] s = tb -> "TB" [] s = h1 -> "HD"
                              [] OTHER -> "NM"]

MCWindow == [w \in Windows |-> 1]

(* BLUE's roster is too small to surrender. *)
MCRoster == [t \in Teams |-> [leader |-> 1, players |-> IF t = "RED" THEN {2, 3, 4} ELSE {2}]]

(* The two NM slots are alike: no definition picks one of them by CHOOSE. *)
MCAlike == Permutations({n1, n2})

(* One cell of a DT zone and one of the HD zone. *)
MCPlayCells == {<<0, 0>>, <<3, 0>>}
=============================================================================
