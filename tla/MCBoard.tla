------------------------------ MODULE MCBoard -------------------------------
(***************************************************************************)
(* The middle of a match, where robbery, alignments and the tiebreaker     *)
(* meet: turn 13 or 14, the lower half of the board taken by any           *)
(* distribution of eight won pieces without a four that leaves each team   *)
(* at least three (RED has the first one; either team may be the one to    *)
(* act), the unowned Shiro piece at                                        *)
(* <<1, 2>>, and one more cell of column 1 that players place on.          *)
(* At turn 14 n2 is banned, so that the match can run into a stalemate at  *)
(* once: h1 fits no cell.                                                  *)
(* Each of these states is one a match leads to: by turn 13 twelve pieces  *)
(* may have been placed, or turns skipped, and results go to either team.  *)
(***************************************************************************)
EXTENDS MatchSurface

CONSTANTS p1, p2, p3, p4, p5, p6, p7, p8, n1, n2, h1, sh, tb

MCMod == [s \in Slots |-> CASE s = sh -> "SHIRO" [] s = tb -> "TB" [] s = h1 -> "HD"
                            [] OTHER -> "NM"]

MCWindow == [w \in Windows |-> 1]

MCRoster == [t \in Teams |-> [leader |-> 1, players |-> {2, 3, 4}]]

MCPlayCells == {<<1, 3>>}

MCIssued ==
  {"PLACE_PIECE", "ROB_PIECE", "REFEREE_ROB_PIECE", "SKIP_CURRENT_ACTION",
   "CONFIRM_BEATMAP_RESULT", "REQUEST_TB", "RESPOND_TB_REQUEST"}

Placed == << <<p1, p2, p3, p4>>, <<p5, p6, p7, p8>> >>

MidGame ==
  /\ lifecycle = "RUNNING"
  /\ phase = "PICK"
  /\ turn \in {13, 14}
  /\ active = PickTeam(turn)
  /\ slots = [s \in Slots |->
                IF s = n2 /\ turn = 14 THEN "BANNED"
                ELSE IF s \in {n1, n2, h1, tb} THEN "AVAILABLE" ELSE "SELECTED"]
  /\ \E owner \in {o \in [(0..3) \X (0..1) -> Teams] : o[<<0, 0>>] = "RED"} :
       board = [c \in Cells |->
                  IF c[2] < 2 THEN [slot |-> Placed[c[2] + 1][c[1] + 1], owner |-> owner[c],
                                    outcome |-> "WON"]
                  ELSE IF c = <<1, 2>>
                       THEN [slot |-> sh, owner |-> NoTeam, outcome |-> "WHITE"]
                       ELSE NoPiece]
  /\ \A t \in Teams : ~HasFour(board, t) /\ WonCount(board, t) >= 3
  /\ timer = Started(Window["PICK"], 0)
  /\ robberyUsed = {}
  /\ pauseUsed = {}
  /\ pendingPiece = NoCell
  /\ pendingTB = NoTeam
  /\ tbEntry = "NONE"
  /\ result = NoResult
  /\ stalemate = NoStalemate
  /\ suspension = NoSuspension

MidGameSpec == MidGame /\ [][Next]_vars

StoredMidGameSpec == MidGame /\ [][StoredNext]_vars
=============================================================================
