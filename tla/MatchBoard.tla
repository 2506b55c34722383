----------------------------- MODULE MatchBoard -----------------------------
(***************************************************************************)
(* The 4x4 board of internal/matchengine/board.go and the rules that are   *)
(* functions of the board alone: mod zones, alignments, and robbery.       *)
(*                                                                         *)
(* A cell is <<column, row>>, 0-based, for "A1".."D4".  A board maps every *)
(* cell to a piece; an empty cell holds NoPiece.  A piece's server-made id *)
(* is unique on the board and a piece never moves, so its cell stands for  *)
(* its id.  The selecting team and the derived force mod of a piece decide *)
(* nothing and are left out.                                               *)
(*                                                                         *)
(* A definition whose comment begins with "Fault" is a seeded defect and   *)
(* no part of the model: with it in the place of the definition below it,  *)
(* a property of PROJECT.json's list must fail.                            *)
(***************************************************************************)
EXTENDS Integers, FiniteSets

CONSTANTS
  Slots,    \* the ids of the configured pool slots
  NoSlot,   \* no pool slot
  Mod       \* the mod of each pool slot

Mods == {"NM", "HD", "HR", "DT", "FM", "SHIRO", "TB"}

(***************************************************************************)
(* NewReadyState accepts a pool whose slots have valid mods, exactly one   *)
(* of them Shiro and exactly one the tiebreaker.                           *)
(***************************************************************************)
ASSUME PoolAssumption ==
  /\ NoSlot \notin Slots
  /\ Mod \in [Slots -> Mods]
  /\ \E s \in Slots : \A r \in Slots : Mod[r] = "SHIRO" <=> r = s
  /\ \E s \in Slots : \A r \in Slots : Mod[r] = "TB" <=> r = s

-----------------------------------------------------------------------------
(* Teams and pieces *)

Teams == {"RED", "BLUE"}
NoTeam == "NONE"

Opponent(t) == IF t = "RED" THEN "BLUE" ELSE "RED"

Outcomes == {"WAITING_RESULT", "WON", "WHITE", "DEAD"}

Pieces == [slot : Slots \cup {NoSlot}, owner : Teams \cup {NoTeam},
           outcome : Outcomes \cup {"EMPTY"}]

NoPiece == [slot |-> NoSlot, owner |-> NoTeam, outcome |-> "EMPTY"]

-----------------------------------------------------------------------------
(* Geometry *)

Cells == (0..3) \X (0..3)

NewBoard == [c \in Cells |-> NoPiece]

ZoneAt(c) ==
  IF c[2] < 2 THEN IF c[1] < 2 THEN "DT" ELSE "HD"
              ELSE IF c[1] < 2 THEN "HR" ELSE "DT"

(* HD, HR and DT slots need a cell of their own zone; NM and FM slots fit   *)
(* every zone, and so does Shiro, which is placed by a command of its own.  *)
ModFits(m, c) == m \in {"NM", "FM", "SHIRO"} \/ m = ZoneAt(c)

Directions == {<<1, 0>>, <<0, 1>>, <<1, 1>>, <<1, -1>>}

(* The connected lines of each length. *)
Lines ==
  [n \in 2..4 |->
     LET Line(c, d) == {<<c[1] + k * d[1], c[2] + k * d[2]>> : k \in 0..(n - 1)}
     IN  {L \in {Line(c, d) : c \in Cells, d \in Directions} : L \subseteq Cells}]

Empty(b, c) == b[c].outcome = "EMPTY"

(* The cells of the pieces team t has won and not sacrificed. *)
Won(b, t) == {c \in Cells : b[c].outcome = "WON" /\ b[c].owner = t}

WonCount(b, t) == Cardinality(Won(b, t))

Alignments(b, t, n) == LET won == Won(b, t) IN {L \in Lines[n] : L \subseteq won}

HasFour(b, t) == Alignments(b, t, 4) # {}

Place(b, c, s, outcome) ==
  [b EXCEPT ![c] = [slot |-> s, owner |-> NoTeam, outcome |-> outcome]]

SetOwner(b, c, t) == [b EXCEPT ![c].owner = t, ![c].outcome = "WON"]

-----------------------------------------------------------------------------
(* Robbery *)

IsUnownedShiro(b, c) ==
  b[c].outcome = "WHITE" /\ b[c].owner = NoTeam /\ Mod[b[c].slot] = "SHIRO"

(* Fault: a sacrificed piece of the opponent can be robbed too. *)
IsOpponentsDeadOrAlive(b, t, c) == b[c].owner = Opponent(t)

IsOpponents(b, t, c) == c \in Won(b, Opponent(t))

(***************************************************************************)
(* The sacrifices that are worth piece c to team t: one own line of two    *)
(* for the unowned Shiro; for a piece of the opponent one own line of      *)
(* three, or two own lines of two that share no piece.                     *)
(***************************************************************************)
Sacrifices(b, t, c) ==
  LET two == Alignments(b, t, 2) IN
  IF IsUnownedShiro(b, c) THEN {{L} : L \in two}
  ELSE IF IsOpponents(b, t, c)
       THEN {{L} : L \in Alignments(b, t, 3)}
              \cup {{p[1], p[2]} : p \in {q \in two \X two : q[1] \cap q[2] = {}}}
       ELSE {}

RequiredLength(b, c) == IF IsUnownedShiro(b, c) THEN 2 ELSE 3

(* Fault: the sacrifice is forgotten. *)
AfterFreeRobbery(b, t, c, dead) == SetOwner(b, c, t)

(* The sacrificed pieces die where they stand; the target changes hands. *)
AfterRobbery(b, t, c, dead) ==
  [x \in Cells |->
     IF x = c THEN [b[x] EXCEPT !.owner = t, !.outcome = "WON"]
     ELSE IF x \in dead THEN [b[x] EXCEPT !.outcome = "DEAD"]
     ELSE b[x]]

(* The robbed piece must end up in a line of the required length. *)
RobberyHolds(b, t, c, dead) ==
  \E L \in Alignments(AfterRobbery(b, t, c, dead), t, RequiredLength(b, c)) : c \in L

CanRob(b, t) ==
  \E c \in Cells : \E plan \in Sacrifices(b, t, c) :
    RobberyHolds(b, t, c, UNION plan)
=============================================================================
