-------------------------- MODULE MatchValidation ---------------------------
(***************************************************************************)
(* ValidateState, internal/matchengine/validation.go: the invariants a     *)
(* state must have to be stored or recovered.  NewMatchSnapshotDocument    *)
(* and DecodeState refuse any other state, so a command whose result is    *)
(* not valid is rejected like an illegal one: StoredNext.                  *)
(*                                                                         *)
(* Checks on parts of the state that MatchEngine does not have (versions,  *)
(* identifiers, reasons, time stamps, the configuration) are left out.     *)
(***************************************************************************)
EXTENDS MatchEngine

(* validateTimerShape *)
ValidTimerShape ==
  IF timer.duration = 0
  THEN ~timer.paused /\ timer.left = 0
  ELSE IF timer.paused THEN timer.left <= timer.duration ELSE timer.left = 0

(* validateTurnAndTimer *)
ValidTurnAndTimer ==
  /\ ValidTimerShape
  /\ phase = "NONE" =>
       /\ lifecycle = "READY" => turn = 0
       /\ lifecycle = "ADJUDICATION_REQUIRED" => turn >= 1
       /\ lifecycle \in {"FINISHED", "ABORTED"} => turn >= -3
  /\ phase = "BAN" => turn \in -3..0 /\ active = BanTeam(turn)
  /\ phase \in {"PICK", "WAITING_FOR_RESULT"} => turn >= 1 /\ active = PickTeam(turn)
  /\ phase \in {"TB_PREPARATION", "TB_PLAYING"} => turn >= 1
  /\ timer.duration > 0 <=> phase \in {"BAN", "PICK", "WAITING_FOR_RESULT", "TB_PREPARATION"}

(* validatePoolAndBoard *)
ValidPool ==
  \A s \in Slots :
    /\ Mod[s] = "SHIRO" => slots[s] # "BANNED"
    /\ Mod[s] = "TB" => slots[s] = "AVAILABLE"
    /\ slots[s] = "SELECTED" <=> \E c \in Cells : board[c].slot = s

ValidPiece(p) ==
  \/ p.outcome = "WAITING_RESULT" /\ p.owner = NoTeam
  \/ p.outcome \in {"WON", "DEAD"} /\ p.owner \in Teams
  \/ p.outcome = "WHITE" /\ p.owner = NoTeam /\ Mod[p.slot] = "SHIRO"

ValidBoard ==
  LET occupied == {c \in Cells : ~Empty(board, c)} IN
  /\ \A c \in occupied : ValidPiece(board[c]) /\ slots[board[c].slot] = "SELECTED"
  /\ \A c, d \in occupied : board[c].slot = board[d].slot => c = d

ValidPendingPiece ==
  LET waiting == {c \in Cells : board[c].outcome = "WAITING_RESULT"} IN
  IF phase = "WAITING_FOR_RESULT"
  THEN pendingPiece # NoCell /\ waiting = {pendingPiece}
  ELSE pendingPiece = NoCell /\ waiting = {}

(* validateLifecycleState and validateActivePhase *)
ValidActivePhase ==
  /\ phase # "NONE"
  /\ active \in Teams <=> phase \in {"BAN", "PICK", "WAITING_FOR_RESULT"}

ValidLifecycle ==
  /\ lifecycle \notin {"RUNNING", "SUSPENDED"} => phase = "NONE" /\ active = NoTeam
  /\ lifecycle \in {"RUNNING", "SUSPENDED"} => ValidActivePhase
  /\ suspension.held <=> lifecycle = "SUSPENDED"
  /\ result.reason # "NONE" <=> lifecycle = "FINISHED"
  /\ stalemate # NoStalemate <=> lifecycle = "ADJUDICATION_REQUIRED"
  /\ lifecycle = "READY" =>
       /\ board = NewBoard
       /\ \A s \in Slots : slots[s] = "AVAILABLE"
       /\ robberyUsed = {} /\ pauseUsed = {}
  /\ lifecycle = "SUSPENDED" =>
       /\ suspension.hadTimer => timer.paused
       /\ HasTimer(timer) => suspension.hadTimer
       /\ suspension.wasPaused => suspension.hadTimer

(* validateRecoveryEvidence *)
ValidPendingRequest ==
  pendingTB # NoTeam =>
    /\ lifecycle \in {"RUNNING", "SUSPENDED"} /\ phase = "PICK"
    /\ InTBWindow(turn)
    /\ tbEntry = "NONE"

(* validateTBEntryEvidence *)
ValidTBEntry ==
  LET inTB == phase \in {"TB_PREPARATION", "TB_PLAYING"}
      ongoing == lifecycle \in {"RUNNING", "SUSPENDED"}
  IN  /\ tbEntry = "NONE" =>
           /\ ~inTB
           /\ ongoing /\ phase = "PICK" => ~ForcedTBRequirementsMet(board, turn, robberyUsed)
      /\ tbEntry # "NONE" =>
           /\ pendingTB = NoTeam
           /\ lifecycle \notin {"READY", "ADJUDICATION_REQUIRED"}
           /\ ongoing => inTB
      /\ tbEntry = "CAPTAIN_AGREEMENT" => InTBWindow(turn)
      /\ tbEntry = "FORCED_AFTER_ROBBERY_CHECKS" =>
           ForcedTBRequirementsMet(board, turn, robberyUsed)

Counts == [red |-> WonCount(board, "RED"), blue |-> WonCount(board, "BLUE")]

ValidAdjudication ==
  lifecycle = "ADJUDICATION_REQUIRED" =>
    /\ stalemate.red = stalemate.blue
    /\ Stalemate(board, slots)
    /\ stalemate = Counts

ValidResult ==
  LET counted == [red |-> result.red, blue |-> result.blue]
      uncounted == counted = [red |-> 0, blue |-> 0]
  IN  lifecycle = "FINISHED" =>
        /\ result.winner \in Teams
        /\ result.reason = "FOUR_ALIGNMENT" =>
             uncounted /\ result.confirmers = {} /\ tbEntry = "NONE" /\ HasFour(board, result.winner)
        /\ result.reason = "TB" => uncounted /\ result.confirmers = {} /\ tbEntry # "NONE"
        /\ result.reason = "SURRENDER" =>
             uncounted /\ SurrenderEvidence(Opponent(result.winner), result.confirmers)
        /\ result.reason = "STALEMATE_WON_COUNT" =>
             /\ result.confirmers = {} /\ tbEntry = "NONE"
             /\ result.red # result.blue
             /\ result.red > result.blue <=> result.winner = "RED"
             /\ Stalemate(board, slots)
             /\ counted = Counts

ValidateState ==
  /\ ValidTurnAndTimer
  /\ ValidPool /\ ValidBoard /\ ValidPendingPiece
  /\ ValidLifecycle
  /\ ValidPendingRequest /\ ValidTBEntry /\ ValidAdjudication /\ ValidResult

-----------------------------------------------------------------------------
(***************************************************************************)
(* The match as it is stored: CommandStore.Apply builds the snapshot       *)
(* document of the engine's transition inside its transaction, so a        *)
(* transition to an invalid state is rolled back.  Time passes by itself.   *)
(***************************************************************************)
Commits == Executes /\ ValidateState'

StoredNext == Commits \/ Tick

StoredSpec == Init /\ [][StoredNext]_vars

-----------------------------------------------------------------------------
(* An expired window of a running match *)

WindowOver ==
  lifecycle = "RUNNING" /\ ~timer.paused /\ Expired(timer) /\ turn < MaxTurn

ClosesWindow ==
  \/ SkipCurrentAction \/ StartTB
  \/ \E t \in Teams : ConfirmBeatmapResult(t) \/ ConfirmTBResult(t)

(* Once the window of a running match has run out, play can go on: a skip, a *)
(* result or the start of the tiebreaker is accepted, and whichever the      *)
(* referee issues, and whichever team it names the winner, leads to another  *)
(* turn or phase and to a state that can be stored.  No expired window is a  *)
(* dead end behind the validation of states.                                 *)
ExpiredWindowCanBeClosed ==
  /\ [](WindowOver => MaySkip \/ MayConfirm \/ MayStartTB \/ MayConfirmTB)
  /\ [][WindowOver /\ ClosesWindow => (phase' # phase \/ turn' # turn) /\ ValidateState']_vars

-----------------------------------------------------------------------------
(* The states the engine can reach and validation refuses *)

(* A phase whose action has a window, but the timer was calibrated to zero    *)
(* or resumed with nothing left; or a paused timer calibrated beyond its      *)
(* window.                                                                    *)
ClockWithoutTime ==
  \/ /\ phase \in {"BAN", "PICK", "WAITING_FOR_RESULT", "TB_PREPARATION"}
     /\ timer.duration = 0
  \/ timer.paused /\ timer.left > timer.duration

(* The match ended by an abort or a surrender while a piece awaited its result. *)
PieceLeftWaiting ==
  /\ lifecycle \in {"FINISHED", "ABORTED"}
  /\ \E c \in Cells : board[c].outcome = "WAITING_RESULT"

(* A piece was placed while a request for the tiebreaker was open. *)
RequestBesideResult == pendingTB # NoTeam /\ phase = "WAITING_FOR_RESULT"

(* Validation is a second description of the states, written apart from the  *)
(* commands.  Whatever sequence of commands Execute accepts, the two differ  *)
(* in three ways only, and each part of the validation fails for its own: a  *)
(* clock without time, a piece left waiting, a request beside a result.      *)
(* Pool, board, lifecycle, tiebreaker entry and verdict are always storable. *)
OnlyKnownRefusals ==
  /\ ValidTurnAndTimer <=> ~ClockWithoutTime
  /\ ValidPendingPiece <=> ~PieceLeftWaiting
  /\ ValidPendingRequest <=> ~RequestBesideResult
  /\ ValidPool /\ ValidBoard /\ ValidLifecycle
  /\ ValidTBEntry /\ ValidAdjudication /\ ValidResult

(***************************************************************************)
(* The accepted commands whose result cannot be stored: a piece placed     *)
(* before the other captain answered, an end of the match while a result   *)
(* is awaited, a calibration to no time or beyond a paused window, and the *)
(* resumption of a clock with nothing left.                                *)
(***************************************************************************)
Refused ==
  \/ pendingTB # NoTeam /\ phase' = "WAITING_FOR_RESULT"
  \/ /\ phase = "WAITING_FOR_RESULT"
     /\ lifecycle' = "ABORTED" \/ result'.reason = "SURRENDER"
  \/ \E r \in CalibrateTo :
       CalibrateTimer(r) /\ IF timer.paused THEN r > timer.duration ELSE r = 0
  \/ /\ ResumeTimer \/ ResumeMatch
     /\ timer.paused /\ timer.left = 0 /\ ~timer'.paused

(* From a stored state, an accepted command is rolled back by the validation *)
(* in these four cases and in no other: each bans, skips, robs, confirms,    *)
(* forces a tiebreaker or ends a match into a state that can be stored.      *)
RefusalsAreKnown == [][ValidateState => (ValidateState' <=> ~Refused)]_vars
=============================================================================
