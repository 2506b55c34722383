----------------------------- MODULE MatchEngine ----------------------------
(***************************************************************************)
(* The match rule engine, internal/matchengine: one aggregate State and    *)
(* one action for every command Execute dispatches.  A rejected command    *)
(* changes nothing and is a stuttering step, so each action is the guard   *)
(* (MayPlace, MayConfirm, ...) and the effect of the accepted command.     *)
(* The effect only assigns, so the guard tells when a command is accepted. *)
(* Version, events, audit reasons and the identifiers of pieces and        *)
(* requests are left out here; the CommandStore module models versions and *)
(* events.                                                                 *)
(*                                                                         *)
(* Time.  A timer holds how long ago it was started instead of an absolute *)
(* start; Tick lets one unit pass.  MaxElapsed bounds how long a running   *)
(* timer is watched, MaxTurn how far turns advance.                        *)
(***************************************************************************)
EXTENDS MatchBoard

CONSTANTS
  FirstBan, FirstPick,  \* the teams that ban and pick first
  Window,               \* length of each kind of timer window
  Roster,               \* each team's leader and players
  Issued,               \* the commands users issue in this instance
  PlayCells,            \* the cells players place pieces on
  CalibrateTo,          \* the remaining times a referee calibrates to
  MaxElapsed, MaxTurn   \* bounds of the instance

Windows == {"BAN", "BAN_ADDITIONAL", "PICK", "PICK_ADDITIONAL", "RESULT",
            "RESULT_ADDITIONAL", "TB_PREPARATION"}

Commands ==
  {"START_MATCH", "BAN_POOL_SLOT", "REFEREE_BAN_POOL_SLOT", "PLACE_PIECE",
   "REFEREE_PLACE_PIECE", "PLACE_SHIRO", "REFEREE_PLACE_SHIRO", "ROB_PIECE",
   "REFEREE_ROB_PIECE", "GRANT_ADDITIONAL_TIME", "CALIBRATE_TIMER", "PAUSE_TIMER",
   "RESUME_TIMER", "SUSPEND_MATCH", "RESUME_MATCH", "SKIP_CURRENT_ACTION",
   "ABORT_MATCH", "REQUEST_TB", "RESPOND_TB_REQUEST", "START_TB",
   "CONFIRM_TB_RESULT", "RECORD_SURRENDER", "CONFIRM_BEATMAP_RESULT"}

ASSUME ConfigurationAssumption ==
  /\ FirstBan \in Teams /\ FirstPick \in Teams
  /\ Window \in [Windows -> Nat \ {0}]
  /\ \A t \in Teams : Roster[t].leader \notin Roster[t].players
  /\ Issued \subseteq Commands
  /\ PlayCells \subseteq Cells
  /\ CalibrateTo \subseteq Nat
  /\ MaxElapsed \in Nat /\ MaxTurn \in Nat

(* A leader is kept apart from the players, and both count as rostered. *)
Members(t) == Roster[t].players \cup {Roster[t].leader}

VARIABLES
  lifecycle, phase, turn, active,
  slots,          \* each pool slot's selection state
  board,
  timer,
  robberyUsed,    \* the teams that have robbed at least once
  pauseUsed,      \* the teams that have used their additional time
  pendingPiece,   \* the cell of the piece that awaits a result, or NoCell
  pendingTB,      \* the team whose TB request is pending, or NoTeam
  tbEntry,        \* why the match entered the tiebreaker
  result, stalemate, suspension

matchVars == <<lifecycle, phase, turn, active, slots, board, robberyUsed, pauseUsed,
               pendingPiece, pendingTB, tbEntry, result, stalemate, suspension>>
vars == <<matchVars, timer>>

Lifecycles == {"READY", "RUNNING", "SUSPENDED", "ADJUDICATION_REQUIRED", "FINISHED", "ABORTED"}
Phases == {"NONE", "BAN", "PICK", "WAITING_FOR_RESULT", "TB_PREPARATION", "TB_PLAYING"}
SlotStates == {"AVAILABLE", "BANNED", "SELECTED"}
Bases == {"NONE", "CAPTAIN_AGREEMENT", "FORCED_AFTER_ROBBERY_CHECKS"}
Reasons == {"NONE", "FOUR_ALIGNMENT", "TB", "SURRENDER", "STALEMATE_WON_COUNT"}

NoCell == <<-1, -1>>
NoSuspension == [held |-> FALSE, hadTimer |-> FALSE, wasPaused |-> FALSE]
NoStalemate == [red |-> -1, blue |-> -1]
NoResult == [reason |-> "NONE", winner |-> NoTeam, red |-> 0, blue |-> 0, confirmers |-> {}]

-----------------------------------------------------------------------------
(* Timers *)

NoTimer == [duration |-> 0, elapsed |-> 0, paused |-> FALSE, left |-> 0]

(* A window that was opened `ago` units before now. *)
Started(duration, ago) ==
  [duration |-> duration, elapsed |-> ago, paused |-> FALSE, left |-> 0]

(* Fault: the remaining time is not clamped at zero. *)
RemainingUnclamped(t) == IF t.paused THEN t.left ELSE t.duration - t.elapsed

Remaining(t) ==
  IF t.paused THEN t.left
  ELSE IF t.elapsed < t.duration THEN t.duration - t.elapsed ELSE 0

Expired(t) == Remaining(t) = 0

(* A paused timer's start is never read again, so it is forgotten. *)
Pause(t) == [t EXCEPT !.left = Remaining(t), !.elapsed = 0, !.paused = TRUE]

(* Fault: resuming opens the whole window again. *)
ResumeAfresh(t) == Started(t.duration, 0)

Resume(t) == Started(t.left, 0)

HasTimer(t) == t.duration > 0 \/ t.paused

-----------------------------------------------------------------------------
(* Rules shared by the commands *)

(* Fault: only the phase is looked at, not whether the match is suspended. *)
RunningOrSuspended(p) == phase = p

Running(p) == lifecycle = "RUNNING" /\ phase = p

(* ABBA bans on turns -3 to 0; alternating picks from turn 1. *)
BanTeam(n) == IF n \in {-2, -1} THEN Opponent(FirstBan) ELSE FirstBan
PickTeam(n) == IF n % 2 = 1 THEN FirstPick ELSE Opponent(FirstPick)

InTBWindow(n) == n \in 11..14

(* Fault: a piece may be put on top of another. *)
LegalPlacementAnywhere(b, sl, s, c) ==
  sl[s] = "AVAILABLE" /\ Mod[s] # "TB" /\ ModFits(Mod[s], c)

LegalPlacement(b, sl, s, c) ==
  /\ sl[s] = "AVAILABLE"
  /\ Mod[s] # "TB"
  /\ Empty(b, c)
  /\ ModFits(Mod[s], c)

Stalemate(b, sl) == ~ \E s \in Slots, c \in Cells : LegalPlacement(b, sl, s, c)

ForcedTBRequirementsMet(b, n, robbed) ==
  /\ n >= 15
  /\ \A t \in Teams : ~HasFour(b, t)
  /\ \A t \in Teams : t \in robbed \/ ~CanRob(b, t)

(* Fault: the robbery at hand is not yet among the robberies looked at. *)
ShouldForceTBStale(b, n, robbed) == ForcedTBRequirementsMet(b, n, robberyUsed)

(* shouldForceTB: asked of a running match in the pick phase only. *)
ShouldForceTB(b, n, robbed) == ForcedTBRequirementsMet(b, n, robbed)

(* A request for the tiebreaker lapses when turn n lies beyond its window. *)
RequestAt(n) == IF n > 14 THEN NoTeam ELSE pendingTB

Decided(reason, winner, confirmers) ==
  [reason |-> reason, winner |-> winner, red |-> 0, blue |-> 0, confirmers |-> confirmers]

(* finishMatch: the match is decided; all that is open is cleared. *)
Finish(r) ==
  /\ lifecycle' = "FINISHED"
  /\ phase' = "NONE"
  /\ active' = NoTeam
  /\ pendingPiece' = NoCell
  /\ pendingTB' = NoTeam
  /\ timer' = NoTimer
  /\ result' = r
  /\ stalemate' = NoStalemate
  /\ suspension' = NoSuspension

(* Fault: the suspension does not note the timer it froze. *)
GoOnUnnoted(frozen, t) ==
  /\ lifecycle' = IF frozen THEN "SUSPENDED" ELSE "RUNNING"
  /\ timer' = IF frozen THEN Pause(t) ELSE t
  /\ suspension' = [held |-> frozen, hadTimer |-> FALSE, wasPaused |-> FALSE]

(***************************************************************************)
(* The match goes on with the given timer.  A skip of a suspended match    *)
(* leaves it frozen: suspended again, with the new timer paused.           *)
(***************************************************************************)
GoOn(frozen, t) ==
  /\ lifecycle' = IF frozen THEN "SUSPENDED" ELSE "RUNNING"
  /\ timer' = IF frozen THEN Pause(t) ELSE t
  /\ suspension' = [held |-> frozen, hadTimer |-> frozen, wasPaused |-> FALSE]

(* Fault: a captain's request outlives the forced tiebreaker. *)
StartForcedTBWithRequest(frozen, ago) ==
  /\ phase' = "TB_PREPARATION"
  /\ active' = NoTeam
  /\ UNCHANGED pendingTB
  /\ tbEntry' = "FORCED_AFTER_ROBBERY_CHECKS"
  /\ GoOn(frozen, Started(Window["TB_PREPARATION"], ago))

(* No request for the tiebreaker is left beside the forced one. *)
StartForcedTBPreparation(frozen, ago) ==
  /\ phase' = "TB_PREPARATION"
  /\ active' = NoTeam
  /\ pendingTB' = NoTeam
  /\ tbEntry' = "FORCED_AFTER_ROBBERY_CHECKS"
  /\ GoOn(frozen, Started(Window["TB_PREPARATION"], ago))

(***************************************************************************)
(* enterPickOrTerminal: turn n of the pick phase opens on board b with     *)
(* pool sl, unless the tiebreaker is forced or nothing can be placed any   *)
(* more.  The window of the turn was opened `ago` units before now.        *)
(***************************************************************************)
EnterPickOrTerminal(b, sl, n, frozen, ago) ==
  LET red == WonCount(b, "RED")
      blue == WonCount(b, "BLUE")
      forced == ShouldForceTB(b, n, robberyUsed)
      decided == [reason |-> "STALEMATE_WON_COUNT", red |-> red, blue |-> blue,
                  winner |-> IF blue > red THEN "BLUE" ELSE "RED", confirmers |-> {}]
  IN  /\ turn' = n
      /\ \/ /\ forced
            /\ StartForcedTBPreparation(frozen, ago)
            /\ pendingPiece' = NoCell
            /\ UNCHANGED <<result, stalemate>>
         \/ /\ ~forced
            /\ ~Stalemate(b, sl)
            /\ phase' = "PICK"
            /\ active' = PickTeam(n)
            /\ pendingPiece' = NoCell
            /\ pendingTB' = RequestAt(n)
            /\ GoOn(frozen, Started(Window["PICK"], ago))
            /\ UNCHANGED <<tbEntry, result, stalemate>>
         \/ /\ ~forced
            /\ Stalemate(b, sl)
            /\ red = blue
            /\ lifecycle' = "ADJUDICATION_REQUIRED"
            /\ phase' = "NONE"
            /\ active' = NoTeam
            /\ pendingPiece' = NoCell
            /\ pendingTB' = NoTeam
            /\ timer' = NoTimer
            /\ stalemate' = [red |-> red, blue |-> blue]
            /\ suspension' = NoSuspension
            /\ UNCHANGED <<tbEntry, result>>
         \/ /\ ~forced
            /\ Stalemate(b, sl)
            /\ red # blue
            /\ Finish(decided)
            /\ UNCHANGED tbEntry

(* Fault: the banning team is looked up before the turn advances. *)
AdvanceBanStale(sl, frozen, ago) ==
  \/ /\ turn >= 0
     /\ EnterPickOrTerminal(board, sl, 1, frozen, ago)
  \/ /\ turn < 0
     /\ turn' = turn + 1
     /\ active' = BanTeam(turn)
     /\ GoOn(frozen, Started(Window["BAN"], ago))
     /\ UNCHANGED <<phase, pendingPiece, pendingTB, tbEntry, result, stalemate>>

(* The next ban of the ABBA order, or the first pick after the last ban. *)
AdvanceBan(sl, frozen, ago) ==
  \/ /\ turn >= 0
     /\ EnterPickOrTerminal(board, sl, 1, frozen, ago)
  \/ /\ turn < 0
     /\ turn' = turn + 1
     /\ active' = BanTeam(turn + 1)
     /\ GoOn(frozen, Started(Window["BAN"], ago))
     /\ UNCHANGED <<phase, pendingPiece, pendingTB, tbEntry, result, stalemate>>

-----------------------------------------------------------------------------
(* Play *)

(* A strategist may act while the timer runs. *)
TimerAllowsStrategist == ~timer.paused /\ ~Expired(timer)

(***************************************************************************)
(* refereeProxyContext: a referee who acts for the active team may do so   *)
(* after expiry as well.  The command is then evaluated as of the start of *)
(* the expired window, ProxyAge units ago.                                 *)
(***************************************************************************)
TimerAllowsProxy == ~timer.paused /\ timer.duration > 0
ProxyAge == IF Expired(timer) THEN timer.elapsed ELSE 0

MayStart == lifecycle = "READY"

StartMatch ==
  /\ MayStart
  /\ lifecycle' = "RUNNING"
  /\ phase' = "BAN"
  /\ turn' = -3
  /\ active' = FirstBan
  /\ timer' = Started(Window["BAN"], 0)
  /\ UNCHANGED <<slots, board, robberyUsed, pauseUsed, pendingPiece, pendingTB, tbEntry,
                 result, stalemate, suspension>>

MayBan(s) == Running("BAN") /\ slots[s] = "AVAILABLE" /\ Mod[s] \notin {"SHIRO", "TB"}

BanPoolSlot(s, ago) ==
  /\ MayBan(s)
  /\ slots' = [slots EXCEPT ![s] = "BANNED"]
  /\ AdvanceBan([slots EXCEPT ![s] = "BANNED"], FALSE, ago)
  /\ UNCHANGED <<board, robberyUsed, pauseUsed>>

MayPlace(s, c) == Running("PICK") /\ LegalPlacement(board, slots, s, c) /\ Mod[s] # "SHIRO"

PlacePiece(s, c, ago) ==
  /\ MayPlace(s, c)
  /\ board' = Place(board, c, s, "WAITING_RESULT")
  /\ slots' = [slots EXCEPT ![s] = "SELECTED"]
  /\ phase' = "WAITING_FOR_RESULT"
  /\ pendingPiece' = c
  /\ timer' = Started(Window["RESULT"], ago)
  /\ UNCHANGED <<lifecycle, turn, active, robberyUsed, pauseUsed, pendingTB, tbEntry, result,
                 stalemate, suspension>>

ShiroLeft == {s \in Slots : Mod[s] = "SHIRO" /\ slots[s] = "AVAILABLE"}

MayPlaceShiro(c) == Running("PICK") /\ turn < MaxTurn /\ Empty(board, c) /\ ShiroLeft # {}

PlaceShiro(c, ago) ==
  /\ MayPlaceShiro(c)
  /\ \E s \in ShiroLeft :
       LET b == Place(board, c, s, "WHITE")
           sl == [slots EXCEPT ![s] = "SELECTED"]
       IN  /\ board' = b
           /\ slots' = sl
           /\ EnterPickOrTerminal(b, sl, turn + 1, FALSE, ago)
  /\ UNCHANGED <<robberyUsed, pauseUsed>>

(* The plan is one the rules name, and it is evaluated again before it is executed. *)
MayRob(c, plan) ==
  /\ Running("PICK")
  /\ plan \in Sacrifices(board, active, c)
  /\ RobberyHolds(board, active, c, UNION plan)

(***************************************************************************)
(* The active team robs piece c with the lines of the plan.  The turn and  *)
(* its timer stay, so the team may rob again before it places.             *)
(***************************************************************************)
RobPiece(c, plan, ago) ==
  LET dead == UNION plan
      b == AfterRobbery(board, active, c, dead)
      robbed == robberyUsed \cup {active}
  IN  /\ MayRob(c, plan)
      /\ board' = b
      /\ robberyUsed' = robbed
      /\ \/ /\ HasFour(b, active)
            /\ Finish(Decided("FOUR_ALIGNMENT", active, {}))
            /\ UNCHANGED tbEntry
         \/ /\ ~HasFour(b, active)
            /\ ShouldForceTB(b, turn, robbed)
            /\ StartForcedTBPreparation(FALSE, ago)
            /\ UNCHANGED <<pendingPiece, result, stalemate>>
         \/ /\ ~HasFour(b, active)
            /\ ~ShouldForceTB(b, turn, robbed)
            /\ UNCHANGED <<lifecycle, phase, active, timer, pendingPiece, pendingTB, tbEntry,
                           result, stalemate, suspension>>
      /\ UNCHANGED <<turn, slots, pauseUsed>>

(* A piece on the board waits for its result. *)
MayConfirm == Running("WAITING_FOR_RESULT") /\ turn < MaxTurn /\ pendingPiece # NoCell

(* Fault: only the picking team's lines are looked at, not the winner's. *)
ConfirmForActive(winner) ==
  LET b == SetOwner(board, pendingPiece, winner) IN
  /\ MayConfirm
  /\ board' = b
  /\ \/ /\ HasFour(b, active)
        /\ Finish(Decided("FOUR_ALIGNMENT", winner, {}))
        /\ UNCHANGED <<turn, tbEntry>>
     \/ /\ ~HasFour(b, active)
        /\ EnterPickOrTerminal(b, slots, turn + 1, FALSE, 0)
  /\ UNCHANGED <<slots, robberyUsed, pauseUsed>>

ConfirmBeatmapResult(winner) ==
  LET b == SetOwner(board, pendingPiece, winner) IN
  /\ MayConfirm
  /\ board' = b
  /\ \/ /\ HasFour(b, winner)
        /\ Finish(Decided("FOUR_ALIGNMENT", winner, {}))
        /\ UNCHANGED <<turn, tbEntry>>
     \/ /\ ~HasFour(b, winner)
        /\ EnterPickOrTerminal(b, slots, turn + 1, FALSE, 0)
  /\ UNCHANGED <<slots, robberyUsed, pauseUsed>>

-----------------------------------------------------------------------------
(* Tiebreaker by agreement of the captains *)

CaptainsMayAct == Running("PICK") /\ ~timer.paused /\ InTBWindow(turn)

MayRequestTB == CaptainsMayAct /\ pendingTB = NoTeam

RequestTB(t) ==
  /\ MayRequestTB
  /\ pendingTB' = t
  /\ UNCHANGED <<lifecycle, phase, turn, active, slots, board, timer, robberyUsed, pauseUsed,
                 pendingPiece, tbEntry, result, stalemate, suspension>>

MayRespond(t) == CaptainsMayAct /\ pendingTB # NoTeam /\ t # pendingTB

RespondTBRequest(t, accept) ==
  /\ MayRespond(t)
  /\ pendingTB' = NoTeam
  /\ \/ /\ ~accept
        /\ UNCHANGED <<phase, active, tbEntry, timer>>
     \/ /\ accept
        /\ phase' = "TB_PREPARATION"
        /\ active' = NoTeam
        /\ tbEntry' = "CAPTAIN_AGREEMENT"
        /\ timer' = Started(Window["TB_PREPARATION"], 0)
  /\ UNCHANGED <<lifecycle, turn, slots, board, robberyUsed, pauseUsed, pendingPiece, result,
                 stalemate, suspension>>

MayStartTB == Running("TB_PREPARATION") /\ ~timer.paused

StartTB ==
  /\ MayStartTB
  /\ phase' = "TB_PLAYING"
  /\ timer' = NoTimer
  /\ UNCHANGED <<lifecycle, turn, active, slots, board, robberyUsed, pauseUsed, pendingPiece,
                 pendingTB, tbEntry, result, stalemate, suspension>>

MayConfirmTB == Running("TB_PLAYING")

ConfirmTBResult(winner) ==
  /\ MayConfirmTB
  /\ Finish(Decided("TB", winner, {}))
  /\ UNCHANGED <<turn, slots, board, robberyUsed, pauseUsed, tbEntry>>

-----------------------------------------------------------------------------
(* The referee's administration *)

AdditionalWindow ==
  Window[CASE phase = "BAN" -> "BAN_ADDITIONAL"
           [] phase = "WAITING_FOR_RESULT" -> "RESULT_ADDITIONAL"
           [] OTHER -> "PICK_ADDITIONAL"]

MayGrant ==
  /\ lifecycle = "RUNNING"
  /\ phase \in {"BAN", "PICK", "WAITING_FOR_RESULT"}
  /\ active \in Teams \ pauseUsed
  /\ Expired(timer)

GrantAdditionalTime ==
  /\ MayGrant
  /\ pauseUsed' = pauseUsed \cup {active}
  /\ timer' = Started(AdditionalWindow, 0)
  /\ UNCHANGED <<lifecycle, phase, turn, active, slots, board, robberyUsed, pendingPiece,
                 pendingTB, tbEntry, result, stalemate, suspension>>

MayCalibrate == lifecycle = "RUNNING" /\ phase # "NONE" /\ HasTimer(timer)

CalibrateTimer(remaining) ==
  /\ MayCalibrate
  /\ timer' = IF timer.paused THEN [timer EXCEPT !.left = remaining] ELSE Started(remaining, 0)
  /\ UNCHANGED matchVars

MayPause == lifecycle = "RUNNING" /\ phase # "NONE" /\ timer.duration > 0 /\ ~timer.paused

PauseTimer ==
  /\ MayPause
  /\ timer' = Pause(timer)
  /\ UNCHANGED matchVars

MayResumeTimer == lifecycle = "RUNNING" /\ phase # "NONE" /\ timer.paused

ResumeTimer ==
  /\ MayResumeTimer
  /\ timer' = Resume(timer)
  /\ UNCHANGED matchVars

MaySuspend == lifecycle = "RUNNING"

SuspendMatch ==
  /\ MaySuspend
  /\ lifecycle' = "SUSPENDED"
  /\ suspension' = [held |-> TRUE, hadTimer |-> HasTimer(timer), wasPaused |-> timer.paused]
  /\ timer' = IF HasTimer(timer) /\ ~timer.paused THEN Pause(timer) ELSE timer
  /\ UNCHANGED <<phase, turn, active, slots, board, robberyUsed, pauseUsed, pendingPiece,
                 pendingTB, tbEntry, result, stalemate>>

MayResume == lifecycle = "SUSPENDED" /\ suspension.held

ResumeMatch ==
  /\ MayResume
  /\ lifecycle' = "RUNNING"
  /\ suspension' = NoSuspension
  /\ timer' = IF suspension.hadTimer /\ ~suspension.wasPaused THEN Resume(timer) ELSE timer
  /\ UNCHANGED <<phase, turn, active, slots, board, robberyUsed, pauseUsed, pendingPiece,
                 pendingTB, tbEntry, result, stalemate>>

(* Fault: a skip passes over a piece that waits for its result. *)
SkipWithPiece ==
  LET frozen == lifecycle = "SUSPENDED" IN
  /\ lifecycle \in {"RUNNING", "SUSPENDED"}
  /\ frozen \/ Expired(timer)
  /\ turn < MaxTurn
  /\ \/ phase = "BAN" /\ AdvanceBan(slots, frozen, 0)
     \/ /\ phase \in {"PICK", "WAITING_FOR_RESULT"}
        /\ EnterPickOrTerminal(board, slots, turn + 1, frozen, 0)
  /\ UNCHANGED <<slots, board, robberyUsed, pauseUsed>>

(* Only an expired action of a running match may be skipped. *)
MaySkip ==
  /\ \/ lifecycle = "RUNNING" /\ Expired(timer)
     \/ lifecycle = "SUSPENDED"
  /\ phase \in {"BAN", "PICK"}
  /\ turn < MaxTurn

(* The ban or the pick at hand is passed over, in a suspended match without unfreezing it. *)
SkipCurrentAction ==
  LET frozen == lifecycle = "SUSPENDED" IN
  /\ MaySkip
  /\ \/ phase = "BAN" /\ AdvanceBan(slots, frozen, 0)
     \/ phase = "PICK" /\ EnterPickOrTerminal(board, slots, turn + 1, frozen, 0)
  /\ UNCHANGED <<slots, board, robberyUsed, pauseUsed>>

MayAbort == lifecycle \in {"RUNNING", "SUSPENDED"}

AbortMatch ==
  /\ MayAbort
  /\ lifecycle' = "ABORTED"
  /\ phase' = "NONE"
  /\ active' = NoTeam
  /\ pendingPiece' = NoCell
  /\ pendingTB' = NoTeam
  /\ suspension' = NoSuspension
  /\ timer' = NoTimer
  /\ UNCHANGED <<turn, slots, board, robberyUsed, pauseUsed, tbEntry, result, stalemate>>

(* Fault: three members are enough. *)
SurrenderEvidenceOfThree(t, ids) ==
  ids \subseteq Members(t) /\ Cardinality(ids) >= 3 /\ Roster[t].leader \in ids

(* Surrender takes four different members of the roster, its leader among them. *)
SurrenderEvidence(t, ids) ==
  /\ ids \subseteq Members(t)
  /\ Cardinality(ids) >= 4
  /\ Roster[t].leader \in ids

MaySurrender(t, ids) == lifecycle \in {"RUNNING", "SUSPENDED"} /\ SurrenderEvidence(t, ids)

RecordSurrender(t, ids) ==
  /\ MaySurrender(t, ids)
  /\ Finish(Decided("SURRENDER", Opponent(t), ids))
  /\ UNCHANGED <<turn, slots, board, robberyUsed, pauseUsed, tbEntry>>

(* A unit of time passes for the timer that runs. *)
Tick ==
  /\ timer.duration > 0
  /\ ~timer.paused
  /\ timer.elapsed < MaxElapsed
  /\ timer' = [timer EXCEPT !.elapsed = @ + 1]
  /\ UNCHANGED matchVars

-----------------------------------------------------------------------------
Init ==
  /\ lifecycle = "READY"
  /\ phase = "NONE"
  /\ turn = 0
  /\ active = NoTeam
  /\ slots = [s \in Slots |-> "AVAILABLE"]
  /\ board = NewBoard
  /\ timer = NoTimer
  /\ robberyUsed = {}
  /\ pauseUsed = {}
  /\ pendingPiece = NoCell
  /\ pendingTB = NoTeam
  /\ tbEntry = "NONE"
  /\ result = NoResult
  /\ stalemate = NoStalemate
  /\ suspension = NoSuspension

StrategistPlays ==
  /\ TimerAllowsStrategist
  /\ \/ \E s \in Slots : "BAN_POOL_SLOT" \in Issued /\ BanPoolSlot(s, 0)
     \/ \E s \in Slots, c \in PlayCells : "PLACE_PIECE" \in Issued /\ PlacePiece(s, c, 0)
     \/ \E c \in PlayCells : "PLACE_SHIRO" \in Issued /\ PlaceShiro(c, 0)
     \/ \E c \in Cells : \E plan \in Sacrifices(board, active, c) :
          "ROB_PIECE" \in Issued /\ RobPiece(c, plan, 0)

RefereeProxies ==
  /\ TimerAllowsProxy
  /\ \/ \E s \in Slots : "REFEREE_BAN_POOL_SLOT" \in Issued /\ BanPoolSlot(s, ProxyAge)
     \/ \E s \in Slots, c \in PlayCells :
          "REFEREE_PLACE_PIECE" \in Issued /\ PlacePiece(s, c, ProxyAge)
     \/ \E c \in PlayCells : "REFEREE_PLACE_SHIRO" \in Issued /\ PlaceShiro(c, ProxyAge)
     \/ \E c \in Cells : \E plan \in Sacrifices(board, active, c) :
          "REFEREE_ROB_PIECE" \in Issued /\ RobPiece(c, plan, ProxyAge)

Confirms ==
  \E t \in Teams :
    \/ "CONFIRM_BEATMAP_RESULT" \in Issued /\ ConfirmBeatmapResult(t)
    \/ "CONFIRM_TB_RESULT" \in Issued /\ ConfirmTBResult(t)

AgreesOnTB ==
  \/ \E t \in Teams : "REQUEST_TB" \in Issued /\ RequestTB(t)
  \/ \E t \in Teams, accept \in BOOLEAN :
       "RESPOND_TB_REQUEST" \in Issued /\ RespondTBRequest(t, accept)
  \/ "START_TB" \in Issued /\ StartTB

Administers ==
  \/ "START_MATCH" \in Issued /\ StartMatch
  \/ "GRANT_ADDITIONAL_TIME" \in Issued /\ GrantAdditionalTime
  \/ \E r \in CalibrateTo : "CALIBRATE_TIMER" \in Issued /\ CalibrateTimer(r)
  \/ "PAUSE_TIMER" \in Issued /\ PauseTimer
  \/ "RESUME_TIMER" \in Issued /\ ResumeTimer
  \/ "SUSPEND_MATCH" \in Issued /\ SuspendMatch
  \/ "RESUME_MATCH" \in Issued /\ ResumeMatch
  \/ "SKIP_CURRENT_ACTION" \in Issued /\ SkipCurrentAction
  \/ "ABORT_MATCH" \in Issued /\ AbortMatch
  \/ \E t \in Teams : \E ids \in SUBSET Members(t) :
       "RECORD_SURRENDER" \in Issued /\ RecordSurrender(t, ids)

Executes == StrategistPlays \/ RefereeProxies \/ Confirms \/ AgreesOnTB \/ Administers

Next == Executes \/ Tick

Spec == Init /\ [][Next]_vars

-----------------------------------------------------------------------------
(* Properties *)

Timers == [duration : Nat, elapsed : Nat, paused : BOOLEAN, left : Nat]

Results == [reason : Reasons, winner : Teams \cup {NoTeam}, red : Nat, blue : Nat,
            confirmers : SUBSET (Members("RED") \cup Members("BLUE"))]

MaterialTypeOK ==
  /\ slots \in [Slots -> SlotStates]
  /\ board \in [Cells -> Pieces]
  /\ robberyUsed \subseteq Teams
  /\ pauseUsed \subseteq Teams

ControlTypeOK ==
  /\ lifecycle \in Lifecycles
  /\ phase \in Phases
  /\ turn \in Int
  /\ active \in Teams \cup {NoTeam}
  /\ timer \in Timers
  /\ pendingPiece \in Cells \cup {NoCell}
  /\ pendingTB \in Teams \cup {NoTeam}
  /\ tbEntry \in Bases
  /\ result \in Results
  /\ stalemate \in [red : Nat \cup {-1}, blue : Nat \cup {-1}]
  /\ suspension \in [held : BOOLEAN, hadTimer : BOOLEAN, wasPaused : BOOLEAN]

(* Types of the aggregate; Timer.Remaining never goes below zero, so neither *)
(* does a timer frozen by pause.                                             *)
TypeOK == MaterialTypeOK /\ ControlTypeOK

Ongoing == lifecycle \in {"RUNNING", "SUSPENDED"}

(* Whatever mix of bans, skips, robberies, suspensions and proxied commands  *)
(* led here, the team to act is the one the ABBA ban order or the ABAB pick  *)
(* order names for the turn, and phase and turn agree.                       *)
TurnOrder ==
  /\ Ongoing <=> phase # "NONE"
  /\ phase = "BAN" => turn \in -3..0 /\ active = BanTeam(turn)
  /\ phase \in {"PICK", "WAITING_FOR_RESULT"} => turn >= 1 /\ active = PickTeam(turn)
  /\ phase \notin {"BAN", "PICK", "WAITING_FOR_RESULT"} => active = NoTeam
  /\ phase \in {"TB_PREPARATION", "TB_PLAYING"} => turn >= 1

(* Pool and board, which every command updates separately, tell the same     *)
(* story: a slot is SELECTED exactly when one piece on the board came from   *)
(* it, that piece stands in a zone its mod fits, has an owner exactly when   *)
(* it was won at some time, and only the Shiro piece is ever white.          *)
BoardMatchesPool ==
  /\ \A s \in Slots : slots[s] = "SELECTED" <=> \E c \in Cells : board[c].slot = s
  /\ \A c, d \in Cells : board[c].slot = board[d].slot /\ board[c].slot # NoSlot => c = d
  /\ \A s \in Slots : Mod[s] = "TB" => slots[s] = "AVAILABLE"
  /\ \A s \in Slots : Mod[s] = "SHIRO" => slots[s] # "BANNED"
  /\ \A c \in Cells :
       /\ Empty(board, c) <=> board[c].slot = NoSlot
       /\ ~Empty(board, c) => ModFits(Mod[board[c].slot], c)
       /\ board[c].outcome \in {"WON", "DEAD"} <=> board[c].owner \in Teams
       /\ board[c].outcome = "WHITE" => Mod[board[c].slot] = "SHIRO"

(* While the match goes on, the pieces that wait for a result are the one    *)
(* pending piece of the waiting phase and none in any other phase: a piece   *)
(* left behind would never get an owner.                                     *)
OneResultAwaited ==
  /\ Ongoing => {c \in Cells : board[c].outcome = "WAITING_RESULT"}
                  = IF phase = "WAITING_FOR_RESULT" THEN {pendingPiece} ELSE {}
  /\ pendingPiece # NoCell <=> phase = "WAITING_FOR_RESULT"

(* No command leaves a team with four in line in a match that goes on: a     *)
(* result and a robbery are the steps that can complete a line, and each     *)
(* looks only at the lines of the team that gains the piece.                 *)
NoStandingFour == Ongoing => \A t \in Teams : ~HasFour(board, t)

(* From turn 15 on no pick is open once the robbery checks are satisfied:    *)
(* the condition may become true by a turn's start, by a robbery within the  *)
(* turn, or by the opponent losing its last robbery plan to one.             *)
ForcedTBNotMissed ==
  Ongoing /\ phase = "PICK" => ~ForcedTBRequirementsMet(board, turn, robberyUsed)

(* An open pick can be played: some available slot fits some empty cell, so  *)
(* a strategist never faces a turn with nothing to place.                    *)
PickIsPlayable ==
  Ongoing /\ phase = "PICK" =>
    \E s \in Slots, c \in Cells :
      slots[s] = "AVAILABLE" /\ Mod[s] # "TB" /\ Empty(board, c) /\ ModFits(Mod[s], c)

(* A pending request is one the other captain may still answer: within turns *)
(* 11 to 14, before any tiebreaker entry, in a match that goes on.           *)
RequestIsCurrent ==
  pendingTB # NoTeam =>
    /\ Ongoing /\ phase \in {"PICK", "WAITING_FOR_RESULT"}
    /\ turn \in 11..14
    /\ tbEntry = "NONE"

(* The pieces team t has won that are still alive, from the pieces alone. *)
Alive(t) == {c \in Cells : board[c].outcome = "WON" /\ board[c].owner = t}

Blocked ==
  \A s \in Slots, c \in Cells :
    slots[s] = "AVAILABLE" /\ Mod[s] # "TB" /\ Empty(board, c) => ~ModFits(Mod[s], c)

VerdictRecorded ==
  /\ lifecycle = "FINISHED" <=> result.reason # "NONE"
  /\ lifecycle = "ADJUDICATION_REQUIRED" <=> stalemate # NoStalemate
  /\ result.reason # "NONE" => result.winner \in Teams

ResultSupported ==
  /\ result.reason = "FOUR_ALIGNMENT" =>
       /\ tbEntry = "NONE"
       /\ \E L \in Lines[4] : L \subseteq Alive(result.winner)
  /\ result.reason = "TB" => tbEntry # "NONE"
  /\ result.reason = "SURRENDER" =>
       /\ result.confirmers \subseteq Members(Opponent(result.winner))
       /\ Roster[Opponent(result.winner)].leader \in result.confirmers
       /\ Cardinality(result.confirmers) >= 4
  /\ result.reason = "STALEMATE_WON_COUNT" =>
       /\ tbEntry = "NONE" /\ Blocked
       /\ result.red = Cardinality(Alive("RED")) /\ result.blue = Cardinality(Alive("BLUE"))
       /\ result.winner = "RED" => result.red > result.blue
       /\ result.winner = "BLUE" => result.blue > result.red

StalemateSupported ==
  stalemate # NoStalemate =>
    /\ tbEntry = "NONE" /\ Blocked
    /\ stalemate.red = Cardinality(Alive("RED")) /\ stalemate.blue = Cardinality(Alive("BLUE"))
    /\ stalemate.red = stalemate.blue

EntrySupported ==
  /\ phase \in {"TB_PREPARATION", "TB_PLAYING"} => tbEntry # "NONE"
  /\ tbEntry # "NONE" =>
       phase \notin {"BAN", "PICK", "WAITING_FOR_RESULT"} /\ lifecycle # "READY"
  /\ tbEntry = "CAPTAIN_AGREEMENT" => turn \in 11..14
  /\ tbEntry = "FORCED_AFTER_ROBBERY_CHECKS" =>
       ForcedTBRequirementsMet(board, turn, robberyUsed)

(* A decided match can be justified from what was recorded: four living      *)
(* pieces in line, a tiebreaker that was entered, four rostered players who  *)
(* gave up with their leader, or a blocked board with the counts it shows.   *)
(* And the tiebreaker is played only where it was agreed on or forced.       *)
EvidenceSupportsOutcome ==
  VerdictRecorded /\ ResultSupported /\ StalemateSupported /\ EntrySupported

(* A piece never moves or leaves the board, a dead piece stays dead, and a   *)
(* won piece changes hands only while the robber is the active team.         *)
PieceHistory ==
  [][\A c \in Cells :
       board'[c] # board[c] =>
         /\ board[c].outcome # "DEAD"
         /\ ~Empty(board, c) => board'[c].slot = board[c].slot
         /\ board[c].outcome = "WON" =>
              \/ board'[c].outcome = "DEAD" /\ board'[c].owner = active /\ board[c].owner = active
              \/ board'[c].outcome = "WON" /\ board'[c].owner = active /\ board[c].owner # active
    ]_vars

(* Robbing pays with more than it gains, so the robberies a team can make in *)
(* one turn, which have no count limit, come to an end.                      *)
RobberyCostsMaterial ==
  [][turn' = turn /\ phase = "PICK" /\ board' # board /\ pendingPiece' = NoCell =>
       \A t \in Teams : active = t => Cardinality(Alive(t)') < Cardinality(Alive(t))]_vars

(* A suspended match is frozen: its board, pool and entitlements stay, its   *)
(* clock does not run, and what was open when it resumes is what was open.   *)
SuspendedIsFrozen ==
  [][lifecycle = "SUSPENDED" =>
       /\ UNCHANGED <<board, slots, robberyUsed, pauseUsed>>
       /\ lifecycle' = "RUNNING" =>
            /\ UNCHANGED <<phase, turn, active, pendingPiece, pendingTB, tbEntry>>
            /\ Remaining(timer') = Remaining(timer)
       /\ lifecycle' = "SUSPENDED" /\ turn' = turn => UNCHANGED vars]_vars

(* Within an action's window time only runs out: pausing, resuming,          *)
(* suspending and proxying never give any back.  More of it comes from the   *)
(* team's one additional window or from a calibration by the referee.        *)
TimeComesFromReferee ==
  [][Ongoing /\ phase' = phase /\ turn' = turn /\ Remaining(timer') > Remaining(timer) =>
       \/ \E t \in Teams : t \notin pauseUsed /\ pauseUsed' = pauseUsed \cup {t}
       \/ \E r \in CalibrateTo : CalibrateTimer(r)]_vars
=============================================================================
