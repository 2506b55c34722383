------------------------- MODULE MatchEngineProofs --------------------------
(***************************************************************************)
(* Proofs about MatchEngine for every pool, roster, window length and      *)
(* bound: its types, and the safety invariants the runs check.             *)
(***************************************************************************)
EXTENDS MatchEngine, FiniteSetTheorems, TLAPS

-----------------------------------------------------------------------------
(* The board and the timers *)

(* The won pieces of a team can be counted, whatever is on the board. *)
LEMMA WonFinite ==
  ASSUME NEW b, NEW t
  PROVE  IsFiniteSet(Won(b, t)) /\ WonCount(b, t) \in Nat
<1>0. \A m, n \in Int : IsFiniteSet(m..n)
  BY FS_Interval
<1>1. IsFiniteSet(0..3)
  <2>1. 0 \in Int /\ 3 \in Int
    OBVIOUS
  <2>2. QED
    BY <1>0, <2>1, Zenon
<1>2. IsFiniteSet(Cells)
  BY <1>1, FS_Product DEF Cells
<1>3. Won(b, t) \subseteq Cells
  BY DEF Won
<1>4. IsFiniteSet(Won(b, t))
  BY <1>2, <1>3, FS_Subset
<1>5. QED
  BY <1>4, FS_CardinalityType DEF WonCount

(* A new window, a paused and a resumed timer are timers again. *)
LEMMA TimerTypes ==
  /\ NoTimer \in Timers
  /\ \A d, ago \in Nat : Started(d, ago) \in Timers
  /\ \A t \in Timers : Remaining(t) \in Nat /\ Pause(t) \in Timers /\ Resume(t) \in Timers
<1>1. NoTimer \in Timers
  BY DEF Timers, NoTimer
<1>3. \A d, ago \in Nat : Started(d, ago) \in Timers
  BY DEF Timers, Started
<1>4. ASSUME NEW t \in Timers
      PROVE  Remaining(t) \in Nat /\ Pause(t) \in Timers /\ Resume(t) \in Timers
  <2>1. Remaining(t) \in Nat
    <3>1. t.duration \in Nat /\ t.elapsed \in Nat /\ t.left \in Nat
      BY DEF Timers
    <3>2. CASE t.paused
      BY <3>1, <3>2 DEF Remaining
    <3>3. CASE ~t.paused
      BY <3>1, <3>3 DEF Remaining
    <3>4. QED
      BY <3>2, <3>3
  <2>2. Pause(t) \in Timers
    BY <2>1 DEF Pause, Timers
  <2>3. QED
    BY <1>3, <2>1, <2>2 DEF Resume, Timers
<1>5. QED
  BY <1>1, <1>3, <1>4

(* The board changes by pieces put down, won, robbed or sacrificed only. *)
LEMMA BoardTypes ==
  ASSUME NEW b \in [Cells -> Pieces]
  PROVE  /\ \A c \in Cells, s \in Slots, o \in Outcomes : Place(b, c, s, o) \in [Cells -> Pieces]
         /\ \A c : \A t \in Teams : SetOwner(b, c, t) \in [Cells -> Pieces]
         /\ \A c, dead : \A t \in Teams : AfterRobbery(b, t, c, dead) \in [Cells -> Pieces]
<1>1. ASSUME NEW c \in Cells, NEW s \in Slots, NEW o \in Outcomes
      PROVE  Place(b, c, s, o) \in [Cells -> Pieces]
  BY DEF Place, Pieces, Teams, NoTeam, Outcomes
<1>2. ASSUME NEW c, NEW t \in Teams
      PROVE  SetOwner(b, c, t) \in [Cells -> Pieces]
  <2>1. CASE c \in Cells
    BY <2>1 DEF SetOwner, Pieces, Outcomes
  <2>2. CASE c \notin Cells
    <3>1. SetOwner(b, c, t) = b
      BY <2>2 DEF SetOwner
    <3>2. QED
      BY <3>1
  <2>3. QED
    BY <2>1, <2>2
<1>3. ASSUME NEW c, NEW dead, NEW t \in Teams
      PROVE  AfterRobbery(b, t, c, dead) \in [Cells -> Pieces]
  BY DEF AfterRobbery, Pieces, Outcomes
<1>4. QED
  BY <1>1, <1>2, <1>3

-----------------------------------------------------------------------------
(* Types and the order of turns *)

TInv == TypeOK /\ TurnOrder

(* Only a team can be named by the orders of bans and picks. *)
LEMMA OrderedTeams ==
  /\ \A t : Opponent(t) \in Teams
  /\ \A n : BanTeam(n) \in Teams /\ PickTeam(n) \in Teams
  BY ConfigurationAssumption DEF Opponent, BanTeam, PickTeam, Teams

(* Every window of the configuration is a positive number. *)
LEMMA WindowTypes ==
  ASSUME NEW w \in Windows, NEW ago \in Nat
  PROVE  Window[w] \in Nat /\ Started(Window[w], ago) \in Timers
<1>1. Window[w] \in Nat
  BY ConfigurationAssumption
<1>2. QED
  BY <1>1, TimerTypes

(* A result decided without counts is well-formed. *)
LEMMA DecidedTypes ==
  ASSUME NEW reason \in Reasons, NEW winner \in Teams,
         NEW ids \in SUBSET (Members("RED") \cup Members("BLUE"))
  PROVE  Decided(reason, winner, ids) \in Results
  BY DEF Decided, Results

(* Ending the match keeps the types. *)
LEMMA FinishTypes ==
  ASSUME ControlTypeOK, NEW r \in Results, Finish(r), turn' \in Int, tbEntry' \in Bases
  PROVE  ControlTypeOK' /\ TurnOrder'
<1>1. ControlTypeOK'
  BY TimerTypes DEF ControlTypeOK, Finish, Lifecycles, Phases, NoTeam, NoCell, NoStalemate,
                    NoSuspension
<1>2. TurnOrder'
  BY DEF Finish, TurnOrder, Ongoing, NoTeam
<1>3. QED
  BY <1>1, <1>2

(* Passing the turn keeps the types. *)
LEMMA GoOnTypes ==
  ASSUME NEW frozen \in BOOLEAN, NEW t \in Timers, GoOn(frozen, t)
  PROVE  /\ lifecycle' \in {"RUNNING", "SUSPENDED"}
         /\ timer' \in Timers
         /\ suspension' \in [held : BOOLEAN, hadTimer : BOOLEAN, wasPaused : BOOLEAN]
<1>1. Pause(t) \in Timers
  BY TimerTypes
<1>2. QED
  BY <1>1 DEF GoOn

(* Entering the forced tiebreaker keeps the types. *)
LEMMA ForcedTBTypes ==
  ASSUME ControlTypeOK, NEW frozen \in BOOLEAN, NEW ago \in Nat,
         StartForcedTBPreparation(frozen, ago),
         turn' \in Int, turn' >= 1,
         UNCHANGED <<pendingPiece, result, stalemate>> \/
           (pendingPiece' = NoCell /\ UNCHANGED <<result, stalemate>>)
  PROVE  ControlTypeOK' /\ TurnOrder'
<1>1. Started(Window["TB_PREPARATION"], ago) \in Timers
  BY WindowTypes DEF Windows
<1>2. /\ lifecycle' \in {"RUNNING", "SUSPENDED"}
      /\ timer' \in Timers
      /\ suspension' \in [held : BOOLEAN, hadTimer : BOOLEAN, wasPaused : BOOLEAN]
  BY <1>1, GoOnTypes DEF StartForcedTBPreparation
<1>3. ControlTypeOK'
  BY <1>2 DEF ControlTypeOK, StartForcedTBPreparation, Lifecycles, Phases, Bases
<1>4. TurnOrder'
  BY <1>2 DEF TurnOrder, Ongoing, StartForcedTBPreparation
<1>5. QED
  BY <1>3, <1>4

(* Opening a pick, or the forced tiebreaker instead, keeps the types. *)
LEMMA EnterPickTypes ==
  ASSUME ControlTypeOK, NEW b, NEW sl, NEW n \in Int, n >= 1,
         NEW frozen \in BOOLEAN, NEW ago \in Nat,
         EnterPickOrTerminal(b, sl, n, frozen, ago)
  PROVE  ControlTypeOK' /\ TurnOrder'
<1> DEFINE red == WonCount(b, "RED")
           blue == WonCount(b, "BLUE")
<1>1. turn' = n /\ red \in Nat /\ blue \in Nat
  BY WonFinite DEF EnterPickOrTerminal
<1>2. CASE /\ StartForcedTBPreparation(frozen, ago)
           /\ pendingPiece' = NoCell
           /\ UNCHANGED <<result, stalemate>>
  BY <1>1, <1>2, ForcedTBTypes
<1>3. CASE /\ phase' = "PICK"
           /\ active' = PickTeam(n)
           /\ pendingPiece' = NoCell
           /\ pendingTB' = RequestAt(n)
           /\ GoOn(frozen, Started(Window["PICK"], ago))
           /\ UNCHANGED <<tbEntry, result, stalemate>>
  <2>1. Started(Window["PICK"], ago) \in Timers
    BY WindowTypes DEF Windows
  <2>2. /\ lifecycle' \in {"RUNNING", "SUSPENDED"}
        /\ timer' \in Timers
        /\ suspension' \in [held : BOOLEAN, hadTimer : BOOLEAN, wasPaused : BOOLEAN]
    BY <1>3, <2>1, GoOnTypes
  <2>3. ControlTypeOK'
    BY <1>1, <1>3, <2>2, OrderedTeams DEF ControlTypeOK, Lifecycles, Phases, RequestAt
  <2>4. TurnOrder'
    BY <1>1, <1>3, <2>2 DEF TurnOrder, Ongoing
  <2>5. QED
    BY <2>3, <2>4
<1>4. CASE /\ lifecycle' = "ADJUDICATION_REQUIRED"
           /\ phase' = "NONE"
           /\ active' = NoTeam
           /\ pendingPiece' = NoCell
           /\ pendingTB' = NoTeam
           /\ timer' = NoTimer
           /\ stalemate' = [red |-> red, blue |-> blue]
           /\ suspension' = NoSuspension
           /\ UNCHANGED <<tbEntry, result>>
  <2>1. ControlTypeOK'
    BY <1>1, <1>4, TimerTypes DEF ControlTypeOK, Lifecycles, Phases, NoSuspension
  <2>2. TurnOrder'
    BY <1>4 DEF TurnOrder, Ongoing
  <2>3. QED
    BY <2>1, <2>2
<1>5. CASE /\ Finish([reason |-> "STALEMATE_WON_COUNT", red |-> red, blue |-> blue,
                      winner |-> IF blue > red THEN "BLUE" ELSE "RED", confirmers |-> {}])
           /\ UNCHANGED tbEntry
  <2>1. [reason |-> "STALEMATE_WON_COUNT", red |-> red, blue |-> blue,
         winner |-> IF blue > red THEN "BLUE" ELSE "RED", confirmers |-> {}] \in Results
    BY <1>1 DEF Results, Reasons, Teams
  <2>2. tbEntry' \in Bases
    BY <1>5 DEF ControlTypeOK
  <2>3. QED
    BY <1>1, <1>5, <2>1, <2>2, FinishTypes
<1>6. QED
  BY <1>2, <1>3, <1>4, <1>5 DEF EnterPickOrTerminal

(* Advancing the bans keeps the types. *)
LEMMA AdvanceBanTypes ==
  ASSUME TInv, phase = "BAN", NEW sl, NEW frozen \in BOOLEAN, NEW ago \in Nat,
         AdvanceBan(sl, frozen, ago)
  PROVE  ControlTypeOK' /\ TurnOrder'
<1>1. ControlTypeOK /\ turn \in -3..0
  BY DEF TInv, TypeOK, TurnOrder
<1>2. CASE EnterPickOrTerminal(board, sl, 1, frozen, ago)
  BY <1>1, <1>2, EnterPickTypes
<1>3. CASE /\ turn < 0
           /\ turn' = turn + 1
           /\ active' = BanTeam(turn + 1)
           /\ GoOn(frozen, Started(Window["BAN"], ago))
           /\ UNCHANGED <<phase, pendingPiece, pendingTB, tbEntry, result, stalemate>>
  <2>1. Started(Window["BAN"], ago) \in Timers
    BY WindowTypes DEF Windows
  <2>2. /\ lifecycle' \in {"RUNNING", "SUSPENDED"}
        /\ timer' \in Timers
        /\ suspension' \in [held : BOOLEAN, hadTimer : BOOLEAN, wasPaused : BOOLEAN]
    BY <1>3, <2>1, GoOnTypes
  <2>3. ControlTypeOK'
    BY <1>1, <1>3, <2>2, OrderedTeams DEF ControlTypeOK, Lifecycles
  <2>4. TurnOrder'
    BY <1>1, <1>3, <2>2 DEF TurnOrder, Ongoing
  <2>5. QED
    BY <2>3, <2>4
<1>4. QED
  BY <1>2, <1>3 DEF AdvanceBan

(* A ready match has the types. *)
LEMMA TypesInit == Init => TInv
<1> SUFFICES ASSUME Init PROVE TInv
  OBVIOUS
<1>1. NewBoard \in [Cells -> Pieces]
  BY DEF NewBoard, NoPiece, Pieces
<1>2. MaterialTypeOK
  BY <1>1 DEF Init, MaterialTypeOK, SlotStates
<1>3. NoResult \in Results
  BY DEF NoResult, Results, Reasons
<1>4. ControlTypeOK
  BY <1>3, TimerTypes DEF Init, ControlTypeOK, Lifecycles, Phases, Bases, NoSuspension, NoStalemate
<1>5. TurnOrder
  BY DEF Init, TurnOrder, Ongoing
<1>6. QED
  BY <1>2, <1>4, <1>5 DEF TInv, TypeOK

(* The play of a strategist, or of a referee in the strategist's place. *)
LEMMA TypesPlay ==
  ASSUME TInv, NEW ago \in Nat,
         \/ \E s \in Slots : BanPoolSlot(s, ago)
         \/ \E s \in Slots, c \in Cells : PlacePiece(s, c, ago)
         \/ \E c \in Cells : PlaceShiro(c, ago)
         \/ \E c \in Cells : \E plan : RobPiece(c, plan, ago)
  PROVE  TInv'
<1> USE DEF TInv, TypeOK
<1>1. ASSUME NEW s \in Slots, BanPoolSlot(s, ago)
      PROVE  TInv'
  <2>1. MaterialTypeOK'
    BY <1>1 DEF BanPoolSlot, MayBan, MaterialTypeOK, SlotStates
  <2>2. ControlTypeOK' /\ TurnOrder'
    BY <1>1, AdvanceBanTypes DEF BanPoolSlot, MayBan, Running
  <2>3. QED
    BY <2>1, <2>2
<1>2. ASSUME NEW s \in Slots, NEW c \in Cells, PlacePiece(s, c, ago)
      PROVE  TInv'
  <2>1. Place(board, c, s, "WAITING_RESULT") \in [Cells -> Pieces]
    BY BoardTypes DEF MaterialTypeOK, Outcomes
  <2>2. MaterialTypeOK'
    BY <1>2, <2>1 DEF PlacePiece, MayPlace, MaterialTypeOK, SlotStates
  <2>3. Started(Window["RESULT"], ago) \in Timers
    BY WindowTypes DEF Windows
  <2>4. ControlTypeOK'
    BY <1>2, <2>3 DEF PlacePiece, MayPlace, ControlTypeOK, Phases
  <2>5. TurnOrder'
    BY <1>2 DEF PlacePiece, MayPlace, Running, TurnOrder, Ongoing
  <2>6. QED
    BY <2>2, <2>4, <2>5
<1>3. ASSUME NEW c \in Cells, PlaceShiro(c, ago)
      PROVE  TInv'
  <2>1. PICK r \in Slots :
          /\ board' = Place(board, c, r, "WHITE")
          /\ slots' = [slots EXCEPT ![r] = "SELECTED"]
          /\ EnterPickOrTerminal(Place(board, c, r, "WHITE"), [slots EXCEPT ![r] = "SELECTED"],
                                 turn + 1, FALSE, ago)
    BY <1>3 DEF PlaceShiro, MayPlaceShiro, ShiroLeft
  <2>2. Place(board, c, r, "WHITE") \in [Cells -> Pieces]
    BY BoardTypes DEF MaterialTypeOK, Outcomes
  <2>3. MaterialTypeOK'
    BY <1>3, <2>1, <2>2 DEF PlaceShiro, MayPlaceShiro, ShiroLeft, MaterialTypeOK, SlotStates
  <2>4. turn + 1 \in Int /\ turn + 1 >= 1
    BY <1>3 DEF PlaceShiro, MayPlaceShiro, ShiroLeft, Running, TurnOrder, ControlTypeOK
  <2>5. ControlTypeOK' /\ TurnOrder'
    BY <2>1, <2>4, EnterPickTypes
  <2>6. QED
    BY <2>3, <2>5
<1>4. ASSUME NEW c \in Cells, NEW plan, RobPiece(c, plan, ago)
      PROVE  TInv'
  <2> DEFINE b == AfterRobbery(board, active, c, UNION plan)
             robbed == robberyUsed \cup {active}
  <2>1. active \in Teams /\ turn \in Int /\ turn >= 1
    BY <1>4, OrderedTeams DEF RobPiece, MayRob, Running, TurnOrder, ControlTypeOK
  <2>2. b \in [Cells -> Pieces]
    BY <2>1, BoardTypes DEF MaterialTypeOK
  <2>3. MaterialTypeOK'
    BY <1>4, <2>1, <2>2 DEF RobPiece, MayRob, MaterialTypeOK
  <2>4. turn' = turn
    BY <1>4 DEF RobPiece, MayRob
  <2>5. CASE Finish(Decided("FOUR_ALIGNMENT", active, {})) /\ UNCHANGED tbEntry
    <3>1. Decided("FOUR_ALIGNMENT", active, {}) \in Results
      BY <2>1, DecidedTypes DEF Reasons
    <3>2. tbEntry' \in Bases
      BY <2>5 DEF ControlTypeOK
    <3>3. QED
      BY <2>1, <2>3, <2>4, <2>5, <3>1, <3>2, FinishTypes
  <2>6. CASE StartForcedTBPreparation(FALSE, ago) /\ UNCHANGED <<pendingPiece, result, stalemate>>
    BY <2>1, <2>3, <2>4, <2>6, ForcedTBTypes
  <2>7. CASE UNCHANGED <<lifecycle, phase, active, timer, pendingPiece, pendingTB, tbEntry,
                         result, stalemate, suspension>>
    <3>1. ControlTypeOK'
      BY <2>4, <2>7 DEF ControlTypeOK
    <3>2. TurnOrder'
      BY <2>4, <2>7 DEF TurnOrder, Ongoing
    <3>3. QED
      BY <2>3, <3>1, <3>2
  <2>8. QED
    BY <1>4, <2>5, <2>6, <2>7 DEF RobPiece, MayRob
<1>5. QED
  BY <1>1, <1>2, <1>3, <1>4

(* Confirming a result, of a map or of the tiebreaker, keeps the types. *)
LEMMA TypesConfirm ==
  ASSUME TInv, NEW t \in Teams, ConfirmBeatmapResult(t) \/ ConfirmTBResult(t)
  PROVE  TInv'
<1> USE DEF TInv, TypeOK
<1>1. /\ Decided("FOUR_ALIGNMENT", t, {}) \in Results
      /\ Decided("TB", t, {}) \in Results
  BY DecidedTypes DEF Reasons
<1>2. CASE ConfirmBeatmapResult(t)
  <2> DEFINE b == SetOwner(board, pendingPiece, t)
  <2>1. b \in [Cells -> Pieces]
    BY BoardTypes DEF MaterialTypeOK
  <2>2. MaterialTypeOK'
    BY <1>2, <2>1 DEF ConfirmBeatmapResult, MayConfirm, MaterialTypeOK
  <2>3. turn \in Int /\ turn >= 1
    BY <1>2 DEF ConfirmBeatmapResult, MayConfirm, Running, TurnOrder, ControlTypeOK
  <2>4. CASE Finish(Decided("FOUR_ALIGNMENT", t, {})) /\ UNCHANGED <<turn, tbEntry>>
    <3>1. turn' \in Int /\ tbEntry' \in Bases
      BY <2>4 DEF ControlTypeOK
    <3>2. QED
      BY <1>1, <2>2, <2>4, <3>1, FinishTypes
  <2>5. CASE EnterPickOrTerminal(b, slots, turn + 1, FALSE, 0)
    <3>1. turn + 1 \in Int /\ turn + 1 >= 1
      BY <2>3
    <3>2. QED
      BY <2>2, <2>5, <3>1, EnterPickTypes
  <2>6. QED
    BY <1>2, <2>4, <2>5 DEF ConfirmBeatmapResult, MayConfirm
<1>3. CASE ConfirmTBResult(t)
  <2>1. MaterialTypeOK' /\ turn' \in Int /\ tbEntry' \in Bases
    BY <1>3 DEF ConfirmTBResult, MayConfirmTB, MaterialTypeOK, ControlTypeOK
  <2>2. QED
    BY <1>1, <1>3, <2>1, FinishTypes DEF ConfirmTBResult, MayConfirmTB
<1>4. QED
  BY <1>2, <1>3

(* Requesting, answering and starting a tiebreaker keeps the types. *)
LEMMA TypesAgreement ==
  ASSUME TInv,
         \/ \E t \in Teams : RequestTB(t)
         \/ \E t \in Teams, accept \in BOOLEAN : RespondTBRequest(t, accept)
         \/ StartTB
  PROVE  TInv'
<1> USE DEF TInv, TypeOK
<1>1. MaterialTypeOK'
  BY DEF MaterialTypeOK, RequestTB, MayRequestTB, CaptainsMayAct, RespondTBRequest, MayRespond,
         StartTB, MayStartTB
<1>2. ASSUME NEW t \in Teams, RequestTB(t)
      PROVE  TInv'
  <2>1. ControlTypeOK'
    BY <1>2 DEF RequestTB, MayRequestTB, CaptainsMayAct, ControlTypeOK
  <2>2. TurnOrder'
    BY <1>2 DEF RequestTB, MayRequestTB, CaptainsMayAct, TurnOrder, Ongoing
  <2>3. QED
    BY <1>1, <2>1, <2>2
<1>3. ASSUME NEW t \in Teams, NEW accept \in BOOLEAN, RespondTBRequest(t, accept)
      PROVE  TInv'
  <2>1. Started(Window["TB_PREPARATION"], 0) \in Timers
    BY WindowTypes DEF Windows
  <2>2. ControlTypeOK'
    BY <1>3, <2>1 DEF RespondTBRequest, MayRespond, CaptainsMayAct, ControlTypeOK, Phases, Bases
  <2>3. TurnOrder'
    BY <1>3 DEF RespondTBRequest, MayRespond, CaptainsMayAct, Running, TurnOrder, Ongoing
  <2>4. QED
    BY <1>1, <2>2, <2>3
<1>4. CASE StartTB
  <2>1. ControlTypeOK'
    BY <1>4, TimerTypes DEF StartTB, MayStartTB, ControlTypeOK, Phases
  <2>2. TurnOrder'
    BY <1>4 DEF StartTB, MayStartTB, Running, TurnOrder, Ongoing
  <2>3. QED
    BY <1>1, <2>1, <2>2
<1>5. QED
  BY <1>2, <1>3, <1>4

(* Commands that touch the clock alone, and the passing of time. *)
LEMMA TypesClock ==
  ASSUME TInv,
         \/ GrantAdditionalTime
         \/ \E r \in CalibrateTo : CalibrateTimer(r)
         \/ PauseTimer \/ ResumeTimer \/ Tick
  PROVE  TInv'
<1> USE DEF TInv, TypeOK
<1>1. TurnOrder' /\ MaterialTypeOK'
  BY DEF TurnOrder, Ongoing, MaterialTypeOK, GrantAdditionalTime, MayGrant, CalibrateTimer,
         MayCalibrate, PauseTimer, MayPause, ResumeTimer, MayResumeTimer, Tick, matchVars
<1>2. timer \in Timers
  BY DEF ControlTypeOK
<1>3. timer' \in Timers
  <2>1. CASE GrantAdditionalTime
    <3>1. AdditionalWindow \in Nat
      BY WindowTypes DEF AdditionalWindow, Windows
    <3>2. QED
      BY <2>1, <3>1, TimerTypes DEF GrantAdditionalTime, MayGrant
  <2>2. ASSUME NEW r \in CalibrateTo, CalibrateTimer(r)
        PROVE  timer' \in Timers
    <3>1. r \in Nat
      BY ConfigurationAssumption
    <3>2. [timer EXCEPT !.left = r] \in Timers /\ Started(r, 0) \in Timers
      BY <1>2, <3>1, TimerTypes DEF Timers
    <3>3. QED
      BY <2>2, <3>2 DEF CalibrateTimer, MayCalibrate
  <2>3. CASE PauseTimer \/ ResumeTimer
    BY <1>2, <2>3, TimerTypes DEF PauseTimer, MayPause, ResumeTimer, MayResumeTimer
  <2>4. CASE Tick
    BY <1>2, <2>4 DEF Tick, Timers
  <2>5. QED
    BY <2>1, <2>2, <2>3, <2>4
<1>4. ControlTypeOK'
  BY <1>3 DEF ControlTypeOK, GrantAdditionalTime, MayGrant, CalibrateTimer, MayCalibrate,
              PauseTimer, MayPause, ResumeTimer, MayResumeTimer, Tick, matchVars
<1>5. QED
  BY <1>1, <1>4

(* Start, suspension and what ends it keep the types. *)
LEMMA TypesLifecycle ==
  ASSUME TInv, StartMatch \/ SuspendMatch \/ ResumeMatch \/ SkipCurrentAction \/ AbortMatch
  PROVE  TInv'
<1> USE DEF TInv, TypeOK
<1>1. MaterialTypeOK'
  BY DEF MaterialTypeOK, StartMatch, MayStart, SuspendMatch, MaySuspend, ResumeMatch, MayResume,
         SkipCurrentAction, MaySkip, AbortMatch, MayAbort
<1>2. timer \in Timers
  BY DEF ControlTypeOK
<1>3. CASE StartMatch
  <2>1. Started(Window["BAN"], 0) \in Timers
    BY WindowTypes DEF Windows
  <2>2. ControlTypeOK'
    BY <1>3, <2>1, ConfigurationAssumption DEF StartMatch, MayStart, ControlTypeOK, Lifecycles,
                                               Phases
  <2>3. TurnOrder'
    BY <1>3 DEF StartMatch, MayStart, TurnOrder, Ongoing, BanTeam
  <2>4. QED
    BY <1>1, <2>2, <2>3
<1>4. CASE SuspendMatch
  <2>1. timer' \in Timers
    BY <1>2, <1>4, TimerTypes DEF SuspendMatch, MaySuspend
  <2>2. suspension' \in [held : BOOLEAN, hadTimer : BOOLEAN, wasPaused : BOOLEAN]
    BY <1>2, <1>4 DEF SuspendMatch, MaySuspend, HasTimer, Timers
  <2>3. ControlTypeOK'
    BY <1>4, <2>1, <2>2 DEF SuspendMatch, MaySuspend, ControlTypeOK, Lifecycles
  <2>4. TurnOrder'
    BY <1>4 DEF SuspendMatch, MaySuspend, TurnOrder, Ongoing
  <2>5. QED
    BY <1>1, <2>3, <2>4
<1>5. CASE ResumeMatch
  <2>1. timer' \in Timers
    BY <1>2, <1>5, TimerTypes DEF ResumeMatch, MayResume
  <2>2. ControlTypeOK'
    BY <1>5, <2>1 DEF ResumeMatch, MayResume, ControlTypeOK, Lifecycles, NoSuspension
  <2>3. TurnOrder'
    BY <1>5 DEF ResumeMatch, MayResume, TurnOrder, Ongoing
  <2>4. QED
    BY <1>1, <2>2, <2>3
<1>6. CASE SkipCurrentAction
  <2> DEFINE frozen == lifecycle = "SUSPENDED"
  <2>1. CASE phase = "BAN" /\ AdvanceBan(slots, frozen, 0)
    BY <1>1, <2>1, AdvanceBanTypes
  <2>2. CASE phase = "PICK" /\ EnterPickOrTerminal(board, slots, turn + 1, frozen, 0)
    <3>1. turn + 1 \in Int /\ turn + 1 >= 1
      BY <2>2 DEF TurnOrder, ControlTypeOK
    <3>2. QED
      BY <1>1, <2>2, <3>1, EnterPickTypes
  <2>3. QED
    BY <1>6, <2>1, <2>2 DEF SkipCurrentAction, MaySkip
<1>7. CASE AbortMatch
  <2>1. ControlTypeOK'
    BY <1>7, TimerTypes DEF AbortMatch, MayAbort, ControlTypeOK, Lifecycles, Phases,
                            NoSuspension
  <2>2. TurnOrder'
    BY <1>7 DEF AbortMatch, MayAbort, TurnOrder, Ongoing
  <2>3. QED
    BY <1>1, <2>1, <2>2
<1>8. QED
  BY <1>3, <1>4, <1>5, <1>6, <1>7

(* A surrender keeps the types. *)
LEMMA TypesSurrender ==
  ASSUME TInv, NEW t \in Teams, NEW ids, RecordSurrender(t, ids)
  PROVE  TInv'
<1> USE DEF TInv, TypeOK
<1>1. ids \in SUBSET (Members("RED") \cup Members("BLUE"))
  BY DEF RecordSurrender, MaySurrender, SurrenderEvidence, Teams
<1>2. Decided("SURRENDER", Opponent(t), ids) \in Results
  BY <1>1, OrderedTeams, DecidedTypes DEF Reasons
<1>3. MaterialTypeOK' /\ turn' \in Int /\ tbEntry' \in Bases
  BY DEF RecordSurrender, MaySurrender, MaterialTypeOK, ControlTypeOK
<1>4. QED
  BY <1>2, <1>3, FinishTypes DEF RecordSurrender, MaySurrender

(* Every step keeps the types. *)
LEMMA TypesStep == TInv /\ [Next]_vars => TInv'
<1> SUFFICES ASSUME TInv, [Next]_vars PROVE TInv'
  OBVIOUS
<1>1. CASE StrategistPlays
  BY <1>1, TypesPlay, ConfigurationAssumption DEF StrategistPlays
<1>2. CASE RefereeProxies
  <2>1. ProxyAge \in Nat
    BY DEF ProxyAge, TInv, TypeOK, ControlTypeOK, Timers
  <2>2. QED
    BY <1>2, <2>1, TypesPlay, ConfigurationAssumption DEF RefereeProxies
<1>3. CASE Confirms
  BY <1>3, TypesConfirm DEF Confirms
<1>4. CASE AgreesOnTB
  BY <1>4, TypesAgreement DEF AgreesOnTB
<1>5. CASE Administers
  BY <1>5, TypesClock, TypesLifecycle, TypesSurrender DEF Administers
<1>6. CASE Tick
  BY <1>6, TypesClock
<1>7. CASE UNCHANGED vars
  BY <1>7 DEF vars, matchVars, TInv, TypeOK, MaterialTypeOK, ControlTypeOK, TurnOrder, Ongoing
<1>8. QED
  BY <1>1, <1>2, <1>3, <1>4, <1>5, <1>6, <1>7 DEF Next, Executes

(* The engine's state keeps its types, and the team to act is always the one *)
(* the ban and pick orders name.  Neither is inductive alone: a robbery is   *)
(* typed because in the pick phase some team is active.                      *)
THEOREM TypeCorrect == Spec => [](TypeOK /\ TurnOrder)
<1>1. Init => TInv
  BY TypesInit
<1>2. TInv /\ [Next]_vars => TInv'
  BY TypesStep
<1>3. TInv => TypeOK /\ TurnOrder
  BY DEF TInv
<1>4. QED
  BY <1>1, <1>2, <1>3, PTL DEF Spec

-----------------------------------------------------------------------------
(* What a command does to the board *)

(* Sacrifices are living pieces of the robber, the target is not. *)
LEMMA SacrificesAreWon ==
  ASSUME NEW b, NEW t, NEW c \in Cells, NEW plan \in Sacrifices(b, t, c)
  PROVE  /\ UNION plan \subseteq Won(b, t)
         /\ IsUnownedShiro(b, c) \/ IsOpponents(b, t, c)
<1> DEFINE two == Alignments(b, t, 2)
           three == Alignments(b, t, 3)
<1>1. \A L \in two \cup three : L \subseteq Won(b, t)
  BY DEF Alignments
<1>2. CASE IsUnownedShiro(b, c)
  <2>1. PICK L \in two : plan = {L}
    BY <1>2 DEF Sacrifices
  <2>2. QED
    BY <1>1, <1>2, <2>1
<1>3. CASE ~IsUnownedShiro(b, c) /\ IsOpponents(b, t, c)
  <2>1. \/ plan \in {{L} : L \in three}
        \/ plan \in {{p[1], p[2]} : p \in {q \in two \X two : q[1] \cap q[2] = {}}}
    BY <1>3 DEF Sacrifices
  <2>2. CASE plan \in {{L} : L \in three}
    <3>1. PICK L \in three : plan = {L}
      BY <2>2
    <3>2. QED
      BY <1>1, <1>3, <3>1
  <2>3. CASE plan \in {{p[1], p[2]} : p \in {q \in two \X two : q[1] \cap q[2] = {}}}
    <3>1. PICK p \in two \X two : plan = {p[1], p[2]}
      BY <2>3
    <3>2. p[1] \in two /\ p[2] \in two
      BY <3>1
    <3>3. p[1] \subseteq Won(b, t) /\ p[2] \subseteq Won(b, t)
      BY <1>1, <3>2
    <3>4. QED
      BY <1>3, <3>1, <3>3
  <2>4. QED
    BY <2>1, <2>2, <2>3
<1>4. QED
  BY <1>2, <1>3 DEF Sacrifices

(* A team that wins no piece completes no line. *)
LEMMA FourNeedsPieces ==
  ASSUME NEW b, NEW d, NEW t, Won(d, t) \subseteq Won(b, t), ~HasFour(b, t)
  PROVE  ~HasFour(d, t)
  BY DEF HasFour, Alignments

(* A piece put on an empty cell is nobody's. *)
LEMMA PlaceKeepsWon ==
  ASSUME NEW b \in [Cells -> Pieces], NEW c \in Cells, Empty(b, c), NEW s,
         NEW o \in {"WAITING_RESULT", "WHITE"}, NEW t
  PROVE  Won(Place(b, c, s, o), t) = Won(b, t)
<1>1. \A x \in Cells : x # c => Place(b, c, s, o)[x] = b[x]
  BY DEF Place
<1>2. Place(b, c, s, o)[c].outcome = o /\ b[c].outcome = "EMPTY"
  BY DEF Place, Empty
<1>3. QED
  BY <1>1, <1>2 DEF Won

(* A confirmed result changes the pending piece alone. *)
LEMMA SetOwnerPieces ==
  ASSUME NEW b \in [Cells -> Pieces], NEW c \in Cells, NEW t \in Teams
  PROVE  /\ \A x \in Cells : x # c => SetOwner(b, c, t)[x] = b[x]
         /\ SetOwner(b, c, t)[c].slot = b[c].slot
         /\ SetOwner(b, c, t)[c].outcome = "WON"
         /\ SetOwner(b, c, t)[c].owner = t
  BY DEF SetOwner, Pieces

(* Giving a cell to one side wins none for the other. *)
LEMMA SetOwnerKeepsOthers ==
  ASSUME NEW b \in [Cells -> Pieces], NEW c \in Cells, NEW t \in Teams, NEW u, u # t
  PROVE  Won(SetOwner(b, c, t), u) \subseteq Won(b, u)
  BY SetOwnerPieces DEF Won

(* A robbery changes hands and kills, and moves nothing. *)
LEMMA RobberyPieces ==
  ASSUME NEW b \in [Cells -> Pieces], NEW c \in Cells, NEW t \in Teams, NEW dead
  PROVE  LET d == AfterRobbery(b, t, c, dead) IN
         /\ \A x \in Cells : d[x].slot = b[x].slot
         /\ d[c].outcome = "WON" /\ d[c].owner = t
         /\ \A x \in Cells \ {c} : d[x].owner = b[x].owner
         /\ \A x \in dead \cap Cells : x # c => d[x].outcome = "DEAD"
         /\ \A x \in Cells \ dead : x # c => d[x] = b[x]
  BY DEF AfterRobbery, Pieces

(* Nor does a robbery. *)
LEMMA RobberyKeepsOthers ==
  ASSUME NEW b \in [Cells -> Pieces], NEW c \in Cells, NEW t \in Teams, NEW dead, NEW u, u # t
  PROVE  Won(AfterRobbery(b, t, c, dead), u) \subseteq Won(b, u)
<1> DEFINE d == AfterRobbery(b, t, c, dead)
<1>1. \A x \in Cells : d[x].outcome = "WON" /\ d[x].owner = u => b[x] = d[x]
  BY RobberyPieces
<1>2. QED
  BY <1>1 DEF Won

-----------------------------------------------------------------------------
(* Safety *)

(* What holds of the match beyond the agreement of pool and board. *)
PlayInv ==
  /\ OneResultAwaited /\ NoStandingFour /\ ForcedTBNotMissed /\ PickIsPlayable
  /\ RequestIsCurrent /\ EvidenceSupportsOutcome

(* Before it starts, a match has no pieces and has used up nothing. *)
ReadyIsFresh ==
  lifecycle = "READY" =>
    /\ board = NewBoard /\ slots = [s \in Slots |-> "AVAILABLE"]
    /\ turn = 0 /\ robberyUsed = {} /\ pauseUsed = {}

SafetyInv == TInv /\ BoardMatchesPool /\ PlayInv /\ ReadyIsFresh

(* Nothing completes a line on, or awaits a result from, an empty board. *)
LEMMA NewBoardIsEmpty ==
  /\ \A t : ~HasFour(NewBoard, t)
  /\ {c \in Cells : NewBoard[c].outcome = "WAITING_RESULT"} = {}
<1>1. \A c \in Cells : NewBoard[c].outcome = "EMPTY"
  BY DEF NewBoard, NoPiece
<1>2. \A t : Won(NewBoard, t) = {}
  BY <1>1 DEF Won
<1>3. \A L \in Lines[4] : L # {}
  <2>1. TAKE L \in Lines[4]
  <2>2. 0 \in 0..3 /\ 4 \in 2..4 /\ 4 - 1 = 3
    OBVIOUS
  <2>3. PICK c \in Cells, d \in Directions :
          L = {<<c[1] + k * d[1], c[2] + k * d[2]>> : k \in 0..3}
    BY <2>1, <2>2 DEF Lines
  <2>4. QED
    BY <2>2, <2>3
<1>4. QED
  BY <1>1, <1>2, <1>3 DEF HasFour, Alignments

(* While the match goes on and no tiebreaker was entered, nothing is decided. *)
LEMMA UndecidedPlay ==
  ASSUME EvidenceSupportsOutcome, Ongoing
  PROVE  /\ result.reason = "NONE"
         /\ stalemate = NoStalemate
         /\ phase \in {"BAN", "PICK", "WAITING_FOR_RESULT"} => tbEntry = "NONE"
  BY DEF EvidenceSupportsOutcome, VerdictRecorded, EntrySupported, Ongoing

(* A match that is finished for a recorded reason satisfies every other part. *)
LEMMA FinishSafe ==
  ASSUME NEW r, Finish(r), r.reason # "NONE", r.winner \in Teams, ResultSupported',
         EntrySupported,
         UNCHANGED <<turn, board, robberyUsed, tbEntry>> \/ tbEntry' = "NONE"
  PROVE  PlayInv'
<1>1. /\ lifecycle' = "FINISHED" /\ phase' = "NONE" /\ pendingTB' = NoTeam
      /\ pendingPiece' = NoCell /\ stalemate' = NoStalemate /\ result' = r
  BY DEF Finish
<1>2. (OneResultAwaited /\ NoStandingFour /\ ForcedTBNotMissed /\ PickIsPlayable /\ RequestIsCurrent)'
  BY <1>1 DEF OneResultAwaited, NoStandingFour, ForcedTBNotMissed, PickIsPlayable,
              RequestIsCurrent, Ongoing
<1>3. VerdictRecorded' /\ StalemateSupported'
  BY <1>1 DEF VerdictRecorded, StalemateSupported
<1>4. EntrySupported'
  BY <1>1 DEF EntrySupported
<1>5. QED
  BY <1>2, <1>3, <1>4 DEF PlayInv, EvidenceSupportsOutcome

(* A forced tiebreaker. *)
LEMMA ForcedTBSafe ==
  ASSUME EvidenceSupportsOutcome, Ongoing, phase \in {"BAN", "PICK", "WAITING_FOR_RESULT"},
         NEW frozen \in BOOLEAN, NEW ago, StartForcedTBPreparation(frozen, ago),
         pendingPiece' = NoCell, UNCHANGED <<result, stalemate>>,
         ForcedTBRequirementsMet(board', turn', robberyUsed'),
         {c \in Cells : board'[c].outcome = "WAITING_RESULT"} = {}
  PROVE  PlayInv'
<1>1. /\ result.reason = "NONE" /\ stalemate = NoStalemate
  BY UndecidedPlay
<1>2. /\ lifecycle' \in {"RUNNING", "SUSPENDED"} /\ phase' = "TB_PREPARATION"
      /\ pendingTB' = NoTeam /\ tbEntry' = "FORCED_AFTER_ROBBERY_CHECKS"
  BY DEF StartForcedTBPreparation, GoOn
<1>3. \A t \in Teams : ~HasFour(board', t)
  BY DEF ForcedTBRequirementsMet
<1>4. (OneResultAwaited /\ NoStandingFour /\ ForcedTBNotMissed /\ PickIsPlayable /\ RequestIsCurrent)'
  BY <1>2, <1>3 DEF OneResultAwaited, NoStandingFour, ForcedTBNotMissed, PickIsPlayable,
                    RequestIsCurrent
<1>5. VerdictRecorded' /\ StalemateSupported' /\ ResultSupported'
  BY <1>1, <1>2 DEF VerdictRecorded, StalemateSupported, ResultSupported
<1>6. EntrySupported'
  BY <1>2 DEF EntrySupported
<1>7. QED
  BY <1>4, <1>5, <1>6 DEF PlayInv, EvidenceSupportsOutcome

(* The opening of a pick, or what replaces it, on the board it was opened for. *)
LEMMA EnterPickSafe ==
  ASSUME EvidenceSupportsOutcome, RequestIsCurrent, Ongoing, turn \in Int,
         phase \in {"BAN", "PICK", "WAITING_FOR_RESULT"},
         NEW n \in Int, phase = "BAN" \/ n = turn + 1,
         NEW frozen \in BOOLEAN, NEW ago,
         EnterPickOrTerminal(board', slots', n, frozen, ago),
         UNCHANGED robberyUsed,
         \A t \in Teams : ~HasFour(board', t),
         {c \in Cells : board'[c].outcome = "WAITING_RESULT"} = {}
  PROVE  PlayInv'
<1> DEFINE forced == ForcedTBRequirementsMet(board', n, robberyUsed)
           red == WonCount(board', "RED")
           blue == WonCount(board', "BLUE")
           decided == [reason |-> "STALEMATE_WON_COUNT", red |-> red, blue |-> blue,
                       winner |-> IF blue > red THEN "BLUE" ELSE "RED", confirmers |-> {}]
<1>1. /\ turn' = n
      /\ result.reason = "NONE" /\ stalemate = NoStalemate /\ tbEntry = "NONE"
  BY UndecidedPlay DEF EnterPickOrTerminal
<1>2. red = Cardinality(Alive("RED")') /\ blue = Cardinality(Alive("BLUE")')
  BY DEF WonCount, Won, Alive
<1>3. CASE /\ forced
           /\ StartForcedTBPreparation(frozen, ago)
           /\ pendingPiece' = NoCell
           /\ UNCHANGED <<result, stalemate>>
  BY <1>1, <1>3, ForcedTBSafe
<1>4. CASE /\ ~forced
           /\ ~Stalemate(board', slots')
           /\ phase' = "PICK"
           /\ pendingPiece' = NoCell
           /\ pendingTB' = RequestAt(n)
           /\ GoOn(frozen, Started(Window["PICK"], ago))
           /\ UNCHANGED <<tbEntry, result, stalemate>>
  <2>1. lifecycle' \in {"RUNNING", "SUSPENDED"}
    BY <1>4 DEF GoOn
  <2>2. OneResultAwaited' /\ NoStandingFour' /\ ForcedTBNotMissed'
    BY <1>1, <1>4 DEF OneResultAwaited, NoStandingFour, ForcedTBNotMissed
  <2>3. PickIsPlayable'
    BY <1>4 DEF PickIsPlayable, Stalemate, LegalPlacement
  <2>4. RequestIsCurrent'
    BY <1>1, <1>4, <2>1 DEF RequestIsCurrent, RequestAt, Ongoing
  <2>5. EvidenceSupportsOutcome'
    BY <1>1, <1>4, <2>1 DEF EvidenceSupportsOutcome, VerdictRecorded, ResultSupported,
                            StalemateSupported, EntrySupported
  <2>6. QED
    BY <2>2, <2>3, <2>4, <2>5 DEF PlayInv
<1>5. CASE /\ Stalemate(board', slots')
           /\ red = blue
           /\ lifecycle' = "ADJUDICATION_REQUIRED"
           /\ phase' = "NONE"
           /\ pendingPiece' = NoCell
           /\ pendingTB' = NoTeam
           /\ stalemate' = [red |-> red, blue |-> blue]
           /\ UNCHANGED <<tbEntry, result>>
  <2>1. red \in Nat /\ stalemate' # NoStalemate
    BY <1>5, WonFinite DEF NoStalemate
  <2>2. Blocked'
    BY <1>5 DEF Blocked, Stalemate, LegalPlacement
  <2>3. StalemateSupported'
    BY <1>1, <1>2, <1>5, <2>2 DEF StalemateSupported
  <2>4. VerdictRecorded' /\ ResultSupported' /\ EntrySupported'
    BY <1>1, <1>5, <2>1 DEF VerdictRecorded, ResultSupported, EntrySupported
  <2>5. (OneResultAwaited /\ NoStandingFour /\ ForcedTBNotMissed /\ PickIsPlayable
           /\ RequestIsCurrent)'
    BY <1>5 DEF OneResultAwaited, NoStandingFour, ForcedTBNotMissed, PickIsPlayable,
                RequestIsCurrent, Ongoing
  <2>6. QED
    BY <2>3, <2>4, <2>5 DEF PlayInv, EvidenceSupportsOutcome
<1>6. CASE Stalemate(board', slots') /\ red # blue /\ Finish(decided) /\ UNCHANGED tbEntry
  <2>1. red \in Nat /\ blue \in Nat
    BY WonFinite
  <2>2. Blocked'
    BY <1>6 DEF Blocked, Stalemate, LegalPlacement
  <2>3. result' = decided
    BY <1>6 DEF Finish
  <2>4. ResultSupported'
    BY <1>1, <1>2, <1>6, <2>1, <2>2, <2>3 DEF ResultSupported
  <2>5. EntrySupported /\ tbEntry' = "NONE"
    BY <1>1, <1>6 DEF EvidenceSupportsOutcome
  <2>6. decided.reason # "NONE" /\ decided.winner \in Teams
    BY DEF Teams
  <2>7. QED
    BY <1>6, <2>4, <2>5, <2>6, FinishSafe
<1>7. QED
  BY <1>3, <1>4, <1>5, <1>6 DEF EnterPickOrTerminal, ShouldForceTB

(* A step that only freezes, resumes or times the match. *)
LEMMA QuietSafe ==
  ASSUME BoardMatchesPool, PlayInv,
         UNCHANGED <<phase, turn, slots, board, robberyUsed, pendingPiece, pendingTB, tbEntry,
                     result, stalemate>>,
         \/ UNCHANGED lifecycle
         \/ Ongoing /\ lifecycle' \in {"RUNNING", "SUSPENDED"}
  PROVE  BoardMatchesPool' /\ PlayInv'
<1>1. BoardMatchesPool'
  BY DEF BoardMatchesPool, Empty
<1>2. Ongoing' <=> Ongoing
  BY DEF Ongoing
<1>3. OneResultAwaited' /\ NoStandingFour' /\ ForcedTBNotMissed' /\ PickIsPlayable'
  BY <1>2 DEF PlayInv, OneResultAwaited, NoStandingFour, ForcedTBNotMissed, PickIsPlayable
<1>4. RequestIsCurrent'
  BY <1>2 DEF PlayInv, RequestIsCurrent
<1>5. VerdictRecorded' /\ EntrySupported'
  BY DEF PlayInv, EvidenceSupportsOutcome, VerdictRecorded, EntrySupported, Ongoing
<1>6. ResultSupported' /\ StalemateSupported'
  BY DEF PlayInv, EvidenceSupportsOutcome, ResultSupported, StalemateSupported, Alive, Blocked
<1>7. QED
  BY <1>1, <1>3, <1>4, <1>5, <1>6 DEF PlayInv, EvidenceSupportsOutcome

(* The next ban, or the first pick. *)
LEMMA AdvanceBanSafe ==
  ASSUME TypeOK, PlayInv, Ongoing, phase = "BAN", NEW frozen \in BOOLEAN, NEW ago,
         AdvanceBan(slots', frozen, ago), UNCHANGED <<board, robberyUsed>>
  PROVE  PlayInv'
<1>1. /\ EvidenceSupportsOutcome /\ RequestIsCurrent /\ turn \in Int
      /\ \A t \in Teams : ~HasFour(board, t)
      /\ {c \in Cells : board[c].outcome = "WAITING_RESULT"} = {}
      /\ pendingTB = NoTeam /\ pendingPiece = NoCell
  BY DEF PlayInv, TypeOK, ControlTypeOK, NoStandingFour, OneResultAwaited, RequestIsCurrent
<1>2. CASE EnterPickOrTerminal(board, slots', 1, frozen, ago)
  BY <1>1, <1>2, EnterPickSafe
<1>3. CASE /\ turn < 0
           /\ GoOn(frozen, Started(Window["BAN"], ago))
           /\ UNCHANGED <<phase, pendingPiece, pendingTB, tbEntry, result, stalemate>>
  <2>1. lifecycle' \in {"RUNNING", "SUSPENDED"}
    BY <1>3 DEF GoOn
  <2>2. result.reason = "NONE" /\ stalemate = NoStalemate /\ tbEntry = "NONE"
    BY <1>1, UndecidedPlay
  <2>3. OneResultAwaited' /\ NoStandingFour' /\ ForcedTBNotMissed' /\ PickIsPlayable'
    BY <1>1, <1>3 DEF OneResultAwaited, NoStandingFour, ForcedTBNotMissed, PickIsPlayable
  <2>4. RequestIsCurrent' /\ EvidenceSupportsOutcome'
    BY <1>1, <1>3, <2>1, <2>2 DEF RequestIsCurrent, EvidenceSupportsOutcome, VerdictRecorded,
                                  ResultSupported, StalemateSupported, EntrySupported
  <2>5. QED
    BY <2>3, <2>4 DEF PlayInv
<1>4. QED
  BY <1>2, <1>3 DEF AdvanceBan

(* A ban takes an identity that is off the board. *)
LEMMA BanSafe ==
  ASSUME SafetyInv, NEW s \in Slots, NEW ago, BanPoolSlot(s, ago)
  PROVE  BoardMatchesPool' /\ PlayInv'
<1>1. /\ slots' = [slots EXCEPT ![s] = "BANNED"] /\ slots[s] = "AVAILABLE"
      /\ Mod[s] \notin {"SHIRO", "TB"} /\ UNCHANGED <<board, robberyUsed>>
      /\ phase = "BAN" /\ Ongoing /\ slots \in [Slots -> SlotStates]
  BY DEF BanPoolSlot, MayBan, Running, Ongoing, SafetyInv, TInv, TypeOK, MaterialTypeOK
<1>2. \A r \in Slots : slots'[r] = IF r = s THEN "BANNED" ELSE slots[r]
  BY <1>1
<1>3. BoardMatchesPool'
  BY <1>1, <1>2 DEF SafetyInv, BoardMatchesPool, Empty
<1>4. AdvanceBan(slots', FALSE, ago)
  BY <1>1 DEF BanPoolSlot, MayBan
<1>5. PlayInv'
  BY <1>1, <1>4, AdvanceBanSafe DEF SafetyInv, TInv
<1>6. QED
  BY <1>3, <1>5

(* A piece put down keeps pool and board in agreement. *)
LEMMA PlaceMatchesPool ==
  ASSUME BoardMatchesPool, MaterialTypeOK, NEW s \in Slots, NEW c \in Cells,
         NEW o \in {"WAITING_RESULT", "WHITE"}, o = "WHITE" => Mod[s] = "SHIRO",
         slots[s] = "AVAILABLE", Mod[s] # "TB", Empty(board, c), ModFits(Mod[s], c),
         board' = Place(board, c, s, o), slots' = [slots EXCEPT ![s] = "SELECTED"]
  PROVE  BoardMatchesPool'
<1>1. board'[c] = [slot |-> s, owner |-> NoTeam, outcome |-> o]
  BY DEF Place, MaterialTypeOK
<1>2. \A x \in Cells : x # c => board'[x] = board[x]
  BY DEF Place, MaterialTypeOK
<1>3. \A r \in Slots : slots'[r] = IF r = s THEN "SELECTED" ELSE slots[r]
  BY DEF MaterialTypeOK
<1>4. board[c].slot = NoSlot /\ s # NoSlot
  BY PoolAssumption DEF BoardMatchesPool
<1>5. \A x \in Cells : board[x].slot # s
  BY DEF BoardMatchesPool
<1>6. \A r \in Slots : slots'[r] = "SELECTED" <=> \E x \in Cells : board'[x].slot = r
  <2>1. TAKE r \in Slots
  <2>2. CASE r = s
    BY <1>1, <1>3, <2>2
  <2>3. CASE r # s
    <3>1. r # NoSlot
      BY PoolAssumption
    <3>2. slots'[r] = slots[r]
      BY <1>3, <2>3
    <3>3. \A x \in Cells : board'[x].slot = r <=> board[x].slot = r
      BY <1>1, <1>2, <1>4, <2>3, <3>1
    <3>4. QED
      BY <3>2, <3>3 DEF BoardMatchesPool
  <2>4. QED
    BY <2>2, <2>3
<1>7. \A x, y \in Cells :
        board'[x].slot = board'[y].slot /\ board'[x].slot # NoSlot => x = y
  BY <1>1, <1>2, <1>5 DEF BoardMatchesPool
<1>8. \A r \in Slots : /\ Mod[r] = "TB" => slots'[r] = "AVAILABLE"
                       /\ Mod[r] = "SHIRO" => slots'[r] # "BANNED"
  BY <1>3 DEF BoardMatchesPool
<1>9. \A x \in Cells :
        /\ Empty(board', x) <=> board'[x].slot = NoSlot
        /\ ~Empty(board', x) => ModFits(Mod[board'[x].slot], x)
        /\ board'[x].outcome \in {"WON", "DEAD"} <=> board'[x].owner \in Teams
        /\ board'[x].outcome = "WHITE" => Mod[board'[x].slot] = "SHIRO"
  BY <1>1, <1>2, <1>4 DEF BoardMatchesPool, Empty, Teams, NoTeam
<1>10. QED
  BY <1>6, <1>7, <1>8, <1>9 DEF BoardMatchesPool

(* Placing a map by hand or by expiry. *)
LEMMA PlaceSafe ==
  ASSUME SafetyInv, NEW s \in Slots, NEW c \in Cells, NEW ago, PlacePiece(s, c, ago)
  PROVE  BoardMatchesPool' /\ PlayInv'
<1> DEFINE b == Place(board, c, s, "WAITING_RESULT")
<1>1. /\ Running("PICK") /\ LegalPlacement(board, slots, s, c)
      /\ board' = b /\ slots' = [slots EXCEPT ![s] = "SELECTED"]
      /\ phase' = "WAITING_FOR_RESULT" /\ pendingPiece' = c
      /\ UNCHANGED <<lifecycle, turn, robberyUsed, pendingTB, tbEntry, result, stalemate>>
  BY DEF PlacePiece, MayPlace
<1>2. /\ BoardMatchesPool /\ MaterialTypeOK /\ PlayInv /\ Ongoing /\ phase = "PICK"
      /\ board \in [Cells -> Pieces] /\ Empty(board, c)
  BY <1>1 DEF SafetyInv, TInv, TypeOK, MaterialTypeOK, Running, Ongoing, LegalPlacement
<1>3. BoardMatchesPool'
  BY <1>1, <1>2, PlaceMatchesPool DEF LegalPlacement
<1>4. \A t : Won(board', t) = Won(board, t)
  BY <1>1, <1>2, PlaceKeepsWon
<1>5. NoStandingFour'
  BY <1>1, <1>2, <1>4, FourNeedsPieces DEF PlayInv, NoStandingFour, Ongoing
<1>6. OneResultAwaited'
  <2>1. board'[c].outcome = "WAITING_RESULT" /\ \A x \in Cells : x # c => board'[x] = board[x]
    BY <1>1, <1>2 DEF Place
  <2>2. {x \in Cells : board[x].outcome = "WAITING_RESULT"} = {}
    BY <1>2 DEF PlayInv, OneResultAwaited
  <2>3. {x \in Cells : board'[x].outcome = "WAITING_RESULT"} = {c}
    BY <2>1, <2>2
  <2>4. c # NoCell
    BY DEF Cells, NoCell
  <2>5. QED
    BY <1>1, <2>3, <2>4 DEF OneResultAwaited
<1>7. ForcedTBNotMissed' /\ PickIsPlayable' /\ RequestIsCurrent'
  BY <1>1, <1>2 DEF PlayInv, ForcedTBNotMissed, PickIsPlayable, RequestIsCurrent, Ongoing
<1>8. result.reason = "NONE" /\ stalemate = NoStalemate /\ tbEntry = "NONE"
  BY <1>2, UndecidedPlay DEF PlayInv
<1>9. EvidenceSupportsOutcome'
  BY <1>1, <1>2, <1>8 DEF EvidenceSupportsOutcome, VerdictRecorded, ResultSupported,
                          StalemateSupported, EntrySupported, Ongoing
<1>10. QED
  BY <1>3, <1>5, <1>6, <1>7, <1>9 DEF PlayInv

(* Placing a blank piece. *)
LEMMA ShiroSafe ==
  ASSUME SafetyInv, NEW c \in Cells, NEW ago, PlaceShiro(c, ago)
  PROVE  BoardMatchesPool' /\ PlayInv'
<1>1. PICK s \in Slots :
        /\ Mod[s] = "SHIRO" /\ slots[s] = "AVAILABLE"
        /\ board' = Place(board, c, s, "WHITE")
        /\ slots' = [slots EXCEPT ![s] = "SELECTED"]
        /\ EnterPickOrTerminal(Place(board, c, s, "WHITE"), [slots EXCEPT ![s] = "SELECTED"],
                               turn + 1, FALSE, ago)
  BY DEF PlaceShiro, MayPlaceShiro, ShiroLeft
<1>2. /\ Running("PICK") /\ Empty(board, c) /\ UNCHANGED robberyUsed
      /\ BoardMatchesPool /\ MaterialTypeOK /\ PlayInv /\ turn \in Int
      /\ board \in [Cells -> Pieces]
  BY DEF PlaceShiro, MayPlaceShiro, ShiroLeft, SafetyInv, TInv, TypeOK, MaterialTypeOK,
         ControlTypeOK
<1>3. Ongoing /\ phase = "PICK"
  BY <1>2 DEF Running, Ongoing
<1>4. BoardMatchesPool'
  BY <1>1, <1>2, PlaceMatchesPool DEF ModFits
<1>5. \A t \in Teams : ~HasFour(board', t)
  <2>1. \A t : Won(board', t) = Won(board, t)
    BY <1>1, <1>2, PlaceKeepsWon
  <2>2. QED
    BY <1>2, <1>3, <2>1, FourNeedsPieces DEF PlayInv, NoStandingFour
<1>6. {x \in Cells : board'[x].outcome = "WAITING_RESULT"} = {}
  <2>1. board'[c].outcome = "WHITE" /\ \A x \in Cells : x # c => board'[x] = board[x]
    BY <1>1, <1>2 DEF Place
  <2>2. {x \in Cells : board[x].outcome = "WAITING_RESULT"} = {}
    BY <1>2, <1>3 DEF PlayInv, OneResultAwaited
  <2>3. QED
    BY <2>1, <2>2
<1>7. EnterPickOrTerminal(board', slots', turn + 1, FALSE, ago)
  BY <1>1
<1>8. PlayInv'
  <2>1. EvidenceSupportsOutcome /\ RequestIsCurrent /\ turn + 1 \in Int
    BY <1>2 DEF PlayInv
  <2>2. QED
    BY <1>2, <1>3, <1>5, <1>6, <1>7, <2>1, EnterPickSafe
<1>9. QED
  BY <1>4, <1>8

(* Confirming the result of the piece that waits. *)
LEMMA ConfirmSafe ==
  ASSUME SafetyInv, NEW t \in Teams, ConfirmBeatmapResult(t)
  PROVE  BoardMatchesPool' /\ PlayInv'
<1> DEFINE c == pendingPiece
<1>1. /\ Running("WAITING_FOR_RESULT") /\ board' = SetOwner(board, c, t)
      /\ UNCHANGED <<slots, robberyUsed>>
      /\ BoardMatchesPool /\ MaterialTypeOK /\ PlayInv /\ turn \in Int
      /\ board \in [Cells -> Pieces] /\ c \in Cells
  BY DEF ConfirmBeatmapResult, MayConfirm, SafetyInv, TInv, TypeOK, MaterialTypeOK,
         ControlTypeOK
<1>2. Ongoing /\ phase = "WAITING_FOR_RESULT"
  BY <1>1 DEF Running, Ongoing
<1>3. /\ \A x \in Cells : x # c => board'[x] = board[x]
      /\ board'[c].slot = board[c].slot /\ board'[c].outcome = "WON" /\ board'[c].owner = t
  BY <1>1, SetOwnerPieces
<1>4. {x \in Cells : board[x].outcome = "WAITING_RESULT"} = {c}
  BY <1>1, <1>2 DEF PlayInv, OneResultAwaited
<1>5. {x \in Cells : board'[x].outcome = "WAITING_RESULT"} = {}
  BY <1>3, <1>4
<1>6. BoardMatchesPool'
  <2>1. board[c].outcome = "WAITING_RESULT"
    BY <1>4
  <2>2. QED
    BY <1>1, <1>3, <2>1 DEF BoardMatchesPool, Empty
<1>7. \A u \in Teams : u # t => ~HasFour(board', u)
  BY <1>1, <1>2, SetOwnerKeepsOthers, FourNeedsPieces DEF PlayInv, NoStandingFour
<1>8. result.reason = "NONE" /\ stalemate = NoStalemate /\ tbEntry = "NONE"
  BY <1>1, <1>2, UndecidedPlay DEF PlayInv
<1>9. CASE /\ HasFour(board', t)
           /\ Finish(Decided("FOUR_ALIGNMENT", t, {}))
           /\ UNCHANGED <<turn, tbEntry>>
  <2> DEFINE r == Decided("FOUR_ALIGNMENT", t, {})
  <2>1. result' = r /\ r.reason = "FOUR_ALIGNMENT" /\ r.winner = t /\ tbEntry' = "NONE"
    BY <1>8, <1>9 DEF Finish, Decided
  <2>2. \E L \in Lines[4] : L \subseteq Alive(t)'
    BY <1>9 DEF HasFour, Alignments, Won, Alive
  <2>3. ResultSupported'
    BY <2>1, <2>2 DEF ResultSupported, Alive
  <2>4. QED
    BY <1>1, <1>6, <1>9, <2>1, <2>3, FinishSafe DEF PlayInv, EvidenceSupportsOutcome
<1>10. CASE /\ ~HasFour(board', t)
            /\ EnterPickOrTerminal(board', slots', turn + 1, FALSE, 0)
  <2>1. EvidenceSupportsOutcome /\ RequestIsCurrent /\ turn + 1 \in Int
    BY <1>1 DEF PlayInv
  <2>2. \A u \in Teams : ~HasFour(board', u)
    BY <1>7, <1>10
  <2>3. PlayInv'
    BY <1>1, <1>2, <1>5, <1>10, <2>1, <2>2, EnterPickSafe
  <2>4. QED
    BY <1>6, <2>3
<1>11. QED
  BY <1>1, <1>9, <1>10 DEF ConfirmBeatmapResult, MayConfirm

(* Robbing a cell, at the price of own pieces. *)
LEMMA RobSafe ==
  ASSUME SafetyInv, NEW c \in Cells, NEW plan, NEW ago, RobPiece(c, plan, ago)
  PROVE  BoardMatchesPool' /\ PlayInv'
<1> DEFINE dead == UNION plan
           robbed == robberyUsed \cup {active}
<1>1. /\ Running("PICK") /\ plan \in Sacrifices(board, active, c)
      /\ board' = AfterRobbery(board, active, c, dead) /\ robberyUsed' = robbed
      /\ UNCHANGED <<turn, slots>>
      /\ BoardMatchesPool /\ MaterialTypeOK /\ PlayInv /\ TurnOrder
      /\ board \in [Cells -> Pieces]
  BY DEF RobPiece, MayRob, SafetyInv, TInv, TypeOK, MaterialTypeOK
<1>2. Ongoing /\ phase = "PICK" /\ active \in Teams
  BY <1>1, OrderedTeams DEF Running, Ongoing, TurnOrder
<1>3. /\ \A x \in Cells : board'[x].slot = board[x].slot
      /\ board'[c].outcome = "WON" /\ board'[c].owner = active
      /\ \A x \in Cells \ {c} : board'[x].owner = board[x].owner
      /\ \A x \in dead \cap Cells : x # c => board'[x].outcome = "DEAD"
      /\ \A x \in Cells \ dead : x # c => board'[x] = board[x]
  BY <1>1, <1>2, RobberyPieces
<1>4. /\ \A x \in dead : x \in Cells => board[x].outcome = "WON" /\ board[x].owner = active
      /\ board[c].outcome \in {"WHITE", "WON"}
  <2>1. dead \subseteq Won(board, active)
    BY <1>1, SacrificesAreWon
  <2>2. IsUnownedShiro(board, c) \/ IsOpponents(board, active, c)
    BY <1>1, SacrificesAreWon
  <2>3. QED
    BY <2>1, <2>2 DEF Won, IsUnownedShiro, IsOpponents
<1>5. \A x \in Cells :
        /\ Empty(board', x) <=> Empty(board, x)
        /\ board'[x].outcome = "WAITING_RESULT" <=> board[x].outcome = "WAITING_RESULT"
        /\ board'[x].outcome = "WHITE" => board[x].outcome = "WHITE"
        /\ board'[x].outcome \in {"WON", "DEAD"} <=> board'[x].owner \in Teams
  <2>1. TAKE x \in Cells
  <2>2. board[x].outcome \in {"WON", "DEAD"} <=> board[x].owner \in Teams
    BY <1>1 DEF BoardMatchesPool
  <2>3. CASE x = c
    BY <1>2, <1>3, <1>4, <2>3 DEF Empty
  <2>4. CASE x # c /\ x \in dead
    BY <1>3, <1>4, <2>2, <2>4 DEF Empty
  <2>5. CASE x # c /\ x \notin dead
    BY <1>3, <2>2, <2>5 DEF Empty
  <2>6. QED
    BY <2>3, <2>4, <2>5
<1>6. BoardMatchesPool'
  <2> HIDE DEF dead, robbed
  <2> BoardMatchesPool /\ slots' = slots
    BY <1>1
  <2>1. \A s \in Slots : slots'[s] = "SELECTED" <=> \E x \in Cells : board'[x].slot = s
    BY <1>3 DEF BoardMatchesPool
  <2>2. \A x, y \in Cells :
          board'[x].slot = board'[y].slot /\ board'[x].slot # NoSlot => x = y
    BY <1>3 DEF BoardMatchesPool
  <2>3. \A s \in Slots : /\ Mod[s] = "TB" => slots'[s] = "AVAILABLE"
                         /\ Mod[s] = "SHIRO" => slots'[s] # "BANNED"
    BY DEF BoardMatchesPool
  <2>4. \A x \in Cells :
          /\ Empty(board', x) <=> board'[x].slot = NoSlot
          /\ ~Empty(board', x) => ModFits(Mod[board'[x].slot], x)
          /\ board'[x].outcome \in {"WON", "DEAD"} <=> board'[x].owner \in Teams
          /\ board'[x].outcome = "WHITE" => Mod[board'[x].slot] = "SHIRO"
    BY <1>3, <1>5 DEF BoardMatchesPool
  <2>5. QED
    BY <2>1, <2>2, <2>3, <2>4 DEF BoardMatchesPool
<1>7. \A u \in Teams : u # active => ~HasFour(board', u)
  BY <1>1, <1>2, RobberyKeepsOthers, FourNeedsPieces DEF PlayInv, NoStandingFour
<1>8. result.reason = "NONE" /\ stalemate = NoStalemate /\ tbEntry = "NONE"
  BY <1>1, <1>2, UndecidedPlay DEF PlayInv
<1>9. {x \in Cells : board'[x].outcome = "WAITING_RESULT"} = {} /\ pendingPiece = NoCell
  BY <1>1, <1>2, <1>5 DEF PlayInv, OneResultAwaited
<1>10. CASE /\ HasFour(board', active)
            /\ Finish(Decided("FOUR_ALIGNMENT", active, {}))
            /\ UNCHANGED tbEntry
  <2> DEFINE r == Decided("FOUR_ALIGNMENT", active, {})
  <2>1. result' = r /\ r.reason = "FOUR_ALIGNMENT" /\ r.winner = active /\ tbEntry' = "NONE"
    BY <1>8, <1>10 DEF Finish, Decided
  <2>2. \E L \in Lines[4] : L \subseteq
          {x \in Cells : board'[x].outcome = "WON" /\ board'[x].owner = active}
    BY <1>10 DEF HasFour, Alignments, Won
  <2>3. ResultSupported'
    BY <2>1, <2>2 DEF ResultSupported, Alive
  <2>4. EntrySupported
    BY <1>1 DEF PlayInv, EvidenceSupportsOutcome
  <2>5. PlayInv'
    BY <1>2, <1>10, <2>1, <2>3, <2>4, FinishSafe
  <2>6. QED
    BY <1>6, <2>5
<1>11. CASE /\ ForcedTBRequirementsMet(board', turn, robbed)
            /\ StartForcedTBPreparation(FALSE, ago)
            /\ UNCHANGED <<pendingPiece, result, stalemate>>
  <2>1. EvidenceSupportsOutcome /\ ForcedTBRequirementsMet(board', turn', robberyUsed')
    BY <1>1, <1>11 DEF PlayInv
  <2>2. PlayInv'
    BY <1>2, <1>9, <1>11, <2>1, ForcedTBSafe
  <2>3. QED
    BY <1>6, <2>2
<1>12. CASE /\ ~HasFour(board', active)
            /\ ~ForcedTBRequirementsMet(board', turn, robbed)
            /\ UNCHANGED <<lifecycle, phase, active, timer, pendingPiece, pendingTB, tbEntry,
                           result, stalemate, suspension>>
  <2>1. OneResultAwaited' /\ NoStandingFour' /\ ForcedTBNotMissed'
    BY <1>1, <1>2, <1>7, <1>9, <1>12 DEF OneResultAwaited, NoStandingFour, ForcedTBNotMissed
  <2>2. PickIsPlayable'
    BY <1>1, <1>2, <1>5, <1>12 DEF PlayInv, PickIsPlayable, Ongoing
  <2>3. RequestIsCurrent'
    BY <1>1, <1>12 DEF PlayInv, RequestIsCurrent, Ongoing
  <2>4. EvidenceSupportsOutcome'
    BY <1>2, <1>8, <1>12 DEF EvidenceSupportsOutcome, VerdictRecorded, ResultSupported,
                             StalemateSupported, EntrySupported, Ongoing
  <2>5. QED
    BY <1>6, <2>1, <2>2, <2>3, <2>4 DEF PlayInv
<1>13. QED
  BY <1>1, <1>10, <1>11, <1>12 DEF RobPiece, MayRob, ShouldForceTB

(* Requesting, answering and starting a tiebreaker. *)
LEMMA AgreementSafe ==
  ASSUME SafetyInv,
         \/ \E t \in Teams : RequestTB(t)
         \/ \E t \in Teams, accept \in BOOLEAN : RespondTBRequest(t, accept)
         \/ StartTB
  PROVE  BoardMatchesPool' /\ PlayInv'
<1> USE DEF SafetyInv, PlayInv
<1>1. /\ UNCHANGED <<lifecycle, turn, slots, board, robberyUsed, pendingPiece, result, stalemate>>
      /\ Ongoing /\ lifecycle = "RUNNING"
  BY DEF RequestTB, MayRequestTB, CaptainsMayAct, RespondTBRequest, MayRespond, StartTB,
         MayStartTB, Running, Ongoing
<1>2. BoardMatchesPool'
  BY <1>1 DEF BoardMatchesPool, Empty
<1>3. result.reason = "NONE" /\ stalemate = NoStalemate
  BY <1>1, UndecidedPlay
<1>4. VerdictRecorded' /\ ResultSupported' /\ StalemateSupported' /\ NoStandingFour'
  BY <1>1, <1>3 DEF VerdictRecorded, ResultSupported, StalemateSupported, NoStandingFour, Ongoing
<1>5. ASSUME NEW t \in Teams, RequestTB(t)
      PROVE  PlayInv'
  <2>1. tbEntry = "NONE"
    BY <1>1, <1>5, UndecidedPlay DEF RequestTB, MayRequestTB, CaptainsMayAct, Running
  <2>2. OneResultAwaited' /\ ForcedTBNotMissed' /\ PickIsPlayable'
    BY <1>1, <1>5 DEF RequestTB, MayRequestTB, CaptainsMayAct, OneResultAwaited,
                      ForcedTBNotMissed, PickIsPlayable, Ongoing
  <2>3. RequestIsCurrent' /\ EntrySupported'
    BY <1>1, <1>5, <2>1 DEF RequestTB, MayRequestTB, CaptainsMayAct, Running, RequestIsCurrent,
                            InTBWindow, EntrySupported, Ongoing
  <2>4. QED
    BY <1>4, <2>2, <2>3 DEF EvidenceSupportsOutcome
<1>6. ASSUME NEW t \in Teams, NEW accept \in BOOLEAN, RespondTBRequest(t, accept)
      PROVE  PlayInv'
  <2>1. phase = "PICK" /\ tbEntry = "NONE"
    BY <1>1, <1>6, UndecidedPlay DEF RespondTBRequest, MayRespond, CaptainsMayAct, Running
  <2>2. OneResultAwaited' /\ ForcedTBNotMissed' /\ PickIsPlayable'
    BY <1>1, <1>6, <2>1 DEF RespondTBRequest, MayRespond, CaptainsMayAct, OneResultAwaited,
                            ForcedTBNotMissed, PickIsPlayable, Ongoing
  <2>3. RequestIsCurrent' /\ EntrySupported'
    BY <1>1, <1>6, <2>1 DEF RespondTBRequest, MayRespond, CaptainsMayAct, RequestIsCurrent,
                            InTBWindow, EntrySupported
  <2>4. QED
    BY <1>4, <2>2, <2>3 DEF EvidenceSupportsOutcome
<1>7. CASE StartTB
  <2>1. phase = "TB_PREPARATION" /\ phase' = "TB_PLAYING" /\ UNCHANGED <<pendingTB, tbEntry>>
    BY <1>7 DEF StartTB, MayStartTB, Running
  <2>2. OneResultAwaited' /\ ForcedTBNotMissed' /\ PickIsPlayable' /\ RequestIsCurrent'
    BY <1>1, <2>1 DEF OneResultAwaited, ForcedTBNotMissed, PickIsPlayable, RequestIsCurrent,
                      Ongoing
  <2>3. EntrySupported'
    BY <1>1, <2>1 DEF EvidenceSupportsOutcome, EntrySupported
  <2>4. QED
    BY <1>2, <1>4, <2>2, <2>3 DEF EvidenceSupportsOutcome
<1>8. QED
  BY <1>2, <1>5, <1>6, <1>7

(* A tiebreaker result and a surrender, which end the match. *)
LEMMA DecisionSafe ==
  ASSUME SafetyInv, NEW t \in Teams,
         ConfirmTBResult(t) \/ \E ids : RecordSurrender(t, ids)
  PROVE  BoardMatchesPool' /\ PlayInv'
<1>1. /\ UNCHANGED <<turn, slots, board, robberyUsed, tbEntry>>
      /\ BoardMatchesPool /\ EntrySupported
  BY DEF ConfirmTBResult, MayConfirmTB, RecordSurrender, MaySurrender, SafetyInv, PlayInv,
         EvidenceSupportsOutcome
<1>2. BoardMatchesPool'
  BY <1>1 DEF BoardMatchesPool, Empty
<1>3. CASE ConfirmTBResult(t)
  <2> DEFINE r == Decided("TB", t, {})
  <2>1. Finish(r) /\ result' = r /\ r.reason = "TB" /\ r.winner = t
    BY <1>3 DEF ConfirmTBResult, MayConfirmTB, Finish, Decided
  <2>2. tbEntry # "NONE"
    BY <1>1, <1>3 DEF ConfirmTBResult, MayConfirmTB, Running, EntrySupported
  <2>3. ResultSupported'
    BY <1>1, <2>1, <2>2 DEF ResultSupported
  <2>4. QED
    BY <1>1, <1>2, <2>1, <2>3, FinishSafe
<1>4. ASSUME NEW ids, RecordSurrender(t, ids)
      PROVE  PlayInv'
  <2> DEFINE r == Decided("SURRENDER", Opponent(t), ids)
  <2>1. /\ Finish(r) /\ result' = r /\ r.reason = "SURRENDER" /\ r.winner = Opponent(t)
        /\ r.confirmers = ids
    BY <1>4 DEF RecordSurrender, MaySurrender, Finish, Decided
  <2>2. Opponent(Opponent(t)) = t
    BY DEF Opponent, Teams
  <2>3. ResultSupported'
    BY <1>4, <2>1, <2>2 DEF RecordSurrender, MaySurrender, SurrenderEvidence, ResultSupported
  <2>4. r.winner \in Teams
    BY <2>1, OrderedTeams
  <2>5. QED
    BY <1>1, <2>1, <2>3, <2>4, FinishSafe
<1>5. QED
  BY <1>2, <1>3, <1>4

(* Starting, skipping and aborting. *)
LEMMA LifecycleSafe ==
  ASSUME SafetyInv, StartMatch \/ SkipCurrentAction \/ AbortMatch
  PROVE  BoardMatchesPool' /\ PlayInv'
<1>1. /\ BoardMatchesPool /\ PlayInv /\ EvidenceSupportsOutcome /\ TypeOK /\ TurnOrder
      /\ turn \in Int
      /\ UNCHANGED <<slots, board, robberyUsed>>
  BY DEF SafetyInv, PlayInv, TInv, TypeOK, ControlTypeOK, StartMatch, MayStart,
         SkipCurrentAction, MaySkip, AbortMatch, MayAbort
<1>2. BoardMatchesPool'
  BY <1>1 DEF BoardMatchesPool, Empty
<1>3. CASE SkipCurrentAction
  <2> DEFINE frozen == lifecycle = "SUSPENDED"
  <2>1. Ongoing
    BY <1>3 DEF SkipCurrentAction, MaySkip, Ongoing
  <2>2. CASE phase = "BAN" /\ AdvanceBan(slots, frozen, 0)
    <3>1. AdvanceBan(slots', frozen, 0)
      BY <1>1, <2>2
    <3>2. QED
      BY <1>1, <1>2, <2>1, <2>2, <3>1, AdvanceBanSafe
  <2>3. CASE phase = "PICK" /\ EnterPickOrTerminal(board, slots, turn + 1, frozen, 0)
    <3>1. EnterPickOrTerminal(board', slots', turn + 1, frozen, 0)
      BY <1>1, <2>3
    <3>2. /\ RequestIsCurrent /\ turn + 1 \in Int
          /\ \A t \in Teams : ~HasFour(board', t)
          /\ {x \in Cells : board'[x].outcome = "WAITING_RESULT"} = {}
      BY <1>1, <2>1, <2>3 DEF PlayInv, NoStandingFour, OneResultAwaited
    <3>3. QED
      BY <1>1, <1>2, <2>1, <2>3, <3>1, <3>2, EnterPickSafe
  <2>4. QED
    BY <1>3, <2>2, <2>3 DEF SkipCurrentAction, MaySkip
<1>4. CASE AbortMatch
  <2>1. Ongoing /\ result.reason = "NONE" /\ stalemate = NoStalemate
    BY <1>1, <1>4, UndecidedPlay DEF AbortMatch, MayAbort, Ongoing
  <2>2. (OneResultAwaited /\ NoStandingFour /\ ForcedTBNotMissed /\ PickIsPlayable
           /\ RequestIsCurrent)'
    BY <1>4 DEF AbortMatch, MayAbort, OneResultAwaited, NoStandingFour, ForcedTBNotMissed,
                PickIsPlayable, RequestIsCurrent, Ongoing
  <2>3. EvidenceSupportsOutcome'
    BY <1>1, <1>4, <2>1 DEF AbortMatch, MayAbort, EvidenceSupportsOutcome, VerdictRecorded,
                            ResultSupported, StalemateSupported, EntrySupported
  <2>4. QED
    BY <1>2, <2>2, <2>3 DEF PlayInv
<1>5. CASE StartMatch
  <2>1. /\ lifecycle = "READY" /\ lifecycle' = "RUNNING" /\ phase' = "BAN"
        /\ UNCHANGED <<pendingPiece, pendingTB, tbEntry, result, stalemate>>
    BY <1>5 DEF StartMatch, MayStart
  <2>2. phase = "NONE" /\ pendingTB = NoTeam /\ tbEntry = "NONE" /\ pendingPiece = NoCell
    BY <1>1, <2>1 DEF PlayInv, TurnOrder, RequestIsCurrent, EntrySupported,
                      EvidenceSupportsOutcome, OneResultAwaited, Ongoing
  <2>3. board' = NewBoard
    BY <1>1, <2>1 DEF SafetyInv, ReadyIsFresh
  <2>4. (OneResultAwaited /\ NoStandingFour /\ ForcedTBNotMissed /\ PickIsPlayable
           /\ RequestIsCurrent)'
    BY <2>1, <2>2, <2>3, NewBoardIsEmpty
       DEF OneResultAwaited, NoStandingFour, ForcedTBNotMissed, PickIsPlayable, RequestIsCurrent
  <2>5. result.reason = "NONE" /\ stalemate = NoStalemate
    BY <1>1, <2>1 DEF EvidenceSupportsOutcome, VerdictRecorded
  <2>6. EvidenceSupportsOutcome'
    BY <2>1, <2>2, <2>5 DEF EvidenceSupportsOutcome, VerdictRecorded, ResultSupported,
                            StalemateSupported, EntrySupported
  <2>7. QED
    BY <1>2, <2>4, <2>6 DEF PlayInv
<1>6. QED
  BY <1>3, <1>4, <1>5

(* A match that has started never becomes ready again. *)
LEMMA FreshStep ==
  ASSUME ReadyIsFresh, [Next]_vars
  PROVE  ReadyIsFresh'
<1>1. CASE StrategistPlays \/ RefereeProxies \/ Confirms
  <2>1. ASSUME NEW b, NEW sl, NEW n, NEW frozen, NEW ago,
               EnterPickOrTerminal(b, sl, n, frozen, ago) \/ AdvanceBan(sl, frozen, ago)
        PROVE  lifecycle' # "READY"
    BY <2>1 DEF AdvanceBan, EnterPickOrTerminal, StartForcedTBPreparation, GoOn, Finish
  <2>2. ASSUME NEW s, NEW ago, BanPoolSlot(s, ago)
        PROVE  lifecycle' # "READY"
    BY <2>1, <2>2 DEF BanPoolSlot, MayBan
  <2>3. ASSUME NEW s, NEW c, NEW ago, PlacePiece(s, c, ago)
        PROVE  lifecycle' # "READY"
    BY <2>3 DEF PlacePiece, MayPlace, Running
  <2>4. ASSUME NEW c, NEW ago, PlaceShiro(c, ago)
        PROVE  lifecycle' # "READY"
    BY <2>1, <2>4 DEF PlaceShiro, MayPlaceShiro, ShiroLeft
  <2>5. ASSUME NEW c, NEW plan, NEW ago, RobPiece(c, plan, ago)
        PROVE  lifecycle' # "READY"
    BY <2>5 DEF RobPiece, MayRob, Running, StartForcedTBPreparation, GoOn, Finish
  <2>6. ASSUME NEW t, ConfirmBeatmapResult(t) \/ ConfirmTBResult(t)
        PROVE  lifecycle' # "READY"
    BY <2>1, <2>6 DEF ConfirmBeatmapResult, MayConfirm, ConfirmTBResult, MayConfirmTB, Finish
  <2>7. QED
    BY <1>1, <2>2, <2>3, <2>4, <2>5, <2>6 DEF StrategistPlays, RefereeProxies, Confirms, ReadyIsFresh
<1>2. CASE AgreesOnTB \/ Tick \/ UNCHANGED vars
  BY <1>2 DEF AgreesOnTB, RequestTB, MayRequestTB, CaptainsMayAct, RespondTBRequest, MayRespond,
              StartTB, MayStartTB, Tick, vars, matchVars, ReadyIsFresh
<1>3. CASE Administers
  BY <1>3 DEF Administers, StartMatch, MayStart, GrantAdditionalTime, MayGrant, CalibrateTimer,
              MayCalibrate, PauseTimer, MayPause, ResumeTimer, MayResumeTimer, SuspendMatch,
              MaySuspend, ResumeMatch, MayResume, SkipCurrentAction, MaySkip, AbortMatch,
              MayAbort, RecordSurrender, MaySurrender, AdvanceBan, EnterPickOrTerminal,
              StartForcedTBPreparation, GoOn, Finish, matchVars, ReadyIsFresh
<1>4. QED
  BY <1>1, <1>2, <1>3 DEF Next, Executes

(* A ready match satisfies the invariant. *)
LEMMA SafetyInit == Init => SafetyInv
<1> SUFFICES ASSUME Init PROVE SafetyInv
  OBVIOUS
<1>1. TInv
  BY TypesInit
<1>2. /\ lifecycle = "READY" /\ phase = "NONE" /\ board = NewBoard /\ pendingPiece = NoCell
      /\ pendingTB = NoTeam /\ tbEntry = "NONE" /\ result = NoResult /\ stalemate = NoStalemate
      /\ slots = [s \in Slots |-> "AVAILABLE"]
  BY DEF Init
<1>3. BoardMatchesPool
  <2>1. \A c \in Cells : board[c] = NoPiece
    BY <1>2 DEF NewBoard
  <2>2. QED
    BY <1>2, <2>1, PoolAssumption DEF BoardMatchesPool, NoPiece, Empty, Teams, NoTeam
<1>4. PlayInv
  <2>1. /\ OneResultAwaited /\ NoStandingFour /\ ForcedTBNotMissed /\ PickIsPlayable
        /\ RequestIsCurrent
    BY <1>2 DEF OneResultAwaited, NoStandingFour, ForcedTBNotMissed, PickIsPlayable,
                RequestIsCurrent, Ongoing
  <2>2. EvidenceSupportsOutcome
    BY <1>2 DEF EvidenceSupportsOutcome, VerdictRecorded, ResultSupported, StalemateSupported,
                EntrySupported, NoResult
  <2>3. QED
    BY <2>1, <2>2 DEF PlayInv
<1>5. ReadyIsFresh
  BY DEF Init, ReadyIsFresh
<1>6. QED
  BY <1>1, <1>3, <1>4, <1>5 DEF SafetyInv

(* Every step keeps the invariant. *)
LEMMA SafetyStep == SafetyInv /\ [Next]_vars => SafetyInv'
<1> SUFFICES ASSUME SafetyInv, [Next]_vars PROVE SafetyInv'
  OBVIOUS
<1>1. TInv' /\ ReadyIsFresh' /\ BoardMatchesPool /\ PlayInv
  BY TypesStep, FreshStep DEF SafetyInv
<1>2. CASE StrategistPlays
  <2>1. BoardMatchesPool' /\ PlayInv'
    BY <1>2, BanSafe, PlaceSafe, ShiroSafe, RobSafe, ConfigurationAssumption DEF StrategistPlays
  <2>2. QED
    BY <1>1, <2>1 DEF SafetyInv
<1>3. CASE RefereeProxies
  <2>1. BoardMatchesPool' /\ PlayInv'
    BY <1>3, BanSafe, PlaceSafe, ShiroSafe, RobSafe, ConfigurationAssumption DEF RefereeProxies
  <2>2. QED
    BY <1>1, <2>1 DEF SafetyInv
<1>4. CASE Confirms
  <2>1. BoardMatchesPool' /\ PlayInv'
    BY <1>4, ConfirmSafe, DecisionSafe DEF Confirms
  <2>2. QED
    BY <1>1, <2>1 DEF SafetyInv
<1>5. CASE AgreesOnTB
  <2>1. BoardMatchesPool' /\ PlayInv'
    BY <1>5, AgreementSafe DEF AgreesOnTB
  <2>2. QED
    BY <1>1, <2>1 DEF SafetyInv
<1>6. CASE \/ GrantAdditionalTime \/ (\E r \in CalibrateTo : CalibrateTimer(r)) \/ PauseTimer
           \/ ResumeTimer \/ SuspendMatch \/ ResumeMatch \/ Tick \/ UNCHANGED vars
  <2>1. UNCHANGED <<phase, turn, slots, board, robberyUsed, pendingPiece, pendingTB, tbEntry,
                    result, stalemate>>
    BY <1>6 DEF GrantAdditionalTime, MayGrant, CalibrateTimer, MayCalibrate, PauseTimer,
                MayPause, ResumeTimer, MayResumeTimer, SuspendMatch, MaySuspend, ResumeMatch,
                MayResume, Tick, vars, matchVars
  <2>2. UNCHANGED lifecycle \/ (Ongoing /\ lifecycle' \in {"RUNNING", "SUSPENDED"})
    BY <1>6 DEF GrantAdditionalTime, MayGrant, CalibrateTimer, MayCalibrate, PauseTimer,
                MayPause, ResumeTimer, MayResumeTimer, SuspendMatch, MaySuspend, ResumeMatch,
                MayResume, Tick, vars, matchVars, Ongoing
  <2>3. BoardMatchesPool' /\ PlayInv'
    BY <1>1, <2>1, <2>2, QuietSafe
  <2>4. QED
    BY <1>1, <2>3 DEF SafetyInv
<1>7. CASE \/ StartMatch \/ SkipCurrentAction \/ AbortMatch
           \/ \E t \in Teams : \E ids : RecordSurrender(t, ids)
  <2>1. BoardMatchesPool' /\ PlayInv'
    BY <1>7, LifecycleSafe, DecisionSafe
  <2>2. QED
    BY <1>1, <2>1 DEF SafetyInv
<1>8. QED
  BY <1>2, <1>3, <1>4, <1>5, <1>6, <1>7 DEF Next, Executes, Administers

(* The safety of the engine.  Whatever commands are accepted, in whatever    *)
(* order: pool and board agree, one result is awaited at most, no four in    *)
(* line is overlooked, the forced tiebreaker is never missed, a pick can     *)
(* always be played, a tiebreaker request is one that may be answered, and   *)
(* the outcome follows from the evidence recorded.  The parts support each   *)
(* other and the types and the turn order support them all.                  *)
THEOREM Safety ==
  Spec => [](/\ BoardMatchesPool /\ OneResultAwaited /\ NoStandingFour /\ ForcedTBNotMissed
             /\ PickIsPlayable /\ RequestIsCurrent /\ EvidenceSupportsOutcome)
<1>1. Init => SafetyInv
  BY SafetyInit
<1>2. SafetyInv /\ [Next]_vars => SafetyInv'
  BY SafetyStep
<1>3. SafetyInv => /\ BoardMatchesPool /\ OneResultAwaited /\ NoStandingFour
                   /\ ForcedTBNotMissed /\ PickIsPlayable /\ RequestIsCurrent
                   /\ EvidenceSupportsOutcome
  BY DEF SafetyInv, PlayInv
<1>4. QED
  BY <1>1, <1>2, <1>3, PTL DEF Spec

-----------------------------------------------------------------------------
(* What the clock, a suspension and a verdict record *)

(* A timer is paused only while it has a window, and keeps no time apart     *)
(* when it is not paused; only a phase with an action has a window.          *)
ClockInv ==
  /\ timer.paused => timer.duration > 0
  /\ ~timer.paused => timer.left = 0
  /\ timer.duration > 0 => phase \in {"BAN", "PICK", "WAITING_FOR_RESULT", "TB_PREPARATION"}

(* What a suspension remembers is what it did to the clock. *)
HeldInv ==
  /\ lifecycle # "SUSPENDED" => suspension = NoSuspension
  /\ lifecycle = "SUSPENDED" =>
       /\ suspension.held
       /\ suspension.hadTimer => timer.paused
       /\ suspension.wasPaused => suspension.hadTimer
       /\ HasTimer(timer) => suspension.hadTimer

(* Only a verdict by counting has counts, only a surrender has confirmers. *)
ResultShape ==
  /\ result.reason # "STALEMATE_WON_COUNT" => result.red = 0 /\ result.blue = 0
  /\ result.reason # "SURRENDER" => result.confirmers = {}

TurnBounds == turn >= -3 /\ (lifecycle = "ADJUDICATION_REQUIRED" => turn >= 1)

RecordInv == ClockInv /\ HeldInv /\ ResultShape /\ TurnBounds

(* Passing the turn opens a window, paused if the match is suspended. *)
LEMMA GoOnRecord ==
  ASSUME NEW frozen \in BOOLEAN, NEW w \in Windows, NEW ago \in Nat,
         GoOn(frozen, Started(Window[w], ago)),
         phase' \in {"BAN", "PICK", "WAITING_FOR_RESULT", "TB_PREPARATION"}
  PROVE  ClockInv' /\ HeldInv' /\ lifecycle' \in {"RUNNING", "SUSPENDED"}
<1>1. Window[w] \in Nat /\ Window[w] > 0
  BY ConfigurationAssumption
<1>2. /\ timer'.duration = Window[w] /\ timer'.paused = frozen
      /\ ~timer'.paused => timer'.left = 0
  BY DEF GoOn, Pause, Started
<1>3. /\ lifecycle' = IF frozen THEN "SUSPENDED" ELSE "RUNNING"
      /\ suspension' = [held |-> frozen, hadTimer |-> frozen, wasPaused |-> FALSE]
  BY DEF GoOn
<1>4. ClockInv'
  BY <1>1, <1>2 DEF ClockInv
<1>5. HeldInv'
  BY <1>1, <1>2, <1>3 DEF HeldInv, HasTimer, NoSuspension
<1>6. QED
  BY <1>3, <1>4, <1>5

(* A finished match has no clock and no suspension. *)
LEMMA FinishRecord ==
  ASSUME NEW r, Finish(r)
  PROVE  ClockInv' /\ HeldInv' /\ lifecycle' = "FINISHED" /\ result' = r
<1>1. /\ lifecycle' = "FINISHED" /\ timer' = NoTimer /\ suspension' = NoSuspension /\ result' = r
  BY DEF Finish
<1>2. ClockInv' /\ HeldInv'
  BY <1>1 DEF ClockInv, HeldInv, NoTimer, HasTimer
<1>3. QED
  BY <1>1, <1>2

(* A pick that opens, or what replaces it, leaves a proper record. *)
LEMMA EnterPickRecord ==
  ASSUME ResultShape, NEW b, NEW sl, NEW n \in Int, n >= 1,
         NEW frozen \in BOOLEAN, NEW ago \in Nat,
         EnterPickOrTerminal(b, sl, n, frozen, ago)
  PROVE  RecordInv'
<1>1. turn' = n
  BY DEF EnterPickOrTerminal
<1>2. TurnBounds'
  BY <1>1 DEF TurnBounds
<1>3. CASE StartForcedTBPreparation(frozen, ago) /\ UNCHANGED <<result, stalemate>>
  <2>1. ClockInv' /\ HeldInv'
    BY <1>3, GoOnRecord DEF StartForcedTBPreparation, Windows
  <2>2. QED
    BY <1>2, <1>3, <2>1 DEF RecordInv, ResultShape
<1>4. CASE /\ phase' = "PICK"
           /\ GoOn(frozen, Started(Window["PICK"], ago))
           /\ UNCHANGED <<tbEntry, result, stalemate>>
  <2>1. ClockInv' /\ HeldInv'
    BY <1>4, GoOnRecord DEF Windows
  <2>2. QED
    BY <1>2, <1>4, <2>1 DEF RecordInv, ResultShape
<1>5. CASE /\ lifecycle' = "ADJUDICATION_REQUIRED"
           /\ timer' = NoTimer
           /\ suspension' = NoSuspension
           /\ UNCHANGED <<tbEntry, result>>
  BY <1>2, <1>5 DEF RecordInv, ResultShape, ClockInv, HeldInv, NoTimer, HasTimer
<1>6. ASSUME NEW x, NEW y, NEW z,
             Finish([reason |-> "STALEMATE_WON_COUNT", red |-> x, blue |-> y,
                     winner |-> z, confirmers |-> {}])
      PROVE  RecordInv'
  BY <1>2, <1>6, FinishRecord DEF RecordInv, ResultShape
<1>7. QED
  BY <1>3, <1>4, <1>5, <1>6 DEF EnterPickOrTerminal

(* Advancing the bans leaves a proper record. *)
LEMMA AdvanceBanRecord ==
  ASSUME TInv, RecordInv, phase = "BAN", NEW sl, NEW frozen \in BOOLEAN, NEW ago \in Nat,
         AdvanceBan(sl, frozen, ago)
  PROVE  RecordInv'
<1>1. turn \in Int /\ ResultShape /\ TurnBounds
  BY DEF TInv, TypeOK, ControlTypeOK, RecordInv
<1>2. CASE EnterPickOrTerminal(board, sl, 1, frozen, ago)
  BY <1>1, <1>2, EnterPickRecord
<1>3. CASE /\ turn' = turn + 1
           /\ GoOn(frozen, Started(Window["BAN"], ago))
           /\ UNCHANGED <<phase, pendingPiece, pendingTB, tbEntry, result, stalemate>>
  <2>1. ClockInv' /\ HeldInv' /\ lifecycle' \in {"RUNNING", "SUSPENDED"}
    BY <1>3, GoOnRecord DEF Windows
  <2>2. TurnBounds'
    BY <1>1, <1>3, <2>1 DEF TurnBounds
  <2>3. QED
    BY <1>1, <1>3, <2>1, <2>2 DEF RecordInv, ResultShape
<1>4. QED
  BY <1>2, <1>3 DEF AdvanceBan

(* The play of a strategist, or of a referee in the strategist's place. *)
LEMMA RecordPlay ==
  ASSUME TInv, RecordInv, NEW ago \in Nat,
         \/ \E s \in Slots : BanPoolSlot(s, ago)
         \/ \E s \in Slots, c \in Cells : PlacePiece(s, c, ago)
         \/ \E c \in Cells : PlaceShiro(c, ago)
         \/ \E c \in Cells : \E plan : RobPiece(c, plan, ago)
  PROVE  RecordInv'
<1>1. turn \in Int /\ ResultShape /\ TurnBounds /\ HeldInv /\ ClockInv
  BY DEF TInv, TypeOK, ControlTypeOK, RecordInv
<1>2. ASSUME NEW s \in Slots, BanPoolSlot(s, ago)
      PROVE  RecordInv'
  <2> DEFINE sl == [slots EXCEPT ![s] = "BANNED"]
  <2>1. phase = "BAN" /\ AdvanceBan(sl, FALSE, ago)
    BY <1>2 DEF BanPoolSlot, MayBan, Running
  <2>2. QED
    BY <1>1, <2>1, AdvanceBanRecord
<1>3. ASSUME NEW s \in Slots, NEW c \in Cells, PlacePiece(s, c, ago)
      PROVE  RecordInv'
  <2>1. Window["RESULT"] \in Nat /\ Window["RESULT"] > 0
    BY ConfigurationAssumption DEF Windows
  <2>2. /\ lifecycle = "RUNNING" /\ phase' = "WAITING_FOR_RESULT"
        /\ timer' = Started(Window["RESULT"], ago)
        /\ UNCHANGED <<lifecycle, turn, result, suspension>>
    BY <1>3 DEF PlacePiece, MayPlace, Running
  <2>3. ClockInv'
    BY <2>1, <2>2 DEF ClockInv, Started
  <2>4. HeldInv'
    BY <1>1, <2>2 DEF HeldInv
  <2>5. QED
    BY <1>1, <2>2, <2>3, <2>4 DEF RecordInv, ResultShape, TurnBounds
<1>4. ASSUME NEW c \in Cells, PlaceShiro(c, ago)
      PROVE  RecordInv'
  <2>1. PICK r \in Slots :
          EnterPickOrTerminal(Place(board, c, r, "WHITE"), [slots EXCEPT ![r] = "SELECTED"],
                              turn + 1, FALSE, ago)
    BY <1>4 DEF PlaceShiro, MayPlaceShiro, ShiroLeft
  <2>2. turn + 1 \in Int /\ turn + 1 >= 1
    BY <1>1, <1>4 DEF PlaceShiro, MayPlaceShiro, ShiroLeft, Running, TInv, TurnOrder
  <2>3. QED
    BY <1>1, <2>1, <2>2, EnterPickRecord
<1>5. ASSUME NEW c \in Cells, NEW plan, RobPiece(c, plan, ago)
      PROVE  RecordInv'
  <2>1. turn' = turn /\ turn >= 1
    BY <1>5 DEF RobPiece, MayRob, Running, TInv, TurnOrder
  <2>2. TurnBounds'
    BY <1>1, <2>1 DEF TurnBounds
  <2>3. CASE Finish(Decided("FOUR_ALIGNMENT", active, {}))
    BY <2>2, <2>3, FinishRecord DEF RecordInv, ResultShape, Decided
  <2>4. CASE StartForcedTBPreparation(FALSE, ago) /\ UNCHANGED <<pendingPiece, result, stalemate>>
    <3>1. ClockInv' /\ HeldInv'
      BY <2>4, GoOnRecord DEF StartForcedTBPreparation, Windows
    <3>2. QED
      BY <1>1, <2>2, <2>4, <3>1 DEF RecordInv, ResultShape
  <2>5. CASE UNCHANGED <<lifecycle, phase, active, timer, pendingPiece, pendingTB, tbEntry,
                         result, stalemate, suspension>>
    BY <1>1, <2>2, <2>5 DEF RecordInv, ResultShape, HeldInv, ClockInv, HasTimer
  <2>6. QED
    BY <1>5, <2>3, <2>4, <2>5 DEF RobPiece, MayRob
<1>6. QED
  BY <1>2, <1>3, <1>4, <1>5

(* A referee's confirmation. *)
LEMMA RecordConfirm ==
  ASSUME TInv, RecordInv, NEW t \in Teams, ConfirmBeatmapResult(t) \/ ConfirmTBResult(t)
  PROVE  RecordInv'
<1>1. turn \in Int /\ ResultShape /\ TurnBounds
  BY DEF TInv, TypeOK, ControlTypeOK, RecordInv
<1>2. ASSUME NEW r, Finish(r), r.reason \in {"FOUR_ALIGNMENT", "TB"}, r.red = 0, r.blue = 0,
             r.confirmers = {}, UNCHANGED turn
      PROVE  RecordInv'
  <2>1. ClockInv' /\ HeldInv' /\ lifecycle' = "FINISHED" /\ result' = r
    BY <1>2, FinishRecord
  <2>2. QED
    BY <1>1, <1>2, <2>1 DEF RecordInv, ResultShape, TurnBounds
<1>3. CASE ConfirmBeatmapResult(t)
  <2> DEFINE b == SetOwner(board, pendingPiece, t)
  <2>1. turn + 1 \in Int /\ turn + 1 >= 1
    BY <1>1, <1>3 DEF ConfirmBeatmapResult, MayConfirm, Running, TInv, TurnOrder
  <2>2. CASE EnterPickOrTerminal(b, slots, turn + 1, FALSE, 0)
    BY <1>1, <2>1, <2>2, EnterPickRecord
  <2>3. CASE Finish(Decided("FOUR_ALIGNMENT", t, {})) /\ UNCHANGED turn
    BY <1>2, <2>3 DEF Decided
  <2>4. QED
    BY <1>3, <2>2, <2>3 DEF ConfirmBeatmapResult, MayConfirm
<1>4. CASE ConfirmTBResult(t)
  BY <1>2, <1>4 DEF ConfirmTBResult, MayConfirmTB, Decided
<1>5. QED
  BY <1>3, <1>4

(* The captains' agreement, and the start of the tiebreaker. *)
LEMMA RecordAgreement ==
  ASSUME RecordInv, AgreesOnTB
  PROVE  RecordInv'
<1>1. ResultShape /\ TurnBounds /\ HeldInv /\ ClockInv
  BY DEF RecordInv
<1>2. /\ lifecycle = "RUNNING" /\ UNCHANGED <<lifecycle, turn, result, suspension>>
      /\ \/ UNCHANGED <<timer, phase>>
         \/ phase' = "TB_PREPARATION" /\ timer' = Started(Window["TB_PREPARATION"], 0)
         \/ phase' = "TB_PLAYING" /\ timer' = NoTimer
  BY DEF AgreesOnTB, RequestTB, MayRequestTB, CaptainsMayAct, RespondTBRequest, MayRespond,
         StartTB, MayStartTB, Running
<1>3. ClockInv'
  BY <1>1, <1>2 DEF ClockInv, Started, NoTimer
<1>4. HeldInv'
  BY <1>1, <1>2 DEF HeldInv
<1>5. QED
  BY <1>1, <1>2, <1>3, <1>4 DEF RecordInv, ResultShape, TurnBounds

(* Commands that touch the clock alone, and the passing of time. *)
LEMMA RecordClock ==
  ASSUME TInv, RecordInv,
         \/ GrantAdditionalTime
         \/ \E r \in CalibrateTo : CalibrateTimer(r)
         \/ PauseTimer \/ ResumeTimer \/ Tick
  PROVE  RecordInv'
<1>1. /\ ResultShape /\ TurnBounds /\ HeldInv /\ ClockInv /\ timer \in Timers
      /\ Ongoing <=> phase # "NONE"
  BY DEF RecordInv, TInv, TypeOK, ControlTypeOK, TurnOrder
<1>2. UNCHANGED <<lifecycle, phase, turn, result, suspension>>
  BY DEF GrantAdditionalTime, MayGrant, CalibrateTimer, MayCalibrate, PauseTimer, MayPause,
         ResumeTimer, MayResumeTimer, Tick, matchVars
<1>3. lifecycle # "SUSPENDED"
  BY <1>1 DEF GrantAdditionalTime, MayGrant, CalibrateTimer, MayCalibrate, PauseTimer, MayPause,
              ResumeTimer, MayResumeTimer, Tick, HeldInv, HasTimer
<1>4. ClockInv'
  <2>1. CASE GrantAdditionalTime
    BY <1>2, <2>1 DEF GrantAdditionalTime, MayGrant, ClockInv, Started
  <2>2. ASSUME NEW r \in CalibrateTo, CalibrateTimer(r)
        PROVE  ClockInv'
    <3>1. timer.duration > 0
      BY <1>1, <2>2 DEF CalibrateTimer, MayCalibrate, HasTimer, ClockInv
    <3>2. CASE timer.paused
      <4>1. timer' = [timer EXCEPT !.left = r]
        BY <2>2, <3>2 DEF CalibrateTimer, MayCalibrate
      <4>2. timer'.paused = timer.paused /\ timer'.duration = timer.duration
        BY <1>1, <4>1 DEF Timers
      <4>3. QED
        BY <1>1, <1>2, <3>2, <4>2 DEF ClockInv
    <3>3. CASE ~timer.paused
      <4>1. timer' = Started(r, 0)
        BY <2>2, <3>3 DEF CalibrateTimer, MayCalibrate
      <4>2. QED
        BY <1>1, <1>2, <3>1, <4>1 DEF ClockInv, Started
    <3>4. QED
      BY <3>2, <3>3
  <2>3. CASE PauseTimer
    <3>1. timer'.paused /\ timer'.duration = timer.duration /\ timer.duration > 0
      BY <1>1, <2>3 DEF PauseTimer, MayPause, Pause, Timers
    <3>2. QED
      BY <1>1, <1>2, <3>1 DEF ClockInv
  <2>4. CASE ResumeTimer
    BY <1>1, <1>2, <2>4 DEF ResumeTimer, MayResumeTimer, Resume, Started, ClockInv
  <2>5. CASE Tick
    <3>1. /\ timer'.paused = timer.paused /\ timer'.duration = timer.duration
          /\ timer'.left = timer.left
      BY <1>1, <2>5 DEF Tick, Timers
    <3>2. QED
      BY <1>1, <1>2, <3>1 DEF ClockInv
  <2>6. QED
    BY <2>1, <2>2, <2>3, <2>4, <2>5
<1>5. HeldInv'
  BY <1>1, <1>2, <1>3 DEF HeldInv
<1>6. QED
  BY <1>1, <1>2, <1>4, <1>5 DEF RecordInv, ResultShape, TurnBounds

(* Start, suspension and what ends it, surrender included. *)
LEMMA RecordLifecycle ==
  ASSUME TInv, RecordInv,
         \/ StartMatch \/ SuspendMatch \/ ResumeMatch \/ SkipCurrentAction \/ AbortMatch
         \/ \E t \in Teams : \E ids : RecordSurrender(t, ids)
  PROVE  RecordInv'
<1>1. /\ turn \in Int /\ ResultShape /\ TurnBounds /\ HeldInv /\ ClockInv
      /\ timer \in Timers
      /\ suspension \in [held : BOOLEAN, hadTimer : BOOLEAN, wasPaused : BOOLEAN]
  BY DEF TInv, TypeOK, ControlTypeOK, RecordInv
<1>2. CASE StartMatch
  <2>1. lifecycle' = "RUNNING" /\ timer' = Started(Window["BAN"], 0) /\ phase' = "BAN"
        /\ lifecycle = "READY" /\ turn' = -3 /\ UNCHANGED <<result, suspension>>
    BY <1>2 DEF StartMatch, MayStart
  <2>2. ClockInv' /\ HeldInv'
    BY <1>1, <2>1 DEF ClockInv, HeldInv, Started
  <2>3. QED
    BY <1>1, <2>1, <2>2 DEF RecordInv, ResultShape, TurnBounds
<1>3. CASE SuspendMatch
  <2>1. /\ lifecycle' = "SUSPENDED" /\ UNCHANGED <<phase, turn, result>>
        /\ suspension' = [held |-> TRUE, hadTimer |-> HasTimer(timer), wasPaused |-> timer.paused]
    BY <1>3 DEF SuspendMatch, MaySuspend
  <2>2. /\ timer'.duration = timer.duration
        /\ timer'.paused <=> HasTimer(timer)
        /\ ~timer'.paused => timer'.left = timer.left
    <3>1. CASE HasTimer(timer) /\ ~timer.paused
      <4>1. timer' = Pause(timer)
        BY <1>3, <3>1 DEF SuspendMatch, MaySuspend
      <4>2. QED
        BY <1>1, <3>1, <4>1 DEF Pause, Timers
    <3>2. CASE ~(HasTimer(timer) /\ ~timer.paused)
      <4>1. timer' = timer
        BY <1>3, <3>2 DEF SuspendMatch, MaySuspend
      <4>2. QED
        BY <1>1, <3>2, <4>1 DEF HasTimer
    <3>3. QED
      BY <3>1, <3>2
  <2>3. ClockInv'
    BY <1>1, <2>1, <2>2 DEF ClockInv, HasTimer
  <2>4. HeldInv'
    BY <1>1, <2>1, <2>2 DEF HeldInv, HasTimer, ClockInv
  <2>5. QED
    BY <1>1, <2>1, <2>3, <2>4 DEF RecordInv, ResultShape, TurnBounds
<1>4. CASE ResumeMatch
  <2>1. /\ lifecycle = "SUSPENDED" /\ lifecycle' = "RUNNING" /\ suspension' = NoSuspension
        /\ UNCHANGED <<phase, turn, result>>
        /\ timer' = IF suspension.hadTimer /\ ~suspension.wasPaused THEN Resume(timer) ELSE timer
    BY <1>4 DEF ResumeMatch, MayResume
  <2>2. ClockInv'
    BY <1>1, <2>1 DEF ClockInv, HeldInv, Resume, Started
  <2>3. QED
    BY <1>1, <2>1, <2>2 DEF RecordInv, ResultShape, TurnBounds, HeldInv
<1>5. CASE SkipCurrentAction
  <2> DEFINE frozen == lifecycle = "SUSPENDED"
  <2>1. CASE phase = "BAN" /\ AdvanceBan(slots, frozen, 0)
    BY <2>1, AdvanceBanRecord
  <2>2. CASE phase = "PICK" /\ EnterPickOrTerminal(board, slots, turn + 1, frozen, 0)
    <3>1. turn + 1 \in Int /\ turn + 1 >= 1
      BY <1>1, <2>2 DEF TInv, TurnOrder
    <3>2. QED
      BY <1>1, <2>2, <3>1, EnterPickRecord
  <2>3. QED
    BY <1>5, <2>1, <2>2 DEF SkipCurrentAction, MaySkip
<1>6. CASE AbortMatch
  <2>1. /\ lifecycle' = "ABORTED" /\ timer' = NoTimer /\ suspension' = NoSuspension
        /\ UNCHANGED <<turn, result>>
    BY <1>6 DEF AbortMatch, MayAbort
  <2>2. QED
    BY <1>1, <2>1 DEF RecordInv, ResultShape, TurnBounds, ClockInv, HeldInv, NoTimer
<1>7. ASSUME NEW t \in Teams, NEW ids, RecordSurrender(t, ids)
      PROVE  RecordInv'
  <2>1. Finish(Decided("SURRENDER", Opponent(t), ids)) /\ UNCHANGED turn
    BY <1>7 DEF RecordSurrender, MaySurrender
  <2>2. ClockInv' /\ HeldInv' /\ lifecycle' = "FINISHED"
        /\ result' = Decided("SURRENDER", Opponent(t), ids)
    BY <2>1, FinishRecord
  <2>3. QED
    BY <1>1, <2>1, <2>2 DEF RecordInv, ResultShape, TurnBounds, Decided
<1>8. QED
  BY <1>2, <1>3, <1>4, <1>5, <1>6, <1>7

(* Every step keeps the record. *)
LEMMA RecordStep == TInv /\ RecordInv /\ [Next]_vars => RecordInv'
<1> SUFFICES ASSUME TInv, RecordInv, [Next]_vars PROVE RecordInv'
  OBVIOUS
<1>1. CASE StrategistPlays
  BY <1>1, RecordPlay, ConfigurationAssumption DEF StrategistPlays
<1>2. CASE RefereeProxies
  <2>1. ProxyAge \in Nat
    BY DEF ProxyAge, TInv, TypeOK, ControlTypeOK, Timers
  <2>2. QED
    BY <1>2, <2>1, RecordPlay, ConfigurationAssumption DEF RefereeProxies
<1>3. CASE Confirms
  BY <1>3, RecordConfirm DEF Confirms
<1>4. CASE AgreesOnTB
  BY <1>4, RecordAgreement
<1>5. CASE Administers
  BY <1>5, RecordClock, RecordLifecycle DEF Administers
<1>6. CASE Tick
  BY <1>6, RecordClock
<1>7. CASE UNCHANGED vars
  BY <1>7 DEF vars, matchVars, RecordInv, ClockInv, HeldInv, ResultShape, TurnBounds, HasTimer
<1>8. QED
  BY <1>1, <1>2, <1>3, <1>4, <1>5, <1>6, <1>7 DEF Next, Executes

LEMMA RecordInit == Init => RecordInv
  BY DEF Init, RecordInv, ClockInv, HeldInv, ResultShape, TurnBounds, NoTimer, NoResult, HasTimer

-----------------------------------------------------------------------------
(* Time and suspension *)

(* Types, turn order and records hold throughout. *)
LEMMA Records == Spec => [](TInv /\ RecordInv)
<1>1. Init => TInv /\ RecordInv
  BY TypesInit, RecordInit
<1>2. TInv /\ RecordInv /\ [Next]_vars => (TInv /\ RecordInv)'
  BY TypesStep, RecordStep
<1>3. QED
  BY <1>1, <1>2, PTL DEF Spec

(* Four commands are accepted of a suspended match, and its clock stands still. *)
LEMMA SuspendedCommands ==
  ASSUME RecordInv, Next, lifecycle = "SUSPENDED"
  PROVE  \/ ResumeMatch \/ SkipCurrentAction \/ AbortMatch
         \/ \E t \in Teams : \E ids : RecordSurrender(t, ids)
<1>1. ~StrategistPlays /\ ~RefereeProxies
  BY DEF StrategistPlays, RefereeProxies, BanPoolSlot, MayBan, PlacePiece, MayPlace, PlaceShiro,
         MayPlaceShiro, ShiroLeft, RobPiece, MayRob, Running
<1>2. ~Confirms /\ ~AgreesOnTB
  BY DEF Confirms, ConfirmBeatmapResult, MayConfirm, ConfirmTBResult, MayConfirmTB, AgreesOnTB,
         RequestTB, MayRequestTB, CaptainsMayAct, RespondTBRequest, MayRespond, StartTB,
         MayStartTB, Running
<1>3. ~Tick
  BY DEF Tick, RecordInv, HeldInv, HasTimer
<1>4. Administers
  BY <1>1, <1>2, <1>3 DEF Next, Executes
<1>5. /\ ~StartMatch /\ ~GrantAdditionalTime /\ ~PauseTimer /\ ~ResumeTimer /\ ~SuspendMatch
      /\ \A r : ~CalibrateTimer(r)
  BY DEF StartMatch, MayStart, GrantAdditionalTime, MayGrant, PauseTimer, MayPause, ResumeTimer,
         MayResumeTimer, SuspendMatch, MaySuspend, CalibrateTimer, MayCalibrate
<1>6. QED
  BY <1>4, <1>5 DEF Administers

(* Opening a pick sets its turn, and a match that goes on is frozen as before. *)
LEMMA EnterPickGoesOn ==
  ASSUME NEW b, NEW sl, NEW n, NEW frozen \in BOOLEAN, NEW ago,
         EnterPickOrTerminal(b, sl, n, frozen, ago)
  PROVE  /\ turn' = n
         /\ lifecycle' = "RUNNING" => ~frozen
  BY DEF EnterPickOrTerminal, StartForcedTBPreparation, GoOn, Finish

(* A skip moves on to another turn. *)
LEMMA SkipAdvances ==
  ASSUME TInv, SkipCurrentAction
  PROVE  /\ turn' # turn
         /\ lifecycle = "SUSPENDED" => lifecycle' # "RUNNING"
<1> DEFINE frozen == lifecycle = "SUSPENDED"
<1>1. turn \in Int /\ (phase = "BAN" => turn <= 0)
  BY DEF TInv, TypeOK, ControlTypeOK, TurnOrder
<1>2. CASE phase = "BAN" /\ AdvanceBan(slots, frozen, 0)
  <2>1. CASE EnterPickOrTerminal(board, slots, 1, frozen, 0)
    <3>1. turn' = 1 /\ (lifecycle' = "RUNNING" => ~frozen)
      BY <2>1, EnterPickGoesOn
    <3>2. QED
      BY <1>1, <1>2, <3>1
  <2>2. CASE turn' = turn + 1 /\ GoOn(frozen, Started(Window["BAN"], 0))
    BY <1>1, <2>2 DEF GoOn
  <2>3. QED
    BY <1>2, <2>1, <2>2 DEF AdvanceBan
<1>3. CASE EnterPickOrTerminal(board, slots, turn + 1, frozen, 0)
  <2>1. turn' = turn + 1 /\ (lifecycle' = "RUNNING" => ~frozen)
    BY <1>3, EnterPickGoesOn
  <2>2. QED
    BY <1>1, <2>1
<1>4. QED
  BY <1>2, <1>3 DEF SkipCurrentAction, MaySkip

(* A suspended match is frozen, whatever is skipped while it lasts: nothing  *)
(* on the board changes, and on resuming the same action is open with the    *)
(* time it had left.                                                         *)
THEOREM SuspensionFreezes == Spec => SuspendedIsFrozen
<1> DEFINE Frozen ==
      lifecycle = "SUSPENDED" =>
        /\ UNCHANGED <<board, slots, robberyUsed, pauseUsed>>
        /\ lifecycle' = "RUNNING" =>
             /\ UNCHANGED <<phase, turn, active, pendingPiece, pendingTB, tbEntry>>
             /\ Remaining(timer') = Remaining(timer)
        /\ lifecycle' = "SUSPENDED" /\ turn' = turn => UNCHANGED vars
<1>1. TInv /\ RecordInv /\ [Next]_vars => [Frozen]_vars
  <2> SUFFICES ASSUME TInv, RecordInv, Next, lifecycle = "SUSPENDED" PROVE Frozen
    BY DEF vars
  <2>1. timer \in Timers /\ (suspension.hadTimer => timer.paused)
    BY DEF TInv, TypeOK, ControlTypeOK, RecordInv, HeldInv
  <2>2. CASE ResumeMatch
    <3>1. Remaining(timer') = Remaining(timer)
      <4>1. CASE suspension.hadTimer /\ ~suspension.wasPaused
        <5>1. timer' = Started(timer.left, 0) /\ timer.paused /\ timer.left \in Nat
          BY <2>1, <2>2, <4>1 DEF ResumeMatch, MayResume, Resume, Timers
        <5>2. QED
          BY <5>1 DEF Remaining, Started
      <4>2. CASE ~(suspension.hadTimer /\ ~suspension.wasPaused)
        BY <2>2, <4>2 DEF ResumeMatch, MayResume
      <4>3. QED
        BY <4>1, <4>2
    <3>2. QED
      BY <2>2, <3>1 DEF ResumeMatch, MayResume
  <2>3. CASE SkipCurrentAction
    BY <2>3, SkipAdvances DEF SkipCurrentAction, MaySkip
  <2>4. CASE AbortMatch
    BY <2>4 DEF AbortMatch, MayAbort
  <2>5. ASSUME NEW t \in Teams, NEW ids, RecordSurrender(t, ids) PROVE Frozen
    BY <2>5 DEF RecordSurrender, MaySurrender, Finish
  <2>6. QED
    BY <2>2, <2>3, <2>4, <2>5, SuspendedCommands
<1>2. QED
  BY <1>1, Records, PTL DEF Spec, SuspendedIsFrozen

(* A play moves on, or leaves the clock alone. *)
LEMMA PlayAndClock ==
  ASSUME TInv, NEW ago,
         \/ \E s \in Slots : BanPoolSlot(s, ago)
         \/ \E s \in Slots, c \in Cells : PlacePiece(s, c, ago)
         \/ \E c \in Cells : PlaceShiro(c, ago)
         \/ \E c \in Cells : \E plan : RobPiece(c, plan, ago)
  PROVE  phase' # phase \/ turn' # turn \/ timer' = timer
<1>1. turn \in Int /\ (phase = "BAN" => turn <= 0)
  BY DEF TInv, TypeOK, ControlTypeOK, TurnOrder
<1>2. ASSUME NEW s \in Slots, BanPoolSlot(s, ago)
      PROVE  turn' # turn
  <2> DEFINE sl == [slots EXCEPT ![s] = "BANNED"]
  <2>1. phase = "BAN" /\ AdvanceBan(sl, FALSE, ago)
    BY <1>2 DEF BanPoolSlot, MayBan, Running
  <2>2. CASE EnterPickOrTerminal(board, sl, 1, FALSE, ago)
    <3>1. turn' = 1
      BY <2>2, EnterPickGoesOn
    <3>2. QED
      BY <1>1, <2>1, <3>1
  <2>3. CASE turn' = turn + 1
    BY <1>1, <2>3
  <2>4. QED
    BY <2>1, <2>2, <2>3 DEF AdvanceBan
<1>3. ASSUME NEW s \in Slots, NEW c \in Cells, PlacePiece(s, c, ago)
      PROVE  phase' # phase
  BY <1>3 DEF PlacePiece, MayPlace, Running
<1>4. ASSUME NEW c \in Cells, PlaceShiro(c, ago)
      PROVE  turn' # turn
  <2>1. PICK b, sl : EnterPickOrTerminal(b, sl, turn + 1, FALSE, ago)
    BY <1>4 DEF PlaceShiro, MayPlaceShiro, ShiroLeft
  <2>2. turn' = turn + 1
    BY <2>1, EnterPickGoesOn
  <2>3. QED
    BY <1>1, <2>2
<1>5. ASSUME NEW c \in Cells, NEW plan, RobPiece(c, plan, ago)
      PROVE  phase' # phase \/ timer' = timer
  BY <1>5 DEF RobPiece, MayRob, Running, Finish, StartForcedTBPreparation
<1>6. QED
  BY <1>2, <1>3, <1>4, <1>5

(* A confirmation moves on. *)
LEMMA ConfirmMovesOn ==
  ASSUME TInv, NEW t, ConfirmBeatmapResult(t) \/ ConfirmTBResult(t)
  PROVE  phase' # phase \/ turn' # turn
<1>1. turn \in Int
  BY DEF TInv, TypeOK, ControlTypeOK
<1>2. CASE EnterPickOrTerminal(SetOwner(board, pendingPiece, t), slots, turn + 1, FALSE, 0)
  <2>1. turn' = turn + 1
    BY <1>2, EnterPickGoesOn
  <2>2. QED
    BY <1>1, <2>1
<1>3. CASE phase # "NONE" /\ phase' = "NONE"
  BY <1>3
<1>4. QED
  BY <1>2, <1>3 DEF ConfirmBeatmapResult, MayConfirm, ConfirmTBResult, MayConfirmTB, Running,
                    Finish

(* Within the window of one action, whatever commands are issued and however *)
(* often the clock is stopped and started, time runs out: a window grows     *)
(* only by the team's one additional window or a referee's calibration.      *)
THEOREM TimeRunsOut == Spec => TimeComesFromReferee
<1> DEFINE Given ==
      \/ \E t \in Teams : t \notin pauseUsed /\ pauseUsed' = pauseUsed \cup {t}
      \/ \E r \in CalibrateTo : CalibrateTimer(r)
    Rule ==
      Ongoing /\ phase' = phase /\ turn' = turn /\ Remaining(timer') > Remaining(timer) => Given
<1>1. TInv /\ RecordInv /\ [Next]_vars => [Rule]_vars
  <2> SUFFICES ASSUME TInv, RecordInv, Next, Ongoing, phase' = phase, turn' = turn,
                      Remaining(timer') > Remaining(timer)
               PROVE  Given
    BY DEF vars
  <2>1. timer \in Timers /\ Remaining(timer) \in Nat /\ phase # "NONE"
    BY TimerTypes DEF TInv, TypeOK, ControlTypeOK, TurnOrder
  <2>2. timer' # timer
    BY <2>1
  <2>3. ~StrategistPlays
    BY <2>2, PlayAndClock, ConfigurationAssumption DEF StrategistPlays
  <2>4. ~RefereeProxies
    BY <2>2, PlayAndClock, ConfigurationAssumption DEF RefereeProxies
  <2>5. ~Confirms
    BY ConfirmMovesOn DEF Confirms
  <2>6. ~AgreesOnTB
    BY <2>2 DEF AgreesOnTB, RequestTB, MayRequestTB, CaptainsMayAct, RespondTBRequest,
                MayRespond, StartTB, MayStartTB, Running
  <2>7. CASE Tick
    <3>1. /\ timer' = [timer EXCEPT !.elapsed = @ + 1] /\ ~timer.paused
          /\ timer.elapsed \in Nat /\ timer.duration \in Nat
      BY <2>1, <2>7 DEF Tick, Timers
    <3>2. /\ timer'.duration = timer.duration /\ timer'.elapsed = timer.elapsed + 1
          /\ ~timer'.paused
      BY <2>1, <3>1 DEF Timers
    <3>3. ~(Remaining(timer') > Remaining(timer))
      BY <3>1, <3>2 DEF Remaining
    <3>4. QED
      BY <3>3
  <2>8. CASE Administers
    <3>1. CASE GrantAdditionalTime
      BY <3>1 DEF GrantAdditionalTime, MayGrant
    <3>2. CASE PauseTimer \/ SuspendMatch
      <4>1. timer' = Pause(timer)
        BY <2>2, <3>2 DEF PauseTimer, MayPause, SuspendMatch, MaySuspend
      <4>2. Remaining(timer') = Remaining(timer)
        BY <2>1, <4>1 DEF Pause, Remaining, Timers
      <4>3. QED
        BY <2>1, <4>2
    <3>3. CASE ResumeTimer \/ ResumeMatch
      <4>1. timer' = Resume(timer) /\ timer.paused
        BY <2>2, <3>3 DEF ResumeTimer, MayResumeTimer, ResumeMatch, MayResume, RecordInv,
                          HeldInv
      <4>2. Remaining(timer') = Remaining(timer)
        BY <2>1, <4>1 DEF Resume, Started, Remaining, Timers
      <4>3. QED
        BY <2>1, <4>2
    <3>4. ~SkipCurrentAction
      BY SkipAdvances
    <3>5. ~StartMatch /\ ~AbortMatch /\ \A t, ids : ~RecordSurrender(t, ids)
      BY <2>1 DEF StartMatch, MayStart, AbortMatch, MayAbort, RecordSurrender, MaySurrender,
                  Finish, Ongoing
    <3>6. QED
      BY <2>8, <3>1, <3>2, <3>3, <3>4, <3>5 DEF Administers
  <2>9. QED
    BY <2>3, <2>4, <2>5, <2>6, <2>7, <2>8 DEF Next, Executes
<1>2. QED
  BY <1>1, Records, PTL DEF Spec, TimeComesFromReferee

-----------------------------------------------------------------------------
(* The history of the pieces *)

(* Everything but a play or a confirmed result leaves the board alone. *)
LEMMA BoardKept ==
  ASSUME \/ AgreesOnTB \/ Administers \/ Tick
         \/ \E s, ago : BanPoolSlot(s, ago)
         \/ \E t : ConfirmTBResult(t)
  PROVE  board' = board
<1>1. CASE AgreesOnTB \/ Tick
  BY <1>1 DEF AgreesOnTB, RequestTB, MayRequestTB, CaptainsMayAct, RespondTBRequest, MayRespond,
              StartTB, MayStartTB, Tick, matchVars
<1>2. CASE Administers
  BY <1>2 DEF Administers, StartMatch, MayStart, GrantAdditionalTime, MayGrant, CalibrateTimer,
              MayCalibrate, PauseTimer, MayPause, ResumeTimer, MayResumeTimer, SuspendMatch,
              MaySuspend, ResumeMatch, MayResume, SkipCurrentAction, MaySkip, AbortMatch,
              MayAbort, RecordSurrender, MaySurrender, matchVars
<1>3. QED
  BY <1>1, <1>2 DEF BanPoolSlot, MayBan, ConfirmTBResult, MayConfirmTB

(* The steps that change the board. *)
LEMMA BoardChanges ==
  ASSUME Next, board' # board
  PROVE  \E ago :
           \/ \E s \in Slots, c \in Cells : PlacePiece(s, c, ago)
           \/ \E c \in Cells : PlaceShiro(c, ago)
           \/ \E c \in Cells : \E plan \in Sacrifices(board, active, c) : RobPiece(c, plan, ago)
           \/ \E t \in Teams : ConfirmBeatmapResult(t)
<1>1. StrategistPlays \/ RefereeProxies \/ Confirms
  BY BoardKept DEF Next, Executes
<1>2. CASE StrategistPlays
  BY <1>2, BoardKept, ConfigurationAssumption DEF StrategistPlays
<1>3. CASE RefereeProxies
  BY <1>3, BoardKept, ConfigurationAssumption DEF RefereeProxies
<1>4. CASE Confirms
  BY <1>4, BoardKept DEF Confirms
<1>5. QED
  BY <1>1, <1>2, <1>3, <1>4

(* What may happen to the piece on cell x. *)
PieceStep(x) ==
  board'[x] # board[x] =>
    /\ board[x].outcome # "DEAD"
    /\ ~Empty(board, x) => board'[x].slot = board[x].slot
    /\ board[x].outcome = "WON" =>
         \/ board'[x].outcome = "DEAD" /\ board'[x].owner = active /\ board[x].owner = active
         \/ board'[x].outcome = "WON" /\ board'[x].owner = active /\ board[x].owner # active

(* Pieces are put on empty cells. *)
LEMMA PlacedPieceStep ==
  ASSUME TInv, NEW c \in Cells, Empty(board, c), NEW s, NEW o, board' = Place(board, c, s, o),
         NEW x \in Cells
  PROVE  PieceStep(x)
<1>1. board \in [Cells -> Pieces]
  BY DEF TInv, TypeOK, MaterialTypeOK
<1>2. x # c => board'[x] = board[x]
  BY <1>1 DEF Place
<1>3. QED
  BY <1>2 DEF PieceStep, Empty

(* A robbery takes a piece of the other side, or the unowned Shiro piece, and *)
(* kills pieces of the robber.                                                *)
LEMMA RobbedPieceStep ==
  ASSUME TInv, NEW c \in Cells, NEW plan \in Sacrifices(board, active, c), NEW ago,
         RobPiece(c, plan, ago), NEW x \in Cells
  PROVE  PieceStep(x)
<1> DEFINE dead == UNION plan
<1>1. /\ board \in [Cells -> Pieces] /\ active \in Teams
      /\ board' = AfterRobbery(board, active, c, dead)
  BY OrderedTeams DEF TInv, TypeOK, MaterialTypeOK, TurnOrder, RobPiece, MayRob, Running
<1>2. /\ dead \subseteq Won(board, active)
      /\ IsUnownedShiro(board, c) \/ IsOpponents(board, active, c)
  BY SacrificesAreWon
<1>3. CASE x = c
  <2>1. board'[x].slot = board[x].slot /\ board'[x].outcome = "WON" /\ board'[x].owner = active
    BY <1>1, <1>3, RobberyPieces
  <2>2. CASE IsUnownedShiro(board, c)
    BY <1>3, <2>1, <2>2 DEF IsUnownedShiro, PieceStep
  <2>3. CASE IsOpponents(board, active, c)
    <3>1. board[c].outcome = "WON" /\ board[c].owner = Opponent(active)
      BY <2>3 DEF IsOpponents, Won
    <3>2. QED
      BY <1>1, <1>3, <2>1, <3>1 DEF PieceStep, Opponent, Teams
  <2>4. QED
    BY <1>2, <2>2, <2>3
<1>4. CASE x # c /\ x \in dead
  <2>1. board[x].outcome = "WON" /\ board[x].owner = active
    BY <1>2, <1>4 DEF Won
  <2>2. board'[x].slot = board[x].slot /\ board'[x].owner = board[x].owner
        /\ board'[x].outcome = "DEAD"
    BY <1>1, <1>4, RobberyPieces
  <2>3. QED
    BY <2>1, <2>2 DEF PieceStep
<1>5. CASE x # c /\ x \notin dead
  BY <1>1, <1>5, RobberyPieces DEF PieceStep
<1>6. QED
  BY <1>3, <1>4, <1>5

(* A result is confirmed for the piece that waits for it. *)
LEMMA ConfirmedPieceStep ==
  ASSUME TInv, OneResultAwaited, NEW t \in Teams, ConfirmBeatmapResult(t), NEW x \in Cells
  PROVE  PieceStep(x)
<1>1. /\ board \in [Cells -> Pieces] /\ board' = SetOwner(board, pendingPiece, t)
      /\ pendingPiece \in Cells
  BY DEF TInv, TypeOK, MaterialTypeOK, ControlTypeOK, ConfirmBeatmapResult, MayConfirm
<1>2. board[pendingPiece].outcome = "WAITING_RESULT"
  BY <1>1 DEF OneResultAwaited, Ongoing, ConfirmBeatmapResult, MayConfirm, Running
<1>3. x # pendingPiece => board'[x] = board[x]
  BY <1>1, SetOwnerPieces
<1>4. board'[pendingPiece].slot = board[pendingPiece].slot
  BY <1>1, SetOwnerPieces
<1>5. QED
  BY <1>2, <1>3, <1>4 DEF PieceStep

(* No sequence of robberies, results and skips revives or moves a piece: it  *)
(* keeps its cell and slot, dies once, and changes hands only by a robbery   *)
(* of the team whose turn it is.                                             *)
THEOREM PiecesHaveOneLife == Spec => PieceHistory
<1> DEFINE History ==
      \A c \in Cells :
        board'[c] # board[c] =>
          /\ board[c].outcome # "DEAD"
          /\ ~Empty(board, c) => board'[c].slot = board[c].slot
          /\ board[c].outcome = "WON" =>
               \/ board'[c].outcome = "DEAD" /\ board'[c].owner = active /\ board[c].owner = active
               \/ board'[c].outcome = "WON" /\ board'[c].owner = active /\ board[c].owner # active
<1>1. SafetyInv /\ [Next]_vars => [History]_vars
  <2> SUFFICES ASSUME SafetyInv, Next, NEW x \in Cells PROVE PieceStep(x)
    BY DEF PieceStep
  <2>1. TInv /\ OneResultAwaited
    BY DEF SafetyInv, PlayInv
  <2>2. CASE board' = board
    BY <2>2 DEF PieceStep
  <2>3. ASSUME NEW s \in Slots, NEW c \in Cells, NEW ago, PlacePiece(s, c, ago)
        PROVE  PieceStep(x)
    BY <2>1, <2>3, PlacedPieceStep DEF PlacePiece, MayPlace, LegalPlacement
  <2>4. ASSUME NEW c \in Cells, NEW ago, PlaceShiro(c, ago)
        PROVE  PieceStep(x)
    BY <2>1, <2>4, PlacedPieceStep DEF PlaceShiro, MayPlaceShiro, ShiroLeft
  <2>5. QED
    BY <2>1, <2>2, <2>3, <2>4, RobbedPieceStep, ConfirmedPieceStep, BoardChanges
<1>2. Init => SafetyInv
  BY SafetyInit
<1>3. SafetyInv /\ [Next]_vars => SafetyInv'
  BY SafetyStep
<1>4. QED
  BY <1>1, <1>2, <1>3, PTL DEF Spec, PieceHistory

(* A line of two or three has two different cells. *)
LEMMA LinesHaveTwo ==
  ASSUME NEW n \in {2, 3}, NEW L \in Lines[n]
  PROVE  \E x, y \in L : x # y
<1>1. n \in 2..4 /\ 0 \in 0..(n - 1) /\ 1 \in 0..(n - 1)
  OBVIOUS
<1>2. PICK c \in Cells, d \in Directions :
        L = {<<c[1] + k * d[1], c[2] + k * d[2]>> : k \in 0..(n - 1)}
  BY <1>1 DEF Lines
<1>3. /\ <<c[1] + 0 * d[1], c[2] + 0 * d[2]>> \in L
      /\ <<c[1] + 1 * d[1], c[2] + 1 * d[2]>> \in L
  BY <1>1, <1>2
<1>4. c[1] \in Int /\ c[2] \in Int
  BY DEF Cells
<1>5. d[1] \in Int /\ d[2] \in Int /\ (d[1] # 0 \/ d[2] # 0)
  BY DEF Directions
<1>6. c[1] + 0 * d[1] # c[1] + 1 * d[1] \/ c[2] + 0 * d[2] # c[2] + 1 * d[2]
  BY <1>4, <1>5
<1>7. QED
  BY <1>3, <1>6

(* A sacrifice costs two pieces at least. *)
LEMMA SacrificesCostTwo ==
  ASSUME NEW b, NEW t, NEW c, NEW plan \in Sacrifices(b, t, c)
  PROVE  \E x, y \in UNION plan : x # y
<1>1. \A L \in Alignments(b, t, 2) \cup Alignments(b, t, 3) : \E x, y \in L : x # y
  BY LinesHaveTwo DEF Alignments
<1>2. \E L \in plan : L \in Alignments(b, t, 2) \cup Alignments(b, t, 3)
  <2>1. CASE IsUnownedShiro(b, c)
    BY <2>1 DEF Sacrifices
  <2>2. CASE plan \in {{L} : L \in Alignments(b, t, 3)}
    BY <2>2
  <2>3. ASSUME NEW two, two = Alignments(b, t, 2),
               plan \in {{p[1], p[2]} : p \in {q \in two \X two : q[1] \cap q[2] = {}}}
        PROVE  \E L \in plan : L \in two
    BY <2>3
  <2>4. QED
    BY <2>1, <2>2, <2>3 DEF Sacrifices
<1>3. QED
  BY <1>1, <1>2

(* Losing two members and gaining one makes a finite set smaller. *)
LEMMA TwoForOne ==
  ASSUME NEW S, IsFiniteSet(S), NEW T, NEW c, NEW x \in S, NEW y \in S, x # y,
         T \subseteq (S \ {x, y}) \cup {c}
  PROVE  Cardinality(T) < Cardinality(S)
<1> DEFINE R == (S \ {x}) \ {y}
<1>1. IsFiniteSet(S \ {x}) /\ Cardinality(S \ {x}) = Cardinality(S) - 1
  BY FS_RemoveElement
<1>2. IsFiniteSet(R) /\ Cardinality(R) = Cardinality(S \ {x}) - 1
  BY <1>1, FS_RemoveElement
<1>3. IsFiniteSet(R \cup {c}) /\ Cardinality(R \cup {c}) <= Cardinality(R) + 1
  <2> HIDE DEF R
  <2>1. Cardinality(R) \in Nat
    BY <1>2, FS_CardinalityType
  <2>2. /\ IsFiniteSet(R \cup {c})
        /\ Cardinality(R \cup {c}) = IF c \in R THEN Cardinality(R) ELSE Cardinality(R) + 1
    BY <1>2, FS_AddElement
  <2>3. QED
    BY <2>1, <2>2
<1>4. T \subseteq R \cup {c}
  OBVIOUS
<1>5. Cardinality(T) <= Cardinality(R \cup {c})
  BY <1>3, <1>4, FS_Subset
<1>6. Cardinality(S) \in Nat /\ Cardinality(T) \in Nat
  BY <1>3, <1>4, FS_Subset, FS_CardinalityType
<1>7. Cardinality(R) \in Nat /\ Cardinality(R \cup {c}) \in Nat
  BY <1>2, <1>3, FS_CardinalityType
<1>8. QED
  BY <1>1, <1>2, <1>3, <1>5, <1>6, <1>7

(* A robbery leaves its team with fewer living pieces. *)
LEMMA RobberyCosts ==
  ASSUME NEW b \in [Cells -> Pieces], NEW t \in Teams, NEW c \in Cells,
         NEW plan \in Sacrifices(b, t, c)
  PROVE  Cardinality(Won(AfterRobbery(b, t, c, UNION plan), t)) < Cardinality(Won(b, t))
<1> DEFINE d == AfterRobbery(b, t, c, UNION plan)
<1>1. /\ UNION plan \subseteq Won(b, t)
      /\ IsUnownedShiro(b, c) \/ IsOpponents(b, t, c)
  BY SacrificesAreWon
<1>2. c \notin Won(b, t)
  BY <1>1 DEF IsUnownedShiro, IsOpponents, Won, Opponent, Teams
<1>3. PICK x \in UNION plan, y \in UNION plan : x # y
  BY SacrificesCostTwo
<1>4. x \in Won(b, t) /\ y \in Won(b, t) /\ x # c /\ y # c /\ x \in Cells /\ y \in Cells
  BY <1>1, <1>2, <1>3 DEF Won
<1>5. x \notin Won(d, t) /\ y \notin Won(d, t)
  BY <1>3, <1>4, RobberyPieces DEF Won
<1>6. \A z \in Won(d, t) : z = c \/ z \in Won(b, t)
  <2>1. TAKE z \in Won(d, t)
  <2>2. CASE z # c /\ z \in UNION plan
    BY <1>1, <2>2
  <2>3. CASE z # c /\ z \notin UNION plan
    BY <2>1, <2>3, RobberyPieces DEF Won
  <2>4. QED
    BY <2>2, <2>3
<1>7. Won(d, t) \subseteq (Won(b, t) \ {x, y}) \cup {c}
  BY <1>5, <1>6
<1>8. QED
  BY <1>3, <1>4, <1>7, WonFinite, TwoForOne

(* Robberies within a turn come to an end: each costs the robber a piece of  *)
(* those it can still sacrifice.                                             *)
THEOREM RobberiesEnd == Spec => RobberyCostsMaterial
<1> DEFINE Costs ==
      turn' = turn /\ phase = "PICK" /\ board' # board /\ pendingPiece' = NoCell =>
        \A t \in Teams : active = t => Cardinality(Alive(t)') < Cardinality(Alive(t))
<1>1. TInv /\ RecordInv /\ [Next]_vars => [Costs]_vars
  <2> SUFFICES ASSUME TInv, Next, turn' = turn, phase = "PICK", board' # board,
                      pendingPiece' = NoCell, NEW t \in Teams, active = t
               PROVE  Cardinality(Alive(t)') < Cardinality(Alive(t))
    OBVIOUS
  <2>1. turn \in Int /\ board \in [Cells -> Pieces]
    BY DEF TInv, TypeOK, MaterialTypeOK, ControlTypeOK
  <2>2. ASSUME NEW s \in Slots, NEW c \in Cells, NEW ago, PlacePiece(s, c, ago)
        PROVE  FALSE
    BY <2>2 DEF PlacePiece, MayPlace, Cells, NoCell
  <2>3. ASSUME NEW c \in Cells, NEW ago, PlaceShiro(c, ago)
        PROVE  FALSE
    <3>1. PICK b, sl : EnterPickOrTerminal(b, sl, turn + 1, FALSE, ago)
      BY <2>3 DEF PlaceShiro, MayPlaceShiro, ShiroLeft
    <3>2. turn' = turn + 1
      BY <3>1, EnterPickGoesOn
    <3>3. QED
      BY <2>1, <3>2
  <2>4. \A u \in Teams : ~ConfirmBeatmapResult(u)
    BY DEF ConfirmBeatmapResult, MayConfirm, Running
  <2>5. PICK ago :
          \E c \in Cells : \E plan \in Sacrifices(board, active, c) : RobPiece(c, plan, ago)
    BY <2>2, <2>3, <2>4, BoardChanges
  <2>6. PICK c \in Cells :
          \E plan \in Sacrifices(board, t, c) : board' = AfterRobbery(board, t, c, UNION plan)
    BY <2>5 DEF RobPiece, MayRob
  <2>7. Alive(t) = Won(board, t) /\ Alive(t)' = Won(board', t)
    BY DEF Alive, Won
  <2>8. QED
    BY <2>1, <2>6, <2>7, RobberyCosts
<1>2. QED
  BY <1>1, Records, PTL DEF Spec, RobberyCostsMaterial

-----------------------------------------------------------------------------
(* The course of a match *)

(***************************************************************************)
(* A step of the match leads on: no step follows a verdict, an abort or an *)
(* adjudication, none leads back to the start, turns are opened one after  *)
(* the other, no slot is given back to the pool and no entitlement to a    *)
(* team; and once the tiebreaker is entered, the board, the pool and the   *)
(* turn it was entered with stay.                                          *)
(***************************************************************************)
LeadsOn ==
  /\ Ongoing \/ lifecycle = "READY"
  /\ lifecycle' # "READY"
  /\ lifecycle # "READY" => turn' \in {turn, turn + 1}
  /\ \A s \in Slots : slots[s] # "AVAILABLE" => slots'[s] = slots[s]
  /\ robberyUsed \subseteq robberyUsed' /\ pauseUsed \subseteq pauseUsed'
  /\ tbEntry # "NONE" => UNCHANGED <<tbEntry, turn, board, slots, robberyUsed, pauseUsed>>

(* Opening a turn never leads back to the start. *)
LEMMA TurnLeadsOn ==
  ASSUME NEW b, NEW sl, NEW n, NEW frozen, NEW ago, EnterPickOrTerminal(b, sl, n, frozen, ago)
  PROVE  turn' = n /\ lifecycle' # "READY"
  BY DEF EnterPickOrTerminal, StartForcedTBPreparation, GoOn, Finish

(* The next ban, and the first pick after the last one, are of the next turn. *)
LEMMA BanLeadsOn ==
  ASSUME TInv, phase = "BAN", NEW sl, NEW frozen, NEW ago, AdvanceBan(sl, frozen, ago)
  PROVE  turn' = turn + 1 /\ lifecycle' # "READY"
<1>1. turn \in -3..0
  BY DEF TInv, TurnOrder
<1>2. CASE turn >= 0 /\ EnterPickOrTerminal(board, sl, 1, frozen, ago)
  BY <1>1, <1>2, TurnLeadsOn
<1>3. CASE turn' = turn + 1 /\ GoOn(frozen, Started(Window["BAN"], ago))
  BY <1>3 DEF GoOn
<1>4. QED
  BY <1>2, <1>3 DEF AdvanceBan

(* Bans, placements and robberies lead on. *)
LEMMA PlaysLeadOn ==
  ASSUME TInv, EntrySupported, NEW ago,
         \/ \E s \in Slots : BanPoolSlot(s, ago)
         \/ \E s \in Slots, c \in Cells : PlacePiece(s, c, ago)
         \/ \E c \in Cells : PlaceShiro(c, ago)
         \/ \E c \in Cells : \E plan : RobPiece(c, plan, ago)
  PROVE  LeadsOn
<1>1. turn \in Int /\ slots \in [Slots -> SlotStates]
  BY DEF TInv, TypeOK, MaterialTypeOK, ControlTypeOK
<1>2. ASSUME NEW s \in Slots, BanPoolSlot(s, ago) PROVE LeadsOn
  <2> DEFINE sl == [slots EXCEPT ![s] = "BANNED"]
  <2>1. /\ phase = "BAN" /\ lifecycle = "RUNNING" /\ slots[s] = "AVAILABLE"
        /\ AdvanceBan(sl, FALSE, ago) /\ slots' = sl
        /\ UNCHANGED <<board, robberyUsed, pauseUsed>>
    BY <1>2 DEF BanPoolSlot, MayBan, Running
  <2>2. turn' = turn + 1 /\ lifecycle' # "READY"
    BY <2>1, BanLeadsOn
  <2>3. QED
    BY <1>1, <2>1, <2>2 DEF LeadsOn, Ongoing, EntrySupported
<1>3. ASSUME NEW s \in Slots, NEW c \in Cells, PlacePiece(s, c, ago) PROVE LeadsOn
  <2>1. /\ phase = "PICK" /\ lifecycle = "RUNNING" /\ slots[s] = "AVAILABLE"
        /\ slots' = [slots EXCEPT ![s] = "SELECTED"]
        /\ UNCHANGED <<lifecycle, turn, robberyUsed, pauseUsed>>
    BY <1>3 DEF PlacePiece, MayPlace, LegalPlacement, Running
  <2>2. QED
    BY <1>1, <2>1 DEF LeadsOn, Ongoing, EntrySupported
<1>4. ASSUME NEW c \in Cells, PlaceShiro(c, ago) PROVE LeadsOn
  <2>1. phase = "PICK" /\ lifecycle = "RUNNING" /\ UNCHANGED <<robberyUsed, pauseUsed>>
    BY <1>4 DEF PlaceShiro, MayPlaceShiro, Running
  <2>2. PICK s \in ShiroLeft :
          /\ slots' = [slots EXCEPT ![s] = "SELECTED"]
          /\ EnterPickOrTerminal(Place(board, c, s, "WHITE"), [slots EXCEPT ![s] = "SELECTED"],
                                 turn + 1, FALSE, ago)
    BY <1>4 DEF PlaceShiro
  <2>3. slots[s] = "AVAILABLE"
    BY <2>2 DEF ShiroLeft
  <2>4. turn' = turn + 1 /\ lifecycle' # "READY"
    BY <2>2, TurnLeadsOn
  <2>5. QED
    BY <1>1, <2>1, <2>2, <2>3, <2>4 DEF LeadsOn, Ongoing, EntrySupported
<1>5. ASSUME NEW c \in Cells, NEW plan, RobPiece(c, plan, ago) PROVE LeadsOn
  <2>1. /\ phase = "PICK" /\ lifecycle = "RUNNING"
        /\ robberyUsed' = robberyUsed \cup {active} /\ UNCHANGED <<turn, slots, pauseUsed>>
    BY <1>5 DEF RobPiece, MayRob, Running
  <2>2. lifecycle' # "READY"
    BY <1>5, <2>1 DEF RobPiece, Finish, StartForcedTBPreparation, GoOn
  <2>3. QED
    BY <2>1, <2>2 DEF LeadsOn, Ongoing, EntrySupported
<1>6. QED
  BY <1>2, <1>3, <1>4, <1>5

(* Results and the captains' agreement lead on. *)
LEMMA ResultsLeadOn ==
  ASSUME TInv, EntrySupported, Confirms \/ AgreesOnTB
  PROVE  LeadsOn
<1>1. turn \in Int
  BY DEF TInv, TypeOK, ControlTypeOK
<1>2. ASSUME NEW t \in Teams, ConfirmBeatmapResult(t) PROVE LeadsOn
  <2> DEFINE b == SetOwner(board, pendingPiece, t)
  <2>1. /\ phase = "WAITING_FOR_RESULT" /\ lifecycle = "RUNNING"
        /\ UNCHANGED <<slots, robberyUsed, pauseUsed>>
    BY <1>2 DEF ConfirmBeatmapResult, MayConfirm, Running
  <2>2. CASE Finish(Decided("FOUR_ALIGNMENT", t, {})) /\ UNCHANGED turn
    BY <2>1, <2>2 DEF Finish, LeadsOn, Ongoing, EntrySupported
  <2>3. CASE EnterPickOrTerminal(b, slots, turn + 1, FALSE, 0)
    <3>1. turn' = turn + 1 /\ lifecycle' # "READY"
      BY <2>3, TurnLeadsOn
    <3>2. QED
      BY <2>1, <3>1 DEF LeadsOn, Ongoing, EntrySupported
  <2>4. QED
    BY <1>2, <2>2, <2>3 DEF ConfirmBeatmapResult
<1>3. ASSUME NEW t \in Teams, ConfirmTBResult(t) PROVE LeadsOn
  BY <1>3 DEF ConfirmTBResult, MayConfirmTB, Running, Finish, LeadsOn, Ongoing
<1>4. CASE AgreesOnTB
  BY <1>4 DEF AgreesOnTB, RequestTB, MayRequestTB, RespondTBRequest, MayRespond, CaptainsMayAct,
              StartTB, MayStartTB, Running, LeadsOn, Ongoing, EntrySupported
<1>5. QED
  BY <1>2, <1>3, <1>4 DEF Confirms

(* The referee's administration leads on, and so does time. *)
LEMMA AdministrationLeadsOn ==
  ASSUME TInv, EntrySupported, ReadyIsFresh, ClockInv, Administers \/ Tick
  PROVE  LeadsOn
<1>1. turn \in Int
  BY DEF TInv, TypeOK, ControlTypeOK
<1>2. CASE StartMatch
  BY <1>2 DEF StartMatch, MayStart, LeadsOn, EntrySupported
<1>3. CASE GrantAdditionalTime
  BY <1>3 DEF GrantAdditionalTime, MayGrant, LeadsOn, Ongoing, EntrySupported
<1>4. CASE \/ \E r \in CalibrateTo : CalibrateTimer(r)
           \/ PauseTimer \/ ResumeTimer \/ SuspendMatch \/ ResumeMatch
  BY <1>4 DEF CalibrateTimer, MayCalibrate, PauseTimer, MayPause, ResumeTimer, MayResumeTimer,
              SuspendMatch, MaySuspend, ResumeMatch, MayResume, matchVars, LeadsOn, Ongoing
<1>5. CASE SkipCurrentAction
  <2> DEFINE frozen == lifecycle = "SUSPENDED"
  <2>1. /\ phase \in {"BAN", "PICK"} /\ lifecycle \in {"RUNNING", "SUSPENDED"}
        /\ UNCHANGED <<slots, board, robberyUsed, pauseUsed>>
    BY <1>5 DEF SkipCurrentAction, MaySkip
  <2>2. turn' = turn + 1 /\ lifecycle' # "READY"
    BY <1>5, BanLeadsOn, TurnLeadsOn DEF SkipCurrentAction
  <2>3. QED
    BY <2>1, <2>2 DEF LeadsOn, Ongoing, EntrySupported
<1>6. CASE AbortMatch
  BY <1>6 DEF AbortMatch, MayAbort, LeadsOn, Ongoing
<1>7. ASSUME NEW t \in Teams, NEW ids, RecordSurrender(t, ids) PROVE LeadsOn
  BY <1>7 DEF RecordSurrender, MaySurrender, Finish, LeadsOn, Ongoing
<1>8. CASE Tick
  <2>1. timer.duration > 0 /\ UNCHANGED matchVars
    BY <1>8 DEF Tick
  <2>2. Ongoing
    BY <2>1 DEF ClockInv, TInv, TurnOrder
  <2>3. QED
    BY <2>1, <2>2 DEF LeadsOn, Ongoing, matchVars
<1>9. QED
  BY <1>2, <1>3, <1>4, <1>5, <1>6, <1>7, <1>8 DEF Administers

(* A match goes one way, under every command and by the clock: what was      *)
(* decided, played and used up stays so, and no command is accepted, nor     *)
(* does a clock run, once the match has ended.                               *)
THEOREM MatchGoesOneWay == Spec => [][LeadsOn]_vars
<1>1. SafetyInv /\ ClockInv /\ [Next]_vars => [LeadsOn]_vars
  <2> SUFFICES ASSUME SafetyInv, ClockInv, Next PROVE LeadsOn
    OBVIOUS
  <2>1. TInv /\ EntrySupported /\ ReadyIsFresh
    BY DEF SafetyInv, PlayInv, EvidenceSupportsOutcome
  <2>2. CASE StrategistPlays
    BY <2>1, <2>2, PlaysLeadOn, ConfigurationAssumption DEF StrategistPlays
  <2>3. CASE RefereeProxies
    BY <2>1, <2>3, PlaysLeadOn, ConfigurationAssumption DEF RefereeProxies
  <2>4. CASE Confirms \/ AgreesOnTB
    BY <2>1, <2>4, ResultsLeadOn
  <2>5. CASE Administers \/ Tick
    BY <2>1, <2>5, AdministrationLeadsOn
  <2>6. QED
    BY <2>2, <2>3, <2>4, <2>5 DEF Next, Executes
<1>2. RecordInv => ClockInv
  BY DEF RecordInv
<1>3. QED
  BY <1>1, <1>2, SafetyInit, SafetyStep, Records, PTL DEF Spec
=============================================================================
