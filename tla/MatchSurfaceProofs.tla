------------------------- MODULE MatchSurfaceProofs -------------------------
(***************************************************************************)
(* Proofs about the two second descriptions of the rules: the validation   *)
(* of stored states, and the command surface shown to clients.             *)
(***************************************************************************)
EXTENDS MatchSurface, MatchEngineProofs

-----------------------------------------------------------------------------
(* Adjudication begins with no result awaited *)

SettledAdjudication ==
  lifecycle = "ADJUDICATION_REQUIRED" => \A c \in Cells : board[c].outcome # "WAITING_RESULT"

(* A match comes to adjudication from an open action or by the result that  *)
(* was awaited.                                                             *)
LEMMA AdjudicationBegins ==
  ASSUME TInv, Next, lifecycle # "ADJUDICATION_REQUIRED", lifecycle' = "ADJUDICATION_REQUIRED"
  PROVE  /\ Ongoing
         /\ phase # "WAITING_FOR_RESULT" \/ \E t \in Teams : ConfirmBeatmapResult(t)
<1>1. CASE StrategistPlays \/ RefereeProxies
  BY <1>1 DEF StrategistPlays, RefereeProxies, BanPoolSlot, MayBan, PlacePiece, MayPlace,
              PlaceShiro, MayPlaceShiro, ShiroLeft, RobPiece, MayRob, Running, Ongoing
<1>2. CASE Confirms
  BY <1>2 DEF Confirms, ConfirmBeatmapResult, MayConfirm, ConfirmTBResult, MayConfirmTB,
              Running, Ongoing
<1>3. ~AgreesOnTB /\ ~Tick
  BY DEF AgreesOnTB, RequestTB, MayRequestTB, CaptainsMayAct, RespondTBRequest, MayRespond,
         StartTB, MayStartTB, Tick, matchVars
<1>4. CASE Administers
  <2>1. /\ ~StartMatch /\ ~GrantAdditionalTime /\ ~PauseTimer /\ ~ResumeTimer /\ ~SuspendMatch
        /\ ~ResumeMatch /\ ~AbortMatch /\ \A r : ~CalibrateTimer(r)
        /\ \A t, ids : ~RecordSurrender(t, ids)
    BY DEF StartMatch, MayStart, GrantAdditionalTime, MayGrant, PauseTimer, MayPause,
           ResumeTimer, MayResumeTimer, SuspendMatch, MaySuspend, ResumeMatch, MayResume,
           AbortMatch, MayAbort, CalibrateTimer, MayCalibrate, RecordSurrender, MaySurrender,
           Finish, matchVars
  <2>2. SkipCurrentAction
    BY <1>4, <2>1 DEF Administers
  <2>3. QED
    BY <2>2 DEF SkipCurrentAction, MaySkip, Ongoing
<1>5. QED
  BY <1>1, <1>2, <1>3, <1>4 DEF Next, Executes

(* Neither the last Shiro, nor the last result, nor the skip that blocks the *)
(* match leaves a piece without an owner.                                    *)
LEMMA SettledStep ==
  ASSUME TInv, OneResultAwaited, SettledAdjudication, [Next]_vars
  PROVE  SettledAdjudication'
<1> DEFINE waits(x) == board[x].outcome = "WAITING_RESULT"
<1> SUFFICES ASSUME Next, lifecycle' = "ADJUDICATION_REQUIRED", NEW x \in Cells
             PROVE  board'[x].outcome # "WAITING_RESULT"
  BY DEF SettledAdjudication, vars, matchVars
<1>1. board \in [Cells -> Pieces]
  BY DEF TInv, TypeOK, MaterialTypeOK
<1>2. ASSUME NEW t \in Teams, ConfirmBeatmapResult(t)
      PROVE  board'[x].outcome # "WAITING_RESULT"
  <2>1. /\ board' = SetOwner(board, pendingPiece, t) /\ pendingPiece \in Cells
        /\ waits(x) => x = pendingPiece
    BY <1>2 DEF ConfirmBeatmapResult, MayConfirm, Running, OneResultAwaited, Ongoing, TInv,
                TypeOK, ControlTypeOK
  <2>2. CASE x = pendingPiece
    BY <1>1, <2>1, <2>2, SetOwnerPieces
  <2>3. CASE x # pendingPiece
    BY <1>1, <2>1, <2>3, SetOwnerPieces
  <2>4. QED
    BY <2>2, <2>3
<1>3. ASSUME NEW ago, NEW c \in Cells, PlaceShiro(c, ago)
      PROVE  board'[x].outcome # "WAITING_RESULT"
  <2>1. ~waits(x)
    BY <1>3 DEF PlaceShiro, MayPlaceShiro, ShiroLeft, Running, OneResultAwaited, Ongoing
  <2>2. QED
    BY <1>1, <1>3, <2>1 DEF PlaceShiro, MayPlaceShiro, ShiroLeft, Place
<1>4. CASE board' = board
  <2>1. CASE lifecycle = "ADJUDICATION_REQUIRED"
    BY <1>4, <2>1 DEF SettledAdjudication
  <2>2. CASE Ongoing /\ phase # "WAITING_FOR_RESULT"
    BY <1>4, <2>2 DEF OneResultAwaited
  <2>3. QED
    BY <1>2, <2>1, <2>2, AdjudicationBegins
<1>5. ~ \E ago : \E s \in Slots, c \in Cells : PlacePiece(s, c, ago)
  BY DEF PlacePiece, MayPlace, Running
<1>6. ~ \E ago, c, plan : RobPiece(c, plan, ago)
  BY DEF RobPiece, MayRob, Running, Finish, StartForcedTBPreparation, GoOn
<1>7. QED
  BY <1>2, <1>3, <1>4, <1>5, <1>6, BoardChanges

-----------------------------------------------------------------------------
(* Validation *)

(* The two ways of saying that nothing can be placed any more. *)
LEMMA BlockedIsStalemate == Blocked <=> Stalemate(board, slots)
  BY DEF Blocked, Stalemate, LegalPlacement

(* The order of turns and the shape of the clock are what validation asks, *)
(* but for a clock without time.                                           *)
LEMMA TurnAndTimerRefusals ==
  ASSUME TInv, ClockInv, TurnBounds, ReadyIsFresh
  PROVE  ValidTurnAndTimer <=> ~ClockWithoutTime
<1>1. /\ timer.duration \in Nat /\ timer.left \in Nat /\ turn \in Int
      /\ timer.paused \in BOOLEAN
  BY DEF TInv, TypeOK, ControlTypeOK, Timers
<1>2. ValidTimerShape <=> ~(timer.paused /\ timer.left > timer.duration)
  BY <1>1 DEF ValidTimerShape, ClockInv
<1>3. (timer.duration > 0 <=> phase \in {"BAN", "PICK", "WAITING_FOR_RESULT", "TB_PREPARATION"})
        <=> ~(/\ phase \in {"BAN", "PICK", "WAITING_FOR_RESULT", "TB_PREPARATION"}
              /\ timer.duration = 0)
  BY <1>1 DEF ClockInv
<1>4. /\ phase = "NONE" =>
           /\ lifecycle = "READY" => turn = 0
           /\ lifecycle = "ADJUDICATION_REQUIRED" => turn >= 1
           /\ lifecycle \in {"FINISHED", "ABORTED"} => turn >= -3
      /\ phase = "BAN" => turn \in -3..0 /\ active = BanTeam(turn)
      /\ phase \in {"PICK", "WAITING_FOR_RESULT"} => turn >= 1 /\ active = PickTeam(turn)
      /\ phase \in {"TB_PREPARATION", "TB_PLAYING"} => turn >= 1
  BY DEF TurnBounds, ReadyIsFresh, TInv, TurnOrder
<1>5. QED
  BY <1>2, <1>3, <1>4 DEF ValidTurnAndTimer, ClockWithoutTime

(* A piece without an owner is the pending one, or was left by the end. *)
LEMMA PendingPieceRefusals ==
  ASSUME TInv, OneResultAwaited, ReadyIsFresh, SettledAdjudication
  PROVE  ValidPendingPiece <=> ~PieceLeftWaiting
<1> DEFINE waiting == {c \in Cells : board[c].outcome = "WAITING_RESULT"}
<1>1. pendingPiece # NoCell <=> phase = "WAITING_FOR_RESULT"
  BY DEF OneResultAwaited
<1>2. lifecycle \in Lifecycles /\ (Ongoing <=> phase # "NONE")
  BY DEF TInv, TypeOK, ControlTypeOK, TurnOrder
<1>3. CASE Ongoing
  <2>1. waiting = IF phase = "WAITING_FOR_RESULT" THEN {pendingPiece} ELSE {}
    BY <1>3 DEF OneResultAwaited
  <2>2. ValidPendingPiece
    BY <1>1, <2>1 DEF ValidPendingPiece
  <2>3. QED
    BY <1>3, <2>2 DEF PieceLeftWaiting, Ongoing
<1>4. CASE lifecycle \in {"READY", "ADJUDICATION_REQUIRED"}
  <2>1. waiting = {}
    BY <1>4, NewBoardIsEmpty DEF ReadyIsFresh, SettledAdjudication
  <2>2. QED
    BY <1>1, <1>2, <1>4, <2>1 DEF ValidPendingPiece, PieceLeftWaiting, Ongoing
<1>5. CASE lifecycle \in {"FINISHED", "ABORTED"}
  BY <1>1, <1>2, <1>5 DEF ValidPendingPiece, PieceLeftWaiting, Ongoing
<1>6. QED
  BY <1>2, <1>3, <1>4, <1>5 DEF Lifecycles, Ongoing

(* A request outlives only the pick it was made in, by the wait for a result. *)
LEMMA PendingRequestRefusals ==
  ASSUME RequestIsCurrent
  PROVE  ValidPendingRequest <=> ~RequestBesideResult
  BY DEF RequestIsCurrent, ValidPendingRequest, RequestBesideResult, Ongoing, InTBWindow

(* Pool and board are always storable. *)
LEMMA MaterialIsValid ==
  ASSUME TInv, BoardMatchesPool
  PROVE  ValidPool /\ ValidBoard
<1>1. board \in [Cells -> Pieces]
  BY DEF TInv, TypeOK, MaterialTypeOK
<1>2. ValidPool
  BY DEF BoardMatchesPool, ValidPool
<1>3. ASSUME NEW c \in Cells, ~Empty(board, c)
      PROVE  ValidPiece(board[c]) /\ slots[board[c].slot] = "SELECTED"
  <2>1. board[c].slot \in Slots
    BY <1>1, <1>3 DEF BoardMatchesPool, Pieces
  <2>2. /\ board[c].outcome \in Outcomes
        /\ board[c].owner \in Teams \cup {NoTeam}
    BY <1>1, <1>3 DEF Pieces, Empty
  <2>3. ValidPiece(board[c])
    BY <2>2 DEF BoardMatchesPool, ValidPiece, Outcomes
  <2>4. QED
    BY <2>1, <2>3 DEF BoardMatchesPool
<1>4. \A c, d \in Cells :
        ~Empty(board, c) /\ board[c].slot = board[d].slot => c = d
  BY DEF BoardMatchesPool
<1>5. QED
  BY <1>2, <1>3, <1>4 DEF ValidBoard

(* So is the lifecycle with all that belongs to it. *)
LEMMA LifecycleIsValid ==
  ASSUME TInv, HeldInv, ReadyIsFresh, VerdictRecorded
  PROVE  ValidLifecycle
<1>1. /\ Ongoing <=> phase # "NONE"
      /\ active \in Teams <=> phase \in {"BAN", "PICK", "WAITING_FOR_RESULT"}
      /\ Ongoing \/ active = NoTeam
  BY OrderedTeams DEF TInv, TurnOrder, Teams, NoTeam
<1>2. suspension.held <=> lifecycle = "SUSPENDED"
  BY DEF HeldInv, NoSuspension
<1>3. QED
  BY <1>1, <1>2 DEF ValidLifecycle, ValidActivePhase, HeldInv, ReadyIsFresh, VerdictRecorded,
                    Ongoing

(* So is the entry into the tiebreaker, forced entries included. *)
LEMMA TBEntryIsValid ==
  ASSUME TInv, PlayInv
  PROVE  ValidTBEntry
<1> USE DEF PlayInv, EvidenceSupportsOutcome
<1>1. tbEntry = "NONE" =>
        /\ phase \notin {"TB_PREPARATION", "TB_PLAYING"}
        /\ Ongoing /\ phase = "PICK" => ~ForcedTBRequirementsMet(board, turn, robberyUsed)
  BY DEF EntrySupported, ForcedTBNotMissed
<1>2. ASSUME tbEntry # "NONE"
      PROVE  /\ pendingTB = NoTeam
             /\ lifecycle \notin {"READY", "ADJUDICATION_REQUIRED"}
             /\ Ongoing => phase \in {"TB_PREPARATION", "TB_PLAYING"}
  <2>1. lifecycle \notin {"READY", "ADJUDICATION_REQUIRED"}
    BY <1>2 DEF EntrySupported, VerdictRecorded, StalemateSupported
  <2>2. Ongoing => phase \in {"TB_PREPARATION", "TB_PLAYING"}
    BY <1>2 DEF TInv, TypeOK, ControlTypeOK, Phases, TurnOrder, EntrySupported
  <2>3. QED
    BY <1>2, <2>1, <2>2 DEF RequestIsCurrent
<1>3. QED
  BY <1>1, <1>2 DEF ValidTBEntry, EntrySupported, InTBWindow, Ongoing

(* So are the verdicts. *)
LEMMA VerdictIsValid ==
  ASSUME TInv, EvidenceSupportsOutcome, ResultShape
  PROVE  ValidAdjudication /\ ValidResult
<1> USE DEF EvidenceSupportsOutcome
<1>1. /\ result \in Results
      /\ stalemate \in [red : Nat \cup {-1}, blue : Nat \cup {-1}]
  BY DEF TInv, TypeOK, ControlTypeOK
<1>2. \A t : WonCount(board, t) = Cardinality(Alive(t)) /\ Alive(t) = Won(board, t)
  BY DEF WonCount, Won, Alive
<1>3. ValidAdjudication
  <2>1. ASSUME lifecycle = "ADJUDICATION_REQUIRED"
        PROVE  /\ stalemate.red = stalemate.blue
               /\ Stalemate(board, slots)
               /\ stalemate = Counts
    <3>1. /\ Blocked /\ stalemate.red = stalemate.blue
          /\ stalemate.red = WonCount(board, "RED") /\ stalemate.blue = WonCount(board, "BLUE")
      BY <1>2, <2>1 DEF VerdictRecorded, StalemateSupported
    <3>2. stalemate = Counts
      BY <1>1, <3>1 DEF Counts
    <3>3. QED
      BY <3>1, <3>2, BlockedIsStalemate
  <2>2. QED
    BY <2>1 DEF ValidAdjudication
<1>4. ASSUME lifecycle = "FINISHED"
      PROVE  result.winner \in Teams /\ result.reason # "NONE"
  BY <1>4 DEF VerdictRecorded
<1>5. ASSUME result.reason = "FOUR_ALIGNMENT"
      PROVE  /\ result.red = 0 /\ result.blue = 0 /\ result.confirmers = {}
             /\ tbEntry = "NONE" /\ HasFour(board, result.winner)
  <2>1. PICK L \in Lines[4] : L \subseteq Won(board, result.winner)
    BY <1>2, <1>5 DEF ResultSupported
  <2>2. HasFour(board, result.winner)
    BY <2>1 DEF HasFour, Alignments
  <2>3. QED
    BY <1>5, <2>2 DEF ResultShape, ResultSupported
<1>6. ASSUME result.reason = "SURRENDER"
      PROVE  /\ result.red = 0 /\ result.blue = 0
             /\ SurrenderEvidence(Opponent(result.winner), result.confirmers)
  BY <1>6 DEF ResultShape, ResultSupported, SurrenderEvidence
<1>7. ASSUME result.reason = "TB"
      PROVE  /\ result.red = 0 /\ result.blue = 0 /\ result.confirmers = {}
             /\ tbEntry # "NONE"
  BY <1>7 DEF ResultShape, ResultSupported
<1>8. ASSUME result.reason = "STALEMATE_WON_COUNT", result.winner \in Teams
      PROVE  /\ result.confirmers = {} /\ tbEntry = "NONE"
             /\ result.red # result.blue
             /\ result.red > result.blue <=> result.winner = "RED"
             /\ Stalemate(board, slots)
             /\ [red |-> result.red, blue |-> result.blue] = Counts
  <2>1. /\ result.confirmers = {} /\ tbEntry = "NONE" /\ Blocked
        /\ result.red = WonCount(board, "RED") /\ result.blue = WonCount(board, "BLUE")
        /\ result.winner = "RED" => result.red > result.blue
        /\ result.winner = "BLUE" => result.blue > result.red
    BY <1>2, <1>8 DEF ResultShape, ResultSupported
  <2>2. result.red \in Nat /\ result.blue \in Nat
    BY <1>1 DEF Results
  <2>3. QED
    BY <1>8, <2>1, <2>2, BlockedIsStalemate DEF Counts, Teams
<1>9. ValidResult
  <2> SUFFICES ASSUME lifecycle = "FINISHED" PROVE ValidResult
    BY DEF ValidResult
  <2>1. QED
    BY <1>4, <1>5, <1>6, <1>7, <1>8 DEF ValidResult
<1>10. QED
  BY <1>3, <1>9

(* What holds of every state of a match, and decides what can be stored. *)
StateInv == SafetyInv /\ RecordInv /\ SettledAdjudication

LEMMA StateInvHolds == Spec => []StateInv
<1>1. Init => StateInv
  BY SafetyInit, RecordInit DEF Init, StateInv, SettledAdjudication
<1>2. StateInv /\ [Next]_vars => StateInv'
  <2> SUFFICES ASSUME StateInv, [Next]_vars PROVE StateInv'
    OBVIOUS
  <2>1. TInv /\ OneResultAwaited
    BY DEF StateInv, SafetyInv, PlayInv
  <2>2. QED
    BY <2>1, SafetyStep, RecordStep, SettledStep DEF StateInv
<1>3. QED
  BY <1>1, <1>2, PTL DEF Spec

LEMMA RefusalsOfState == StateInv => OnlyKnownRefusals
<1> SUFFICES ASSUME StateInv PROVE OnlyKnownRefusals
  OBVIOUS
<1> USE DEF StateInv, SafetyInv, PlayInv, RecordInv
<1>1. ValidTurnAndTimer <=> ~ClockWithoutTime
  BY TurnAndTimerRefusals
<1>2. ValidPendingPiece <=> ~PieceLeftWaiting
  BY PendingPieceRefusals
<1>3. ValidPendingRequest <=> ~RequestBesideResult
  BY PendingRequestRefusals
<1>4. ValidPool /\ ValidBoard
  BY MaterialIsValid
<1>5. ValidLifecycle /\ ValidTBEntry
  BY LifecycleIsValid, TBEntryIsValid DEF EvidenceSupportsOutcome
<1>6. ValidAdjudication /\ ValidResult
  BY VerdictIsValid
<1>7. QED
  BY <1>1, <1>2, <1>3, <1>4, <1>5, <1>6 DEF OnlyKnownRefusals

(* Validation agrees with the commands: every part of it holds in every      *)
(* state of a match, but for the three known refusals, each the work of one  *)
(* part.  The safety of the engine, what clock, suspension and verdict       *)
(* record, and that adjudication begins with no result awaited carry it.     *)
THEOREM ValidationRefusals == Spec => []OnlyKnownRefusals
  BY StateInvHolds, RefusalsOfState, PTL

-----------------------------------------------------------------------------
(* The commands whose result is refused *)

LEMMA Storable ==
  ASSUME StateInv
  PROVE  ValidateState <=> ~ClockWithoutTime /\ ~PieceLeftWaiting /\ ~RequestBesideResult
  BY RefusalsOfState DEF OnlyKnownRefusals, ValidateState

(* A window of the configuration, just opened or frozen at once. *)
Fresh(t) ==
  \E w \in Windows, ago \in Nat :
    t = Started(Window[w], ago) \/ t = Pause(Started(Window[w], ago))

(* The window is closed or another one opened. *)
ClockRenewed ==
  \/ timer' = NoTimer /\ phase' \in {"NONE", "TB_PLAYING"}
  \/ Fresh(timer')

(* What a command that is not about the clock does to it. *)
ClockMoves == UNCHANGED <<timer, phase>> \/ ClockRenewed

(* A window that was just opened or frozen has time. *)
LEMMA FreshHasTime ==
  ASSUME NEW t, Fresh(t)
  PROVE  t.duration > 0 /\ (t.paused => t.left <= t.duration)
<1>1. PICK w \in Windows, ago \in Nat :
        t = Started(Window[w], ago) \/ t = Pause(Started(Window[w], ago))
  BY DEF Fresh
<1>2. Window[w] \in Nat /\ Window[w] > 0
  BY ConfigurationAssumption
<1> DEFINE new == Started(Window[w], ago)
<1>3. new.duration = Window[w] /\ ~new.paused /\ Remaining(new) <= Window[w]
  BY <1>2 DEF Remaining, Started
<1>4. Pause(new).duration = Window[w] /\ Pause(new).left = Remaining(new)
  BY DEF Pause, Started
<1>5. QED
  BY <1>1, <1>2, <1>3, <1>4

LEMMA RenewedHasTime ==
  ASSUME timer' \in Timers, ClockRenewed
  PROVE  ~ClockWithoutTime'
<1>1. timer'.duration \in Int /\ timer'.left \in Int
  BY DEF Timers
<1>2. CASE timer' = NoTimer /\ phase' \in {"NONE", "TB_PLAYING"}
  BY <1>2 DEF ClockWithoutTime, NoTimer
<1>3. CASE Fresh(timer')
  <2>1. timer'.duration > 0 /\ (timer'.paused => timer'.left <= timer'.duration)
    BY <1>3, FreshHasTime
  <2>2. QED
    BY <1>1, <2>1 DEF ClockWithoutTime
<1>4. QED
  BY <1>2, <1>3 DEF ClockRenewed

LEMMA GoOnClock ==
  ASSUME NEW frozen \in BOOLEAN, NEW w \in Windows, NEW ago \in Nat,
         GoOn(frozen, Started(Window[w], ago))
  PROVE  Fresh(timer')
  BY DEF GoOn, Fresh

LEMMA EnterPickClock ==
  ASSUME NEW b, NEW sl, NEW n, NEW frozen \in BOOLEAN, NEW ago \in Nat,
         EnterPickOrTerminal(b, sl, n, frozen, ago)
  PROVE  ClockRenewed
<1>1. CASE StartForcedTBPreparation(frozen, ago)
  BY <1>1, GoOnClock DEF StartForcedTBPreparation, ClockRenewed, Windows
<1>2. CASE GoOn(frozen, Started(Window["PICK"], ago))
  BY <1>2, GoOnClock DEF ClockRenewed, Windows
<1>3. CASE timer' = NoTimer /\ phase' = "NONE"
  BY <1>3 DEF ClockRenewed
<1>4. QED
  BY <1>1, <1>2, <1>3 DEF EnterPickOrTerminal, Finish

LEMMA AdvanceBanClock ==
  ASSUME NEW sl, NEW frozen \in BOOLEAN, NEW ago \in Nat, AdvanceBan(sl, frozen, ago)
  PROVE  ClockRenewed
<1>1. CASE GoOn(frozen, Started(Window["BAN"], ago))
  BY <1>1, GoOnClock DEF ClockRenewed, Windows
<1>2. QED
  BY <1>1, EnterPickClock DEF AdvanceBan

LEMMA PlayClock ==
  ASSUME NEW ago \in Nat,
         \/ \E s \in Slots : BanPoolSlot(s, ago)
         \/ \E s \in Slots, c \in Cells : PlacePiece(s, c, ago)
         \/ \E c \in Cells : PlaceShiro(c, ago)
         \/ \E c \in Cells : \E plan : RobPiece(c, plan, ago)
  PROVE  ClockMoves
<1>1. CASE \E s \in Slots : BanPoolSlot(s, ago)
  BY <1>1, AdvanceBanClock DEF BanPoolSlot, ClockMoves
<1>2. CASE \E s \in Slots, c \in Cells : PlacePiece(s, c, ago)
  <2>1. timer' = Started(Window["RESULT"], ago) /\ "RESULT" \in Windows
    BY <1>2 DEF PlacePiece, MayPlace, Windows
  <2>2. QED
    BY <2>1 DEF ClockMoves, ClockRenewed, Fresh
<1>3. CASE \E c \in Cells : PlaceShiro(c, ago)
  BY <1>3, EnterPickClock DEF PlaceShiro, ClockMoves
<1>4. ASSUME NEW c \in Cells, NEW plan, RobPiece(c, plan, ago)
      PROVE  ClockMoves
  <2>1. CASE StartForcedTBPreparation(FALSE, ago)
    BY <2>1, GoOnClock DEF StartForcedTBPreparation, ClockMoves, ClockRenewed, Windows
  <2>2. QED
    BY <1>4, <2>1 DEF RobPiece, MayRob, Finish, ClockMoves, ClockRenewed
<1>5. QED
  BY <1>1, <1>2, <1>3, <1>4

(* Four commands are about the clock, and so is the passing of time. *)
LEMMA ClockCommands ==
  ASSUME TInv, Next
  PROVE  \/ ClockMoves
         \/ \E r \in CalibrateTo : CalibrateTimer(r)
         \/ PauseTimer \/ SuspendMatch
         \/ ResumeTimer \/ ResumeMatch
         \/ Tick
<1>1. CASE StrategistPlays
  BY <1>1, PlayClock, ConfigurationAssumption DEF StrategistPlays
<1>2. CASE RefereeProxies
  <2>1. ProxyAge \in Nat
    BY DEF ProxyAge, TInv, TypeOK, ControlTypeOK, Timers
  <2>2. QED
    BY <1>2, <2>1, PlayClock, ConfigurationAssumption DEF RefereeProxies
<1>3. CASE Confirms
  <2>1. ASSUME NEW t, ConfirmBeatmapResult(t) PROVE ClockMoves
    BY <2>1, EnterPickClock DEF ConfirmBeatmapResult, MayConfirm, Finish, ClockMoves, ClockRenewed
  <2>2. ASSUME NEW t, ConfirmTBResult(t) PROVE ClockMoves
    BY <2>2 DEF ConfirmTBResult, MayConfirmTB, Finish, ClockMoves, ClockRenewed
  <2>3. QED
    BY <1>3, <2>1, <2>2 DEF Confirms
<1>4. CASE AgreesOnTB
  <2>1. "TB_PREPARATION" \in Windows
    BY DEF Windows
  <2>2. QED
    BY <1>4, <2>1 DEF AgreesOnTB, RequestTB, MayRequestTB, CaptainsMayAct, RespondTBRequest,
                      MayRespond, StartTB, MayStartTB, ClockMoves, ClockRenewed, Fresh
<1>5. CASE StartMatch
  <2>1. timer' = Started(Window["BAN"], 0) /\ "BAN" \in Windows
    BY <1>5 DEF StartMatch, MayStart, Windows
  <2>2. QED
    BY <2>1 DEF ClockMoves, ClockRenewed, Fresh
<1>6. CASE GrantAdditionalTime
  <2>1. PICK w \in Windows : timer' = Started(Window[w], 0)
    BY <1>6 DEF GrantAdditionalTime, MayGrant, AdditionalWindow, Windows
  <2>2. QED
    BY <2>1 DEF ClockMoves, ClockRenewed, Fresh
<1>7. CASE SkipCurrentAction
  BY <1>7, AdvanceBanClock, EnterPickClock DEF SkipCurrentAction, MaySkip, ClockMoves
<1>8. CASE AbortMatch \/ \E t, ids : RecordSurrender(t, ids)
  BY <1>8 DEF AbortMatch, MayAbort, RecordSurrender, MaySurrender, Finish, ClockMoves, ClockRenewed
<1>9. QED
  BY <1>1, <1>2, <1>3, <1>4, <1>5, <1>6, <1>7, <1>8 DEF Next, Executes, Administers

(* A calibration to nothing, or beyond a frozen window. *)
CalibratedAway ==
  \E r \in CalibrateTo :
    CalibrateTimer(r) /\ IF timer.paused THEN r > timer.duration ELSE r = 0

(* A clock that runs again with nothing left. *)
ResumedEmpty ==
  /\ ResumeTimer \/ ResumeMatch
  /\ timer.paused /\ timer.left = 0 /\ ~timer'.paused

(* Only calibrating and resuming can leave a clock without time. *)
LEMMA ClockRefusal ==
  ASSUME TInv, RecordInv, ~ClockWithoutTime, [Next]_vars
  PROVE  ClockWithoutTime' <=> CalibratedAway \/ ResumedEmpty
<1> DEFINE timed == {"BAN", "PICK", "WAITING_FOR_RESULT", "TB_PREPARATION"}
<1>1. /\ timer \in Timers /\ timer.duration \in Nat /\ timer.left \in Nat
      /\ timer.elapsed \in Nat /\ timer.paused \in BOOLEAN
      /\ ClockInv /\ HeldInv
  BY DEF TInv, TypeOK, ControlTypeOK, Timers, RecordInv
<1>2. ASSUME NEW r \in CalibrateTo, CalibrateTimer(r)
      PROVE  ClockWithoutTime' <=> IF timer.paused THEN r > timer.duration ELSE r = 0
  <2>1. phase' = phase /\ HasTimer(timer) /\ r \in Nat
    BY <1>2, ConfigurationAssumption DEF CalibrateTimer, MayCalibrate, matchVars
  <2>2. timer.duration > 0 /\ phase \in timed
    BY <1>1, <2>1 DEF HasTimer, ClockInv
  <2>3. CASE timer.paused
    <3>1. timer' = [timer EXCEPT !.left = r]
      BY <1>2, <2>3 DEF CalibrateTimer, MayCalibrate
    <3>2. timer'.duration = timer.duration /\ timer'.paused /\ timer'.left = r
      BY <1>1, <2>3, <3>1 DEF Timers
    <3>3. QED
      BY <1>1, <2>1, <2>2, <2>3, <3>2 DEF ClockWithoutTime
  <2>4. CASE ~timer.paused
    <3>1. timer'.duration = r /\ ~timer'.paused
      BY <1>2, <2>4 DEF CalibrateTimer, MayCalibrate, Started
    <3>2. QED
      BY <2>1, <2>2, <2>4, <3>1 DEF ClockWithoutTime
  <2>5. QED
    BY <2>3, <2>4
<1>3. ASSUME timer.paused, timer' = Resume(timer), phase' = phase
      PROVE  ClockWithoutTime' <=> timer.left = 0
  <2>1. phase \in timed
    BY <1>1, <1>3 DEF ClockInv
  <2>2. timer'.duration = timer.left /\ ~timer'.paused
    BY <1>3 DEF Resume, Started
  <2>3. QED
    BY <1>3, <2>1, <2>2 DEF ClockWithoutTime
<1>4. CalibratedAway => ClockWithoutTime'
  BY <1>2 DEF CalibratedAway
<1>5. ResumedEmpty => ClockWithoutTime'
  BY <1>3 DEF ResumedEmpty, ResumeTimer, MayResumeTimer, ResumeMatch, MayResume, matchVars
<1>6. timer' \in Timers /\ timer'.duration \in Nat /\ timer'.left \in Nat
  BY TypesStep DEF TInv, TypeOK, ControlTypeOK, Timers
<1>7. CASE ClockMoves
  <2>1. ~ClockWithoutTime'
    BY <1>6, <1>7, RenewedHasTime DEF ClockMoves, ClockWithoutTime
  <2>2. QED
    BY <1>4, <1>5, <2>1
<1>8. CASE PauseTimer \/ SuspendMatch
  <2>1. phase' = phase
    BY <1>8 DEF PauseTimer, MayPause, SuspendMatch, MaySuspend, matchVars
  <2>2. CASE timer' = Pause(timer) /\ ~timer.paused
    <3>1. timer'.duration = timer.duration /\ timer'.left = Remaining(timer)
      BY <1>1, <2>2 DEF Pause, Timers
    <3>2. Remaining(timer) \in Nat /\ Remaining(timer) <= timer.duration
      BY <1>1, <2>2 DEF Remaining
    <3>3. QED
      BY <1>1, <1>4, <1>5, <2>1, <3>1, <3>2 DEF ClockWithoutTime
  <2>3. CASE timer' = timer
    BY <1>4, <1>5, <2>1, <2>3 DEF ClockWithoutTime
  <2>4. QED
    BY <1>8, <2>2, <2>3 DEF PauseTimer, MayPause, SuspendMatch, MaySuspend
<1>9. CASE ResumeTimer \/ ResumeMatch
  <2>1. phase' = phase
    BY <1>9 DEF ResumeTimer, MayResumeTimer, ResumeMatch, MayResume, matchVars
  <2>2. CASE timer' = timer
    BY <1>4, <1>5, <2>1, <2>2 DEF ClockWithoutTime
  <2>3. CASE timer' = Resume(timer) /\ timer.paused
    <3>1. ~timer'.paused
      BY <2>3 DEF Resume, Started
    <3>2. QED
      BY <1>3, <1>4, <1>5, <1>9, <2>1, <2>3, <3>1 DEF ResumedEmpty
  <2>4. timer' = timer \/ timer' = Resume(timer)
    BY <1>9 DEF ResumeTimer, MayResumeTimer, ResumeMatch, MayResume
  <2>5. timer' = timer \/ timer.paused
    BY <1>1, <1>9 DEF ResumeTimer, MayResumeTimer, ResumeMatch, MayResume, HeldInv
  <2>6. QED
    BY <2>2, <2>3, <2>4, <2>5
<1>10. CASE Tick
  <2>1. /\ timer'.duration = timer.duration /\ timer'.paused = timer.paused
        /\ timer'.left = timer.left /\ phase' = phase
    BY <1>1, <1>10 DEF Tick, matchVars, Timers
  <2>2. QED
    BY <1>4, <1>5, <2>1 DEF ClockWithoutTime
<1>11. CASE UNCHANGED vars
  BY <1>4, <1>5, <1>11 DEF ClockWithoutTime, vars, matchVars
<1>12. QED
  BY <1>2, <1>4, <1>5, <1>7, <1>8, <1>9, <1>10, <1>11, ClockCommands DEF CalibratedAway

(* No turn that opens or is passed over aborts a match or gives it up. *)
NotCutOff ==
  /\ lifecycle' = "ABORTED" => lifecycle = "ABORTED"
  /\ result'.reason = "SURRENDER" => result.reason = "SURRENDER"

LEMMA EnterPickEnds ==
  ASSUME NEW b, NEW sl, NEW n, NEW frozen \in BOOLEAN, NEW ago,
         EnterPickOrTerminal(b, sl, n, frozen, ago)
  PROVE  NotCutOff
  BY DEF NotCutOff, EnterPickOrTerminal, StartForcedTBPreparation, GoOn, Finish

LEMMA AdvanceBanEnds ==
  ASSUME NEW sl, NEW frozen \in BOOLEAN, NEW ago, AdvanceBan(sl, frozen, ago)
  PROVE  NotCutOff
  BY EnterPickEnds DEF AdvanceBan, GoOn, NotCutOff

LEMMA ConfirmEnds ==
  ASSUME NEW t \in Teams, ConfirmBeatmapResult(t)
  PROVE  NotCutOff
<1> DEFINE b == SetOwner(board, pendingPiece, t)
<1>1. CASE EnterPickOrTerminal(b, slots, turn + 1, FALSE, 0)
  BY <1>1, EnterPickEnds
<1>2. CASE Finish(Decided("FOUR_ALIGNMENT", t, {}))
  BY <1>2 DEF Finish, Decided, NotCutOff
<1>3. QED
  BY <1>1, <1>2 DEF ConfirmBeatmapResult

(* How else a match ends: by a result, by a robbery, or blocked. *)
LEMMA EndsOtherwise ==
  ASSUME Next, ~AbortMatch, \A t, ids : ~RecordSurrender(t, ids)
  PROVE  /\ NotCutOff
         /\ phase = "WAITING_FOR_RESULT" /\ lifecycle' = "FINISHED" =>
              lifecycle = "FINISHED" \/ \E t \in Teams : ConfirmBeatmapResult(t)
<1>1. ASSUME NEW s, NEW ago, BanPoolSlot(s, ago)
      PROVE  NotCutOff /\ phase # "WAITING_FOR_RESULT"
  BY <1>1, AdvanceBanEnds DEF BanPoolSlot, MayBan, Running
<1>2. ASSUME NEW s, NEW c, NEW ago, PlacePiece(s, c, ago)
      PROVE  NotCutOff /\ phase # "WAITING_FOR_RESULT"
  BY <1>2 DEF PlacePiece, MayPlace, Running, NotCutOff
<1>3. ASSUME NEW c, NEW ago, PlaceShiro(c, ago)
      PROVE  NotCutOff /\ phase # "WAITING_FOR_RESULT"
  BY <1>3, EnterPickEnds DEF PlaceShiro, MayPlaceShiro, Running
<1>4. ASSUME NEW c, NEW plan, NEW ago, RobPiece(c, plan, ago)
      PROVE  NotCutOff /\ phase # "WAITING_FOR_RESULT"
  BY <1>4 DEF RobPiece, MayRob, Running, Finish, Decided, StartForcedTBPreparation, GoOn,
              NotCutOff
<1>5. CASE StrategistPlays \/ RefereeProxies
  BY <1>1, <1>2, <1>3, <1>4, <1>5 DEF StrategistPlays, RefereeProxies
<1>6. CASE Confirms
  <2>1. ASSUME NEW t \in Teams, ConfirmTBResult(t)
        PROVE  NotCutOff /\ phase # "WAITING_FOR_RESULT"
    BY <2>1 DEF ConfirmTBResult, MayConfirmTB, Finish, Decided, Running, NotCutOff
  <2>2. QED
    BY <1>6, <2>1, ConfirmEnds DEF Confirms
<1>7. CASE AgreesOnTB \/ Tick
  BY <1>7 DEF AgreesOnTB, RequestTB, MayRequestTB, CaptainsMayAct, RespondTBRequest, MayRespond,
              StartTB, MayStartTB, Tick, matchVars, NotCutOff
<1>8. CASE SkipCurrentAction
  BY <1>8, EnterPickEnds, AdvanceBanEnds DEF SkipCurrentAction, MaySkip
<1>9. CASE \/ StartMatch \/ GrantAdditionalTime \/ PauseTimer \/ ResumeTimer \/ SuspendMatch
           \/ ResumeMatch \/ \E r : CalibrateTimer(r)
  BY <1>9 DEF StartMatch, MayStart, GrantAdditionalTime, MayGrant, PauseTimer, MayPause,
              ResumeTimer, MayResumeTimer, SuspendMatch, MaySuspend, ResumeMatch, MayResume,
              CalibrateTimer, MayCalibrate, matchVars, NotCutOff
<1>10. QED
  BY <1>5, <1>6, <1>7, <1>8, <1>9 DEF Next, Executes, Administers

(* A match ended by its referee or by a surrender while a result is awaited. *)
CutOff ==
  /\ phase = "WAITING_FOR_RESULT"
  /\ lifecycle' = "ABORTED" \/ result'.reason = "SURRENDER"

(* Only that leaves a piece waiting for ever. *)
LEMMA PieceRefusal ==
  ASSUME StateInv, ~PieceLeftWaiting, Next
  PROVE  PieceLeftWaiting' <=> CutOff
<1> DEFINE waits(x) == board[x].outcome = "WAITING_RESULT"
<1>1. /\ TInv /\ OneResultAwaited /\ EvidenceSupportsOutcome
      /\ board \in [Cells -> Pieces] /\ pendingPiece \in Cells \cup {NoCell}
  BY DEF StateInv, SafetyInv, PlayInv, TInv, TypeOK, MaterialTypeOK, ControlTypeOK
<1>2. /\ phase = "WAITING_FOR_RESULT" =>
           Ongoing /\ pendingPiece \in Cells /\ \A x \in Cells : waits(x) <=> x = pendingPiece
      /\ phase # "WAITING_FOR_RESULT" => \A x \in Cells : ~waits(x)
  <2>1. ValidPendingPiece
    BY PendingPieceRefusals DEF StateInv, SafetyInv, PlayInv
  <2>2. phase = "WAITING_FOR_RESULT" => Ongoing
    BY <1>1 DEF TInv, TurnOrder
  <2>3. QED
    BY <1>1, <2>1, <2>2 DEF ValidPendingPiece
<1>3. CASE AbortMatch \/ \E t, ids : RecordSurrender(t, ids)
  <2>1. /\ board' = board /\ lifecycle' \in {"FINISHED", "ABORTED"}
        /\ lifecycle' = "ABORTED" \/ result'.reason = "SURRENDER"
    BY <1>3 DEF AbortMatch, MayAbort, RecordSurrender, MaySurrender, Finish, Decided
  <2>2. QED
    BY <1>2, <2>1 DEF PieceLeftWaiting, CutOff
<1>4. ASSUME ~AbortMatch, \A t, ids : ~RecordSurrender(t, ids)
      PROVE  ~CutOff /\ ~PieceLeftWaiting'
  <2>1. ~CutOff
    <3>1. phase = "WAITING_FOR_RESULT" => lifecycle # "ABORTED" /\ result.reason = "NONE"
      BY <1>1, <1>2, UndecidedPlay DEF Ongoing
    <3>2. QED
      BY <1>4, <3>1, EndsOtherwise DEF CutOff, NotCutOff
  <2>2. ASSUME lifecycle' \in {"FINISHED", "ABORTED"}, NEW x \in Cells,
               board'[x].outcome = "WAITING_RESULT"
        PROVE  FALSE
    <3>1. ASSUME NEW t \in Teams, ConfirmBeatmapResult(t)
          PROVE  FALSE
      <4>1. board' = SetOwner(board, pendingPiece, t) /\ pendingPiece \in Cells
        BY <1>1, <3>1 DEF ConfirmBeatmapResult, MayConfirm
      <4>2. CASE x = pendingPiece
        BY <1>1, <2>2, <4>1, <4>2, SetOwnerPieces
      <4>3. CASE x # pendingPiece
        BY <1>1, <1>2, <2>2, <3>1, <4>1, <4>3, SetOwnerPieces DEF ConfirmBeatmapResult,
                                                                  MayConfirm, Running
      <4>4. QED
        BY <4>2, <4>3
    <3>2. CASE board' = board
      <4>1. waits(x) /\ phase = "WAITING_FOR_RESULT" /\ Ongoing
        BY <1>2, <2>2, <3>2
      <4>2. lifecycle' = "FINISHED" /\ lifecycle # "FINISHED"
        BY <1>4, <2>2, <4>1, EndsOtherwise DEF Ongoing, NotCutOff
      <4>3. QED
        BY <1>4, <3>1, <4>1, <4>2, EndsOtherwise
    <3>3. ASSUME NEW s \in Slots, NEW c \in Cells, NEW ago, PlacePiece(s, c, ago)
          PROVE  FALSE
      BY <2>2, <3>3 DEF PlacePiece, MayPlace, Running
    <3>4. ASSUME NEW c \in Cells, NEW ago, PlaceShiro(c, ago)
          PROVE  FALSE
      BY <1>1, <1>2, <2>2, <3>4 DEF PlaceShiro, MayPlaceShiro, ShiroLeft, Running, Place
    <3>5. ASSUME NEW c \in Cells, NEW plan, NEW ago, RobPiece(c, plan, ago)
          PROVE  FALSE
      <4>1. ~waits(x) /\ board' = AfterRobbery(board, active, c, UNION plan)
        BY <1>2, <3>5 DEF RobPiece, MayRob, Running
      <4>2. QED
        BY <1>1, <2>2, <4>1 DEF AfterRobbery, Pieces
    <3>6. QED
      BY <3>1, <3>2, <3>3, <3>4, <3>5, BoardChanges
  <2>3. QED
    BY <2>1, <2>2 DEF PieceLeftWaiting
<1>5. QED
  BY <1>3, <1>4

(* A command that leads to the wait for a result leaves the request alone. *)
LEMMA RequestRefusal ==
  ASSUME Next
  PROVE  RequestBesideResult' <=> pendingTB # NoTeam /\ phase' = "WAITING_FOR_RESULT"
<1> SUFFICES ASSUME phase' = "WAITING_FOR_RESULT" PROVE pendingTB' = pendingTB
  BY DEF RequestBesideResult
<1>1. ASSUME NEW b, NEW sl, NEW n, NEW frozen, NEW ago
      PROVE  ~EnterPickOrTerminal(b, sl, n, frozen, ago)
  BY DEF EnterPickOrTerminal, StartForcedTBPreparation, Finish
<1>2. ASSUME NEW sl, NEW frozen, NEW ago, phase = "BAN"
      PROVE  ~AdvanceBan(sl, frozen, ago)
  BY <1>1, <1>2 DEF AdvanceBan
<1>3. \A s, ago : ~BanPoolSlot(s, ago)
  BY <1>2 DEF BanPoolSlot, MayBan, Running
<1>4. \A c, ago : ~PlaceShiro(c, ago)
  BY <1>1 DEF PlaceShiro, MayPlaceShiro, ShiroLeft
<1>5. \A c, plan, ago : ~RobPiece(c, plan, ago)
  BY DEF RobPiece, MayRob, Running, Finish, StartForcedTBPreparation
<1>6. CASE StrategistPlays \/ RefereeProxies
  BY <1>3, <1>4, <1>5, <1>6 DEF StrategistPlays, RefereeProxies, PlacePiece, MayPlace
<1>7. ~Confirms
  BY <1>1 DEF Confirms, ConfirmBeatmapResult, MayConfirm, ConfirmTBResult, MayConfirmTB, Finish
<1>8. ~AgreesOnTB
  BY DEF AgreesOnTB, RequestTB, MayRequestTB, CaptainsMayAct, RespondTBRequest, MayRespond,
         StartTB, MayStartTB, Running
<1>9. ~SkipCurrentAction
  BY <1>1, <1>2 DEF SkipCurrentAction, MaySkip
<1>10. \A t, ids : ~RecordSurrender(t, ids)
  BY DEF RecordSurrender, MaySurrender, Finish
<1>11. CASE Administers
  BY <1>9, <1>10, <1>11 DEF Administers, StartMatch, MayStart, GrantAdditionalTime, MayGrant,
                            CalibrateTimer, MayCalibrate, PauseTimer, MayPause, ResumeTimer,
                            MayResumeTimer, SuspendMatch, MaySuspend, ResumeMatch, MayResume,
                            AbortMatch, MayAbort, matchVars
<1>12. CASE Tick
  BY <1>12 DEF Tick, matchVars
<1>13. QED
  BY <1>6, <1>7, <1>8, <1>11, <1>12 DEF Next, Executes

(* From a stored state, the validation rolls back a piece placed beside an   *)
(* open request, an end that cuts off a result, and a clock calibrated or    *)
(* resumed to no time; every other accepted command can be stored.           *)
THEOREM RefusedCommands == Spec => RefusalsAreKnown
<1>1. StateInv /\ StateInv' /\ [Next]_vars => [ValidateState => (ValidateState' <=> ~Refused)]_vars
  <2> SUFFICES ASSUME StateInv, StateInv', Next, ValidateState
               PROVE  ValidateState' <=> ~Refused
    OBVIOUS
  <2>1. ~ClockWithoutTime /\ ~PieceLeftWaiting /\ ~RequestBesideResult
    BY Storable
  <2>2. ValidateState' <=> ~(ClockWithoutTime' \/ PieceLeftWaiting' \/ RequestBesideResult')
    BY RefusalsOfState, PTL DEF OnlyKnownRefusals, ValidateState
  <2>3. TInv /\ RecordInv
    BY DEF StateInv, SafetyInv
  <2>4. ClockWithoutTime' <=> CalibratedAway \/ ResumedEmpty
    BY <2>1, <2>3, ClockRefusal
  <2>5. PieceLeftWaiting' <=> CutOff
    BY <2>1, PieceRefusal
  <2>6. RequestBesideResult' <=> pendingTB # NoTeam /\ phase' = "WAITING_FOR_RESULT"
    BY RequestRefusal
  <2>7. Refused <=> \/ pendingTB # NoTeam /\ phase' = "WAITING_FOR_RESULT"
                    \/ CutOff \/ CalibratedAway \/ ResumedEmpty
    BY DEF Refused, CutOff, CalibratedAway, ResumedEmpty
  <2>8. QED
    BY <2>2, <2>4, <2>5, <2>6, <2>7
<1>2. QED
  BY <1>1, StateInvHolds, PTL DEF Spec, RefusalsAreKnown

-----------------------------------------------------------------------------
(* The stored match *)

(* Time alone spoils no state that was stored. *)
LEMMA TickIsStorable ==
  ASSUME TInv, ValidateState, Tick
  PROVE  ValidateState'
<1>1. timer \in Timers /\ UNCHANGED matchVars
  BY DEF TInv, TypeOK, ControlTypeOK, Tick
<1>2. /\ timer'.duration = timer.duration /\ timer'.paused = timer.paused
      /\ timer'.left = timer.left
  BY <1>1 DEF Tick, Timers
<1>3. ValidTurnAndTimer'
  BY <1>1, <1>2 DEF ValidateState, ValidTurnAndTimer, ValidTimerShape, matchVars
<1>4. ValidLifecycle'
  BY <1>1, <1>2 DEF ValidateState, ValidLifecycle, ValidActivePhase, HasTimer, matchVars
<1>5. QED
  BY <1>1, <1>3, <1>4 DEF matchVars, ValidateState, ValidPool, ValidBoard, ValidPendingPiece,
        ValidPendingRequest, ValidTBEntry, ValidAdjudication, ValidResult, Counts

(* The match as it is stored is a match of the engine, so all that is proved *)
(* of the engine holds of it; it is valid in every state, hence none of the  *)
(* three refused situations, reachable for the engine alone, is ever stored. *)
THEOREM StoredMatch ==
  StoredSpec => Spec /\ [](/\ ValidateState
                           /\ ~ClockWithoutTime /\ ~PieceLeftWaiting /\ ~RequestBesideResult)
<1>1. [StoredNext]_vars => [Next]_vars
  BY DEF StoredNext, Commits, Next
<1>2. StoredSpec => Spec
  BY <1>1, PTL DEF StoredSpec, Spec
<1>3. Init /\ StateInv => ValidateState
  <2> SUFFICES ASSUME Init, StateInv PROVE ValidateState
    OBVIOUS
  <2>1. ~ClockWithoutTime /\ ~PieceLeftWaiting /\ ~RequestBesideResult
    BY DEF Init, ClockWithoutTime, PieceLeftWaiting, RequestBesideResult, NoTimer
  <2>2. QED
    BY <2>1, Storable
<1>4. StateInv /\ ValidateState /\ [StoredNext]_vars => ValidateState'
  <2> SUFFICES ASSUME StateInv, ValidateState, [StoredNext]_vars PROVE ValidateState'
    OBVIOUS
  <2>1. CASE Commits
    BY <2>1 DEF Commits
  <2>2. CASE Tick
    BY <2>2, TickIsStorable DEF StateInv, SafetyInv
  <2>3. CASE UNCHANGED vars
    BY <2>3 DEF vars, matchVars, ValidateState, ValidTurnAndTimer, ValidTimerShape, ValidPool,
          ValidBoard, ValidPendingPiece, ValidLifecycle, ValidActivePhase, HasTimer,
          ValidPendingRequest, ValidTBEntry, ValidAdjudication, ValidResult, Counts
  <2>4. QED
    BY <2>1, <2>2, <2>3 DEF StoredNext
<1>5. StateInv /\ ValidateState =>
        ~ClockWithoutTime /\ ~PieceLeftWaiting /\ ~RequestBesideResult
  BY Storable
<1>6. QED
  BY <1>2, <1>3, <1>4, <1>5, StateInvHolds, PTL DEF StoredSpec

-----------------------------------------------------------------------------
(* An expired window *)

(* The steps that close a window open another one, or none, and end no match *)
(* but by a verdict.                                                         *)
LEMMA ClosingSteps ==
  ASSUME TInv, ClosesWindow
  PROVE  /\ ClockRenewed /\ NotCutOff
         /\ phase' # "WAITING_FOR_RESULT"
         /\ phase' # phase \/ turn' # turn
<1> USE DEF TInv, TypeOK, ControlTypeOK
<1>1. ASSUME NEW b, NEW sl, NEW n, NEW frozen, NEW ago, EnterPickOrTerminal(b, sl, n, frozen, ago)
      PROVE  turn' = n /\ phase' # "WAITING_FOR_RESULT"
  BY <1>1 DEF EnterPickOrTerminal, StartForcedTBPreparation, Finish
<1>2. CASE SkipCurrentAction
  <2> DEFINE frozen == lifecycle = "SUSPENDED"
  <2>1. CASE phase = "BAN" /\ AdvanceBan(slots, frozen, 0)
    <3>1. turn' # turn /\ phase' # "WAITING_FOR_RESULT"
      BY <1>1, <2>1 DEF AdvanceBan, TurnOrder
    <3>2. QED
      BY <2>1, <3>1, AdvanceBanClock, AdvanceBanEnds
  <2>2. CASE EnterPickOrTerminal(board, slots, turn + 1, frozen, 0)
    <3>1. turn' # turn /\ phase' # "WAITING_FOR_RESULT"
      BY <1>1, <2>2
    <3>2. QED
      BY <2>2, <3>1, EnterPickClock, EnterPickEnds
  <2>3. QED
    BY <1>2, <2>1, <2>2 DEF SkipCurrentAction
<1>3. CASE StartTB
  BY <1>3 DEF StartTB, MayStartTB, Running, ClockRenewed, NotCutOff
<1>4. ASSUME NEW t \in Teams, ConfirmTBResult(t)
      PROVE  ClockRenewed /\ NotCutOff /\ phase' = "NONE" /\ phase # "NONE"
  BY <1>4 DEF ConfirmTBResult, MayConfirmTB, Running, Finish, Decided, ClockRenewed, NotCutOff
<1>5. ASSUME NEW t \in Teams, ConfirmBeatmapResult(t)
      PROVE  ClockRenewed /\ NotCutOff /\ phase' # "WAITING_FOR_RESULT"
  <2> DEFINE b == SetOwner(board, pendingPiece, t)
  <2>1. CASE EnterPickOrTerminal(b, slots, turn + 1, FALSE, 0)
    BY <1>1, <1>5, <2>1, EnterPickClock, ConfirmEnds
  <2>2. CASE Finish(Decided("FOUR_ALIGNMENT", t, {}))
    BY <1>5, <2>2, ConfirmEnds DEF Finish, ClockRenewed
  <2>3. QED
    BY <1>5, <2>1, <2>2 DEF ConfirmBeatmapResult
<1>6. \A t \in Teams : ConfirmBeatmapResult(t) => phase = "WAITING_FOR_RESULT"
  BY DEF ConfirmBeatmapResult, MayConfirm, Running
<1>7. QED
  BY <1>2, <1>3, <1>4, <1>5, <1>6 DEF ClosesWindow

(* A phase with its window over has a command that closes it; the window it  *)
(* opens has time, the match it ends has no result awaited, and a request    *)
(* that is left stands in an open pick of its turns, so the step is stored.  *)
THEOREM ExpiryIsNoDeadEnd == Spec => ExpiredWindowCanBeClosed
<1> DEFINE Closable == WindowOver => MaySkip \/ MayConfirm \/ MayStartTB \/ MayConfirmTB
           Closed == WindowOver /\ ClosesWindow => (phase' # phase \/ turn' # turn) /\ ValidateState'
<1>1. StateInv => Closable
  <2> SUFFICES ASSUME StateInv, WindowOver PROVE Closable
    OBVIOUS
  <2>1. /\ phase \in Phases /\ phase # "NONE"
        /\ phase = "WAITING_FOR_RESULT" => pendingPiece # NoCell
    BY DEF StateInv, SafetyInv, PlayInv, OneResultAwaited, TInv, TypeOK, ControlTypeOK,
           TurnOrder, Ongoing, WindowOver
  <2>2. QED
    BY <2>1 DEF WindowOver, Phases, MaySkip, MayConfirm, MayStartTB, MayConfirmTB, Running
<1>2. StateInv /\ StateInv' /\ [Next]_vars => [Closed]_vars
  <2> SUFFICES ASSUME StateInv, StateInv', Next, WindowOver, ClosesWindow
               PROVE  (phase' # phase \/ turn' # turn) /\ ValidateState'
    OBVIOUS
  <2>1. TInv /\ EvidenceSupportsOutcome
    BY DEF StateInv, SafetyInv, PlayInv
  <2>2. ~ClockWithoutTime'
    <3>1. timer' \in Timers
      BY DEF StateInv, SafetyInv, TInv, TypeOK, ControlTypeOK
    <3>2. QED
      BY <2>1, <3>1, ClosingSteps, RenewedHasTime
  <2>3. ~PieceLeftWaiting'
    <3>1. lifecycle = "RUNNING" /\ result.reason = "NONE"
      BY <2>1 DEF WindowOver, VerdictRecorded, EvidenceSupportsOutcome
    <3>2. QED
      BY <2>1, <3>1, ClosingSteps, PieceRefusal DEF PieceLeftWaiting, CutOff, NotCutOff
  <2>4. ~RequestBesideResult'
    BY <2>1, ClosingSteps DEF RequestBesideResult
  <2>5. ValidateState'
    BY <2>2, <2>3, <2>4, RefusalsOfState, PTL DEF OnlyKnownRefusals, ValidateState
  <2>6. QED
    BY <2>1, <2>5, ClosingSteps
<1>3. QED
  BY <1>1, <1>2, StateInvHolds, PTL DEF Spec, ExpiredWindowCanBeClosed

-----------------------------------------------------------------------------
(* The command surface *)

(* The bans, placements and robberies shown while the active team is to play *)
(* are those the guards let through: slot by slot, cell by cell, and plan by *)
(* plan, although the surface finds the plans of a robbery by another way.   *)
LEMMA BansShown ==
  lifecycle = "RUNNING" => Offer(phase = "BAN", BanOffers) = BansAccepted
<1> SUFFICES ASSUME lifecycle = "RUNNING" PROVE Offer(phase = "BAN", BanOffers) = BansAccepted
  OBVIOUS
<1>1. CASE phase = "BAN"
  <2>1. {r \in Selectable : Mod[r] # "SHIRO"} = {r \in Slots : MayBan(r)}
    BY <1>1 DEF Selectable, MayBan, Running
  <2>2. QED
    BY <1>1, <2>1 DEF Offer, BanOffers, BansAccepted
<1>2. CASE phase # "BAN"
  <2>1. {r \in Slots : MayBan(r)} = {}
    BY <1>2 DEF MayBan, Running
  <2>2. QED
    BY <1>2, <2>1 DEF Offer, BansAccepted
<1>3. QED
  BY <1>1, <1>2

LEMMA PlacesShown ==
  lifecycle = "RUNNING" => Offer(phase = "PICK", PlaceOffers) = PlacesAccepted
<1> DEFINE shown == {q \in LegalPlacements : Mod[q[1]] # "SHIRO"}
           let == {q \in Slots \X Cells : MayPlace(q[1], q[2])}
<1> SUFFICES ASSUME lifecycle = "RUNNING"
             PROVE  Offer(phase = "PICK", PlaceOffers) = PlacesAccepted
  OBVIOUS
<1>1. CASE phase = "PICK"
  <2>1. \A s \in Slots, c \in Cells : <<s, c>> \in shown <=> MayPlace(s, c)
    BY <1>1 DEF LegalPlacements, Selectable, EmptyCells, MayPlace, Running, LegalPlacement
  <2>2. shown \subseteq Slots \X Cells
    BY DEF LegalPlacements, Selectable, EmptyCells
  <2>3. shown = let
    BY <2>1, <2>2
  <2> HIDE DEF shown, let
  <2>4. PlaceOffers = {<<"PLACE_PIECE", p[1], p[2]>> : p \in shown}
    BY DEF PlaceOffers, shown
  <2>5. PlacesAccepted = {<<"PLACE_PIECE", p[1], p[2]>> : p \in let}
    BY DEF PlacesAccepted, let
  <2>6. QED
    BY <1>1, <2>3, <2>4, <2>5 DEF Offer
<1>2. CASE phase # "PICK"
  <2>1. let = {}
    BY <1>2 DEF MayPlace, Running
  <2>2. QED
    BY <1>2, <2>1 DEF Offer, PlacesAccepted
<1>3. QED
  BY <1>1, <1>2

LEMMA ShirosShown ==
  lifecycle = "RUNNING" /\ turn < MaxTurn => Offer(phase = "PICK", ShiroOffers) = ShirosAccepted
<1> SUFFICES ASSUME lifecycle = "RUNNING", turn < MaxTurn
             PROVE  Offer(phase = "PICK", ShiroOffers) = ShirosAccepted
  OBVIOUS
<1>1. CASE phase = "PICK"
  <2>1. (\E s \in Selectable : Mod[s] = "SHIRO") <=> ShiroLeft # {}
    BY DEF Selectable, ShiroLeft
  <2>2. Offer(\E s \in Selectable : Mod[s] = "SHIRO", EmptyCells) = {d \in Cells : MayPlaceShiro(d)}
    BY <1>1, <2>1 DEF Offer, EmptyCells, MayPlaceShiro, Running
  <2>3. QED
    BY <1>1, <2>2 DEF Offer, ShiroOffers, ShirosAccepted
<1>2. CASE phase # "PICK"
  <2>1. {d \in Cells : MayPlaceShiro(d)} = {}
    BY <1>2 DEF MayPlaceShiro, Running
  <2>2. QED
    BY <1>2, <2>1 DEF Offer, ShirosAccepted
<1>3. QED
  BY <1>1, <1>2

LEMMA RobsShown ==
  ASSUME NEW teams \in SUBSET Teams, lifecycle = "RUNNING", phase = "PICK" => active \in teams
  PROVE  Offer(phase = "PICK", UNION {RobOffers(t) : t \in teams}) = RobsAccepted
<1> DEFINE targets == {d \in Cells : IsUnownedShiro(board, d) \/ IsOpponents(board, active, d)}
           priced(c) == {p \in Prices(active, c) : RobberyHolds(board, active, c, UNION p)}
           may(c) == {p \in Sacrifices(board, active, c) : MayRob(c, p)}
<1>1. CASE phase = "PICK"
  <2>1. \A t \in teams : t # active => RobOffers(t) = {}
    BY DEF RobOffers, Offer
  <2>2. UNION {RobOffers(t) : t \in teams} = RobOffers(active)
    BY <1>1, <2>1
  <2>3. \A c \in targets : priced(c) = may(c)
    BY <1>1 DEF Prices, Sacrifices, MayRob, Running
  <2>4. \A c \in Cells \ targets : may(c) = {}
    BY DEF Sacrifices
  <2>5. RobOffers(active) = UNION {{<<"ROB_PIECE", c, plan>> : plan \in priced(c)} : c \in targets}
    BY <1>1 DEF RobOffers, Running, Offer
  <2>6. RobsAccepted = UNION {{<<"ROB_PIECE", c, plan>> : plan \in may(c)} : c \in Cells}
    BY DEF RobsAccepted
  <2>7. targets \subseteq Cells
    OBVIOUS
  <2> HIDE DEF targets, priced, may
  <2>8. ASSUME NEW x
        PROVE  x \in RobOffers(active) <=> x \in RobsAccepted
    <3>1. x \in RobOffers(active) <=>
            \E c \in targets : \E plan \in priced(c) : x = <<"ROB_PIECE", c, plan>>
      BY <2>5
    <3>2. x \in RobsAccepted <=>
            \E c \in Cells : \E plan \in may(c) : x = <<"ROB_PIECE", c, plan>>
      BY <2>6
    <3>3. QED
      BY <2>3, <2>4, <2>7, <3>1, <3>2
  <2>9. QED
    BY <1>1, <2>2, <2>8 DEF Offer
<1>2. CASE phase # "PICK"
  <2>1. \A c \in Cells : may(c) = {}
    BY <1>2 DEF MayRob, Running
  <2>2. RobsAccepted = {}
    BY <2>1 DEF RobsAccepted
  <2>3. QED
    BY <1>2, <2>2 DEF Offer
<1>3. QED
  BY <1>1, <1>2

LEMMA PlaysShown ==
  ASSUME NEW teams \in SUBSET Teams, lifecycle = "RUNNING", turn < MaxTurn,
         phase = "PICK" => active \in teams
  PROVE  PlayOffers(teams) = PlaysAccepted
<1>1. PlayOffers(teams) =
        Offer(phase = "BAN", BanOffers) \cup Offer(phase = "PICK", PlaceOffers)
          \cup Offer(phase = "PICK", ShiroOffers)
          \cup Offer(phase = "PICK", UNION {RobOffers(t) : t \in teams})
  BY DEF PlayOffers, Offer
<1>2. QED
  BY <1>1, BansShown, PlacesShown, ShirosShown, RobsShown DEF PlaysAccepted

(* Only a running match lets a play through. *)
LEMMA PlaysNeedRunning == lifecycle # "RUNNING" => PlaysAccepted = {}
<1> SUFFICES ASSUME lifecycle # "RUNNING" PROVE PlaysAccepted = {}
  OBVIOUS
<1>1. BansAccepted = {}
  BY DEF BansAccepted, MayBan, Running
<1>2. PlacesAccepted = {}
  BY DEF PlacesAccepted, MayPlace, Running
<1>3. ShirosAccepted = {}
  BY DEF ShirosAccepted, MayPlaceShiro, Running
<1>4. RobsAccepted = {}
  BY DEF RobsAccepted, MayRob, Running
<1>5. QED
  BY <1>1, <1>2, <1>3, <1>4 DEF PlaysAccepted

LEMMA CaptainSurface ==
  ASSUME TInv, NEW t \in Teams
  PROVE  CaptainOffers(t) = TBAccepted(t)
<1>1. pendingTB \in Teams \ {t} <=> pendingTB # NoTeam /\ t # pendingTB
  BY DEF TInv, TypeOK, ControlTypeOK, Teams, NoTeam
<1>2. QED
  BY <1>1 DEF CaptainOffers, TBAccepted, MayRequestTB, MayRespond, CaptainsMayAct, Offer

(* What the surface needs to know of the state it is computed of. *)
Shown ==
  /\ phase \in Phases /\ lifecycle \in Lifecycles
  /\ timer.duration \in Nat
  /\ lifecycle \in {"RUNNING", "SUSPENDED"} <=> phase # "NONE"
  /\ phase \in {"BAN", "PICK", "WAITING_FOR_RESULT"} => active \in Teams
  /\ phase = "WAITING_FOR_RESULT" => pendingPiece # NoCell
  /\ lifecycle = "SUSPENDED" => suspension.held
  /\ timer.duration > 0 <=> phase \in {"BAN", "PICK", "WAITING_FOR_RESULT", "TB_PREPARATION"}
  /\ turn < MaxTurn

LEMMA RefereePlays ==
  ASSUME Shown
  PROVE  Offer(lifecycle = "RUNNING", Offer(~timer.paused, PlayOffers(Teams)))
           = Offer(TimerAllowsProxy, PlaysAccepted)
<1>1. CASE lifecycle = "RUNNING"
  <2>1. PlayOffers(Teams) = PlaysAccepted
    BY <1>1, PlaysShown DEF Shown
  <2>2. ~timer.paused /\ ~TimerAllowsProxy => PlayOffers(Teams) = {}
    BY DEF Shown, TimerAllowsProxy, PlayOffers, Offer
  <2>3. QED
    BY <1>1, <2>1, <2>2 DEF Offer, TimerAllowsProxy
<1>2. CASE lifecycle # "RUNNING"
  BY <1>2, PlaysNeedRunning DEF Offer
<1>3. QED
  BY <1>1, <1>2

LEMMA RefereeClock ==
  ASSUME Shown
  PROVE  /\ Offer(lifecycle = "RUNNING", ClockOffers \cup ExpiryOffers) \subseteq ClockAccepted
         /\ Offer(lifecycle = "SUSPENDED",
                  Offer(phase \in {"BAN", "PICK"}, {<<"SKIP_CURRENT_ACTION">>})) \subseteq ClockAccepted
         /\ ClockAccepted \subseteq RefereeOffers \cup Unadvertised
<1> USE DEF Shown, Offer
<1>1. Offer(lifecycle = "RUNNING", ClockOffers) \subseteq ClockAccepted
  BY DEF ClockOffers, ClockAccepted, MayCalibrate, MayPause, MayResumeTimer, HasTimer
<1>2. Offer(lifecycle = "RUNNING", ExpiryOffers) \subseteq ClockAccepted
  BY DEF ExpiryOffers, ClockAccepted, MayGrant, MaySkip
<1>3. Offer(lifecycle = "SUSPENDED",
            Offer(phase \in {"BAN", "PICK"}, {<<"SKIP_CURRENT_ACTION">>})) \subseteq ClockAccepted
  BY DEF ClockAccepted, MaySkip
<1>4. /\ MayCalibrate => <<"CALIBRATE_TIMER">> \in ClockOffers
      /\ MayPause => <<"PAUSE_TIMER">> \in ClockOffers
      /\ MayResumeTimer => <<"RESUME_TIMER">> \in ClockOffers
  BY DEF ClockOffers, MayCalibrate, MayPause, MayResumeTimer, HasTimer
<1>5. lifecycle = "RUNNING" => ClockOffers \cup ExpiryOffers \subseteq RefereeOffers
  BY DEF RefereeOffers
<1>6. MayGrant => <<"GRANT_ADDITIONAL_TIME">> \in RefereeOffers \cup Unadvertised
  BY <1>5 DEF MayGrant, ExpiryOffers, Unadvertised
<1>7. MaySkip => <<"SKIP_CURRENT_ACTION">> \in RefereeOffers \cup Unadvertised
  <2>1. CASE lifecycle = "RUNNING"
    BY <1>5, <2>1 DEF MaySkip, ExpiryOffers, Unadvertised
  <2>2. CASE lifecycle = "SUSPENDED"
    BY <2>2 DEF MaySkip, RefereeOffers
  <2>3. QED
    BY <2>1, <2>2 DEF MaySkip
<1>8. MayCalibrate \/ MayPause \/ MayResumeTimer => lifecycle = "RUNNING"
  BY DEF MayCalibrate, MayPause, MayResumeTimer
<1>9. ClockAccepted \subseteq RefereeOffers \cup Unadvertised
  BY <1>4, <1>5, <1>6, <1>7, <1>8 DEF ClockAccepted
<1>10. QED
  BY <1>1, <1>2, <1>3, <1>9

LEMMA RefereeCourse ==
  ASSUME Shown
  PROVE  /\ Offer(lifecycle = "READY", {<<"START_MATCH">>}) \subseteq CourseAccepted
         /\ Offer(lifecycle = "SUSPENDED",
                  {<<"RESUME_MATCH">>, <<"ABORT_MATCH">>, <<"RECORD_SURRENDER">>})
              \subseteq CourseAccepted \cup Unsupported
         /\ Offer(lifecycle = "RUNNING",
                  {<<"SUSPEND_MATCH">>, <<"ABORT_MATCH">>, <<"RECORD_SURRENDER">>})
              \subseteq CourseAccepted \cup Unsupported
         /\ Offer(lifecycle = "RUNNING",
                  Offer(phase = "WAITING_FOR_RESULT", {<<"CONFIRM_BEATMAP_RESULT">>})
                    \cup Offer(phase = "TB_PREPARATION" /\ ~timer.paused, {<<"START_TB">>})
                    \cup Offer(phase = "TB_PLAYING", {<<"CONFIRM_TB_RESULT">>}))
              \subseteq CourseAccepted
         /\ CourseAccepted \subseteq RefereeOffers
<1> USE DEF Shown, Offer
<1>1. Offer(lifecycle = "READY", {<<"START_MATCH">>}) \subseteq CourseAccepted
  BY DEF CourseAccepted, MayStart
<1>2. lifecycle \in {"RUNNING", "SUSPENDED"} =>
        /\ <<"RECORD_SURRENDER">> \in CourseAccepted \cup Unsupported
        /\ <<"ABORT_MATCH">> \in CourseAccepted
  BY DEF CourseAccepted, Unsupported, MaySurrender, MayAbort
<1>3. Offer(lifecycle = "SUSPENDED",
            {<<"RESUME_MATCH">>, <<"ABORT_MATCH">>, <<"RECORD_SURRENDER">>})
        \subseteq CourseAccepted \cup Unsupported
  BY <1>2 DEF CourseAccepted, MayResume
<1>4. Offer(lifecycle = "RUNNING",
            {<<"SUSPEND_MATCH">>, <<"ABORT_MATCH">>, <<"RECORD_SURRENDER">>})
        \subseteq CourseAccepted \cup Unsupported
  BY <1>2 DEF CourseAccepted, MaySuspend
<1>5. Offer(lifecycle = "RUNNING",
            Offer(phase = "WAITING_FOR_RESULT", {<<"CONFIRM_BEATMAP_RESULT">>})
              \cup Offer(phase = "TB_PREPARATION" /\ ~timer.paused, {<<"START_TB">>})
              \cup Offer(phase = "TB_PLAYING", {<<"CONFIRM_TB_RESULT">>})) \subseteq CourseAccepted
  BY DEF CourseAccepted, MayConfirm, MayStartTB, MayConfirmTB, Running
<1>6. lifecycle = "RUNNING" => PhaseOffers \subseteq RefereeOffers
  BY DEF RefereeOffers
<1>7. /\ MayConfirm => <<"CONFIRM_BEATMAP_RESULT">> \in RefereeOffers
      /\ MayStartTB => <<"START_TB">> \in RefereeOffers
      /\ MayConfirmTB => <<"CONFIRM_TB_RESULT">> \in RefereeOffers
  BY <1>6 DEF MayConfirm, MayStartTB, MayConfirmTB, Running, PhaseOffers
<1>8. /\ MayStart => <<"START_MATCH">> \in RefereeOffers
      /\ MaySuspend => <<"SUSPEND_MATCH">> \in RefereeOffers
      /\ MayResume => <<"RESUME_MATCH">> \in RefereeOffers
      /\ MayAbort => <<"ABORT_MATCH">> \in RefereeOffers
      /\ \A t, ids : MaySurrender(t, ids) => <<"RECORD_SURRENDER">> \in RefereeOffers
  BY DEF MayStart, MaySuspend, MayResume, MayAbort, MaySurrender, RefereeOffers
<1>9. CourseAccepted \subseteq RefereeOffers
  BY <1>7, <1>8 DEF CourseAccepted
<1>10. QED
  BY <1>1, <1>3, <1>4, <1>5, <1>9

LEMMA RefereeSurface ==
  ASSUME TInv, Shown
  PROVE  /\ RefereeOffers \subseteq RefereeAccepts \cup Unsupported
         /\ RefereeAccepts \subseteq RefereeOffers \cup Unadvertised
<1> DEFINE Captains == UNION {TBAccepted(t) : t \in Teams}
<1>1. UNION {CaptainOffers(t) : t \in Teams} = Captains
  BY CaptainSurface
<1>2. lifecycle # "RUNNING" \/ timer.paused => Captains = {}
  BY DEF TBAccepted, MayRequestTB, MayRespond, CaptainsMayAct, Running, Offer
<1>3. Offer(lifecycle = "RUNNING", Offer(~timer.paused, Captains)) = Captains
  BY <1>2 DEF Offer
<1> DEFINE
      starting == Offer(lifecycle = "READY", {<<"START_MATCH">>})
      frozen == Offer(lifecycle = "SUSPENDED",
                      {<<"RESUME_MATCH">>, <<"ABORT_MATCH">>, <<"RECORD_SURRENDER">>})
      skips == Offer(lifecycle = "SUSPENDED",
                     Offer(phase \in {"BAN", "PICK"}, {<<"SKIP_CURRENT_ACTION">>}))
      running == Offer(lifecycle = "RUNNING",
                       {<<"SUSPEND_MATCH">>, <<"ABORT_MATCH">>, <<"RECORD_SURRENDER">>})
      clock == Offer(lifecycle = "RUNNING", ClockOffers \cup ExpiryOffers)
      plays == Offer(lifecycle = "RUNNING", Offer(~timer.paused, PlayOffers(Teams)))
      agreement == Offer(lifecycle = "RUNNING", Offer(~timer.paused, Captains))
      results == Offer(lifecycle = "RUNNING",
                       Offer(phase = "WAITING_FOR_RESULT", {<<"CONFIRM_BEATMAP_RESULT">>})
                         \cup Offer(phase = "TB_PREPARATION" /\ ~timer.paused, {<<"START_TB">>})
                         \cup Offer(phase = "TB_PLAYING", {<<"CONFIRM_TB_RESULT">>}))
<1> HIDE DEF Captains
<1>4. RefereeOffers = starting \cup frozen \cup skips \cup running \cup clock \cup plays
                        \cup agreement \cup results
  BY <1>1 DEF RefereeOffers, PhaseOffers, Offer
<1>5. RefereeAccepts = Offer(TimerAllowsProxy, PlaysAccepted) \cup ClockAccepted
                         \cup CourseAccepted \cup Captains
  BY DEF RefereeAccepts, Captains
<1>6. /\ plays = Offer(TimerAllowsProxy, PlaysAccepted)
      /\ clock \cup skips \subseteq ClockAccepted
      /\ starting \cup frozen \cup running \cup results \subseteq CourseAccepted \cup Unsupported
  BY RefereePlays, RefereeClock, RefereeCourse
<1>7. /\ ClockAccepted \subseteq RefereeOffers \cup Unadvertised
      /\ CourseAccepted \subseteq RefereeOffers
  BY RefereeClock, RefereeCourse
<1> HIDE DEF starting, frozen, skips, running, clock, plays, agreement, results
<1>8. QED
  BY <1>3, <1>4, <1>5, <1>6, <1>7 DEF agreement

LEMMA StrategistSurface ==
  ASSUME Shown, NEW t \in Teams
  PROVE  StrategistOffers(t) = Offer(active = t /\ TimerAllowsStrategist, PlaysAccepted)
<1>1. CASE lifecycle = "RUNNING" /\ active = t
  <2>1. PlayOffers({t}) = PlaysAccepted
    BY <1>1, PlaysShown DEF Shown
  <2>2. QED
    BY <1>1, <2>1 DEF StrategistOffers, TimerAllowsStrategist, Offer
<1>2. CASE ~(lifecycle = "RUNNING" /\ active = t)
  BY <1>2, PlaysNeedRunning DEF StrategistOffers, Offer
<1>3. QED
  BY <1>1, <1>2

(* An open pick always shows a placement, were it the Shiro's. *)
LEMMA PlacementShown ==
  ASSUME Shown, PickIsPlayable, Running("PICK"), ~timer.paused
  PROVE  RefereeOffers \cap (PlaceOffers \cup ShiroOffers) # {}
<1>1. PICK s \in Slots, c \in Cells :
        slots[s] = "AVAILABLE" /\ Mod[s] # "TB" /\ Empty(board, c) /\ ModFits(Mod[s], c)
  BY DEF PickIsPlayable, Running, Ongoing
<1>2. s \in Selectable /\ c \in EmptyCells
  BY <1>1 DEF Selectable, EmptyCells
<1>3. Mod[s] = "SHIRO" => <<"PLACE_SHIRO", c>> \in ShiroOffers
  BY <1>2 DEF ShiroOffers, Offer
<1>4. ASSUME Mod[s] # "SHIRO"
      PROVE  <<"PLACE_PIECE", s, c>> \in PlaceOffers
  <2>1. <<s, c>> \in {q \in LegalPlacements : Mod[q[1]] # "SHIRO"}
    BY <1>1, <1>2, <1>4 DEF LegalPlacements
  <2>2. QED
    BY <2>1 DEF PlaceOffers
<1>5. PlaceOffers \cup ShiroOffers \subseteq RefereeOffers
  BY DEF Running, RefereeOffers, PhaseOffers, PlayOffers, Offer
<1>6. PlaceOffers \cup ShiroOffers # {}
  BY <1>3, <1>4
<1>7. QED
  BY <1>5, <1>6

(* The surface repeats the guards of every command in a second place, and in *)
(* every state that can be stored the two agree, for each actor, command,    *)
(* slot, cell and plan: nothing acceptable is hidden from a client, but the  *)
(* skip and the additional time of a timer paused at zero, and nothing is    *)
(* offered that would be refused, but a surrender no roster is able to make. *)
THEOREM SurfaceExact == Spec => []SurfaceIsExact
<1>1. StateInv => SurfaceIsExact
  <2> SUFFICES ASSUME StateInv, ValidateState, turn < MaxTurn PROVE SurfaceIsExact
    BY DEF SurfaceIsExact
  <2>1. TInv /\ OneResultAwaited /\ PickIsPlayable /\ HeldInv
    BY DEF StateInv, SafetyInv, PlayInv, RecordInv
  <2>2. Shown
    <3>1. phase \in Phases /\ lifecycle \in Lifecycles /\ timer.duration \in Nat
      BY <2>1 DEF TInv, TypeOK, ControlTypeOK, Timers
    <3>2. /\ lifecycle \in {"RUNNING", "SUSPENDED"} <=> phase # "NONE"
          /\ phase \in {"BAN", "PICK", "WAITING_FOR_RESULT"} => active \in Teams
      BY <2>1, OrderedTeams DEF TInv, TurnOrder, Ongoing
    <3>3. timer.duration > 0 <=> phase \in {"BAN", "PICK", "WAITING_FOR_RESULT", "TB_PREPARATION"}
      BY DEF ValidateState, ValidTurnAndTimer
    <3>4. /\ phase = "WAITING_FOR_RESULT" => pendingPiece # NoCell
          /\ lifecycle = "SUSPENDED" => suspension.held
      BY <2>1 DEF OneResultAwaited, HeldInv, NoSuspension
    <3>5. QED
      BY <3>1, <3>2, <3>3, <3>4 DEF Shown
  <2>3. QED
    BY <2>1, <2>2, StrategistSurface, CaptainSurface, RefereeSurface, PlacementShown
       DEF SurfaceIsExact
<1>2. QED
  BY <1>1, StateInvHolds, PTL
=============================================================================
