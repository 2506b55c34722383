---------------------------- MODULE MatchSurface -----------------------------
(***************************************************************************)
(* The command surface shown to clients, internal/matchengine/             *)
(* availability.go: what AnalyzeForActor offers a strategist, a captain    *)
(* and the referee.  It repeats the guards of every command in a second    *)
(* place; the comment on it promises the exact selectable surface.         *)
(*                                                                         *)
(* An offer is a command with its choice: <<"PLACE_PIECE", slot, cell>>.   *)
(* The force mod of a placement and the order of the lists are left out.   *)
(***************************************************************************)
EXTENDS MatchValidation

Offer(holds, offers) == IF holds THEN offers ELSE {}

-----------------------------------------------------------------------------
(* Analyze *)

EmptyCells == {c \in Cells : Empty(board, c)}

Selectable == {s \in Slots : slots[s] = "AVAILABLE" /\ Mod[s] # "TB"}

LegalPlacements == {p \in Selectable \X EmptyCells : ModFits(Mod[p[1]], p[2])}

-----------------------------------------------------------------------------
(* The choices of the team to act *)

BanOffers ==
  {<<"BAN_POOL_SLOT", s>> : s \in {r \in Selectable : Mod[r] # "SHIRO"}}

PlaceOffers ==
  {<<"PLACE_PIECE", p[1], p[2]>> : p \in {q \in LegalPlacements : Mod[q[1]] # "SHIRO"}}

ShiroOffers ==
  {<<"PLACE_SHIRO", c>> : c \in Offer(\E s \in Selectable : Mod[s] = "SHIRO", EmptyCells)}

(* Fault: the unowned Shiro piece is priced like a piece of the opponent. *)
PricesOfOpponent(t, c) ==
  LET twos == Alignments(board, t, 2) IN
  {{L} : L \in Alignments(board, t, 3)}
    \cup {{p[1], p[2]} : p \in {q \in twos \X twos : q[1] \cap q[2] = {}}}

(* The sets of lines worth looking at for target c. *)
Prices(t, c) ==
  LET twos == Alignments(board, t, 2) IN
  IF IsUnownedShiro(board, c) THEN {{L} : L \in twos}
  ELSE {{L} : L \in Alignments(board, t, 3)}
         \cup {{p[1], p[2]} : p \in {q \in twos \X twos : q[1] \cap q[2] = {}}}

(* robberyPlans *)
RobOffers(t) ==
  UNION {{<<"ROB_PIECE", c, plan>> :
            plan \in {p \in Prices(t, c) : RobberyHolds(board, t, c, UNION p)}} :
         c \in Offer(Running("PICK") /\ active = t,
                     {d \in Cells : IsUnownedShiro(board, d) \/ IsOpponents(board, t, d)})}

PlayOffers(teams) ==
  Offer(phase = "BAN", BanOffers)
    \cup Offer(phase = "PICK", PlaceOffers \cup ShiroOffers \cup UNION {RobOffers(t) : t \in teams})

StrategistOffers(t) ==
  Offer(lifecycle = "RUNNING" /\ active = t /\ ~timer.paused /\ ~Expired(timer),
        PlayOffers({t}))

CaptainOffers(t) ==
  Offer(Running("PICK") /\ ~timer.paused /\ InTBWindow(turn),
        Offer(pendingTB = NoTeam, {<<"REQUEST_TB", t>>})
          \cup Offer(pendingTB \in Teams \ {t}, {<<"RESPOND_TB_REQUEST", t>>}))

-----------------------------------------------------------------------------
(* analyzeReferee *)

(* Fault: the clock of a paused timer is offered like one that runs. *)
ClockOffersPaused ==
  Offer(timer.paused, {<<"RESUME_TIMER">>, <<"CALIBRATE_TIMER">>})
    \cup Offer(timer.duration > 0, {<<"PAUSE_TIMER">>, <<"CALIBRATE_TIMER">>})

ClockOffers ==
  Offer(timer.paused, {<<"RESUME_TIMER">>, <<"CALIBRATE_TIMER">>})
    \cup Offer(~timer.paused /\ timer.duration > 0, {<<"PAUSE_TIMER">>, <<"CALIBRATE_TIMER">>})

ExpiryOffers ==
  Offer(~timer.paused /\ timer.duration > 0 /\ Expired(timer),
        Offer(/\ phase \in {"BAN", "PICK", "WAITING_FOR_RESULT"}
              /\ active \in Teams \ pauseUsed,
              {<<"GRANT_ADDITIONAL_TIME">>})
          \cup Offer(phase \in {"BAN", "PICK"}, {<<"SKIP_CURRENT_ACTION">>}))

PhaseOffers ==
  Offer(~timer.paused, PlayOffers(Teams) \cup UNION {CaptainOffers(t) : t \in Teams})
    \cup Offer(phase = "WAITING_FOR_RESULT", {<<"CONFIRM_BEATMAP_RESULT">>})
    \cup Offer(phase = "TB_PREPARATION" /\ ~timer.paused, {<<"START_TB">>})
    \cup Offer(phase = "TB_PLAYING", {<<"CONFIRM_TB_RESULT">>})

RefereeOffers ==
  Offer(lifecycle = "READY", {<<"START_MATCH">>})
    \cup Offer(lifecycle = "SUSPENDED",
               {<<"RESUME_MATCH">>, <<"ABORT_MATCH">>, <<"RECORD_SURRENDER">>}
                 \cup Offer(phase \in {"BAN", "PICK"}, {<<"SKIP_CURRENT_ACTION">>}))
    \cup Offer(lifecycle = "RUNNING",
               {<<"SUSPEND_MATCH">>, <<"ABORT_MATCH">>, <<"RECORD_SURRENDER">>}
                 \cup ClockOffers \cup ExpiryOffers \cup PhaseOffers)

-----------------------------------------------------------------------------
(* What Execute accepts, read off the guards of the commands *)

BansAccepted == {<<"BAN_POOL_SLOT", s>> : s \in {r \in Slots : MayBan(r)}}

PlacesAccepted ==
  {<<"PLACE_PIECE", p[1], p[2]>> : p \in {q \in Slots \X Cells : MayPlace(q[1], q[2])}}

ShirosAccepted == {<<"PLACE_SHIRO", c>> : c \in {d \in Cells : MayPlaceShiro(d)}}

RobsAccepted ==
  UNION {{<<"ROB_PIECE", c, plan>> : plan \in {p \in Sacrifices(board, active, c) : MayRob(c, p)}} :
           c \in Cells}

PlaysAccepted == BansAccepted \cup PlacesAccepted \cup ShirosAccepted \cup RobsAccepted

TBAccepted(t) ==
  Offer(MayRequestTB, {<<"REQUEST_TB", t>>})
    \cup Offer(MayRespond(t), {<<"RESPOND_TB_REQUEST", t>>})

ClockAccepted ==
  Offer(MayGrant, {<<"GRANT_ADDITIONAL_TIME">>})
    \cup Offer(MayCalibrate, {<<"CALIBRATE_TIMER">>})
    \cup Offer(MayPause, {<<"PAUSE_TIMER">>})
    \cup Offer(MayResumeTimer, {<<"RESUME_TIMER">>})
    \cup Offer(MaySkip, {<<"SKIP_CURRENT_ACTION">>})

CourseAccepted ==
  Offer(MayStart, {<<"START_MATCH">>})
    \cup Offer(MaySuspend, {<<"SUSPEND_MATCH">>})
    \cup Offer(MayResume, {<<"RESUME_MATCH">>})
    \cup Offer(MayAbort, {<<"ABORT_MATCH">>})
    \cup Offer(\E t \in Teams : MaySurrender(t, Members(t)), {<<"RECORD_SURRENDER">>})
    \cup Offer(MayConfirm, {<<"CONFIRM_BEATMAP_RESULT">>})
    \cup Offer(MayStartTB, {<<"START_TB">>})
    \cup Offer(MayConfirmTB, {<<"CONFIRM_TB_RESULT">>})

RefereeAccepts ==
  Offer(TimerAllowsProxy, PlaysAccepted) \cup ClockAccepted \cup CourseAccepted
    \cup UNION {TBAccepted(t) : t \in Teams}

(* A timer paused with nothing left is expired: Execute then lets the referee *)
(* skip or grant additional time, which the surface does not offer.           *)
Unadvertised ==
  Offer(timer.paused /\ Expired(timer), {<<"SKIP_CURRENT_ACTION">>, <<"GRANT_ADDITIONAL_TIME">>})

(* A surrender is offered where no roster has the members it takes as well. *)
Unsupported ==
  Offer(\A t \in Teams : ~SurrenderEvidence(t, Members(t)), {<<"RECORD_SURRENDER">>})

(* In every state that can be stored, AnalyzeForActor offers each actor the  *)
(* commands, slots, cells and robbery plans that Execute accepts, and no     *)
(* others, but for the three above; and while a pick is open and its timer   *)
(* is not paused there is always a placement among them.                     *)
SurfaceIsExact ==
  ValidateState /\ turn < MaxTurn =>
    /\ \A t \in Teams :
         /\ StrategistOffers(t) = Offer(active = t /\ TimerAllowsStrategist, PlaysAccepted)
         /\ CaptainOffers(t) = TBAccepted(t)
    /\ RefereeOffers \subseteq RefereeAccepts \cup Unsupported
    /\ RefereeAccepts \subseteq RefereeOffers \cup Unadvertised
    /\ Running("PICK") /\ ~timer.paused => RefereeOffers \cap (PlaceOffers \cup ShiroOffers) # {}

-----------------------------------------------------------------------------
(* The plays of the active team that the store keeps as well *)

PlaysStored ==
  {<<"BAN_POOL_SLOT", s>> : s \in {r \in Slots : ENABLED (BanPoolSlot(r, 0) /\ ValidateState')}}
    \cup {<<"PLACE_PIECE", p[1], p[2]>> :
            p \in {q \in Slots \X Cells : ENABLED (PlacePiece(q[1], q[2], 0) /\ ValidateState')}}
    \cup {<<"PLACE_SHIRO", c>> :
            c \in {d \in Cells : ENABLED (PlaceShiro(d, 0) /\ ValidateState')}}
    \cup UNION {{<<"ROB_PIECE", c, plan>> :
                   plan \in {p \in Sacrifices(board, active, c) :
                               ENABLED (RobPiece(c, p, 0) /\ ValidateState')}} : c \in Cells}

(* What the surface offers a strategist, and the abort it offers the referee, *)
(* can be stored: validation refuses no command the clients are shown.        *)
OffersCanBeStored ==
  ValidateState =>
    /\ \A t \in Teams : StrategistOffers(t) \subseteq PlaysStored
    /\ <<"ABORT_MATCH">> \in RefereeOffers => ENABLED (AbortMatch /\ ValidateState')
=============================================================================
