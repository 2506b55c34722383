# Verification of the match backend

This directory specifies the core of the backend of a tournament board game in TLA+: the
rule engine of a match and what its clients are shown of it, the setup and start of its
room, the store through which all commands go, the readers that follow the store (the
realtime gateway, the IRC publisher and delivery, the review of results typed in IRC), and
the cache and background refresh of beatmaps. TLC checks small instances of the
specifications; the TLA+ proof system proves the main properties for all values of the
constants. Paths below are relative to `src/internal/` unless they begin with `src/`.

| module | models | checked by | proved in |
|---|---|---|---|
| `MatchBoard` | the board, lines, robbery plans: `matchengine/board.go` | through `MatchEngine` | `MatchEngineProofs` |
| `MatchEngine` | every command of `matchengine/engine.go` | `engine_match`, `engine_board` | `MatchEngineProofs` |
| `MatchValidation` | `ValidateState`, and the match as the store accepts it | `engine_match`, `stored_offers` | `MatchSurfaceProofs` |
| `MatchSurface` | what `matchengine/availability.go` offers each actor | `engine_match`, `engine_board`, `stored_offers` | `MatchSurfaceProofs` |
| `RoomStart` | setup, start, acknowledgement and first command of a room | `room_start`, `room_ready` | `RoomStartProofs` |
| `CommandStore` | `Orchestrator.Execute` and `CommandStore.Apply` under concurrency | `command_store` | `CommandStoreProofs` |
| `MatchLog` | what the command store promises: an atomic log | as a property of `command_store`; used by `irc_review` | `CommandStoreProofs` |
| `Realtime` | the realtime gateway over the command store: `realtime/gateway.go` | `realtime` | `RealtimeProofs` |
| `IrcPublisher` | from the outbox to the queue of IRC jobs: `ircpublisher`, `IRCJobStore.Enqueue` | through `IrcDelivery` | `IrcDeliveryProofs` |
| `IrcDelivery` | claims, locks, sending and answers: `persistence/irc_jobs.go`, `irc` | `irc_claims`, `irc_delivery` | `IrcDeliveryProofs` |
| `OrderedDelivery` | what the queue promises: commands in the order of the match | as a property of `irc_claims` | `IrcDeliveryProofs` |
| `IrcReview` | confirming an observed result, and its reconciler, over `MatchLog` | `irc_review` | `IrcReviewProofs` |
| `BeatmapCache` | reading through and invalidating the cache: `fetcher`, `service/beatmap_service.go` | through `BeatmapMetadata` | `BeatmapProofs` |
| `BeatmapMetadata` | the leased background refresh and its queries, over `BeatmapCache` | `beatmaps`, `failure_hidden` | `BeatmapProofs` |

`MCEngine`, `MCBoard`, `MCRoom`, `MCRealtime`, `MCStore`, `MCIrc`, `MCReview` and
`MCBeatmap` give the constants their values for TLC.

## 1. The system

A match of two teams is played on a 4 by 4 board with pieces from a pool of beatmaps. The
backend holds the authoritative state, decides what each participant may do, tells
subscribers what happened, and drives an IRC bot. Several server processes may run on one
MongoDB; Redis holds sessions, rate limits and caches.

| component | state | operations | used by |
|---|---|---|---|
| match rule engine (`matchengine`) | one aggregate `State`: lifecycle, phase, turn, pool, board, timer, entitlements, requests, result | `Execute` of 25 commands, a pure function | command store |
| state validation (`matchengine/validation.go`) | none | `ValidateState` before a state is stored and after it is loaded | snapshot store, receipts |
| command surface (`matchengine/availability.go`) | none | `AnalyzeForActor`: what a client is shown as possible | GraphQL views |
| room setup and start (`service/room_service.go`, `persistence/formal_match_bootstrap.go`) | room and match documents | setters, `StartMatch`, orphan recovery, `MarkStrategistReady` | GraphQL, HTTP |
| command orchestration and store (`matchcommand`, `persistence/command_store.go`, `snapshot_store.go`) | snapshot, receipts, audit log, outbox of each match | `Execute`, `Apply`, `CompareAndSwap` | GraphQL, auto-start |
| outbox and IRC publisher (`ircpublisher`) | status of the events | plan jobs, enqueue, mark published or failed | background loop |
| IRC job queue, worker, client (`persistence/irc_jobs.go`, `irc`) | jobs, channel locks, pending replies | claim, mark sent, acknowledge, fail, reject, cancel, retry | background loop, IRC socket |
| IRC result review (`ircreview`, `graphql/schema.resolvers.go`) | observations | claim, confirm, finalize, release, reconcile | GraphQL, background loop |
| realtime gateway (`realtime`) | connections, next sequence of each | subscribe, poll, replay, resynchronise | WebSocket clients |
| beatmap metadata (`beatmapmetadata`) | leased records | claim, mark ready, fail, retry | background loop |
| sessions and login (`authsession`, `oauth`) | sessions in Redis | create, resolve and renew, revoke | HTTP middleware |
| osu! API fetcher (`fetcher`) | cache with generations | fetch, fill, invalidate | services |
| legacy match service (`service/match_service.go`) | whole match documents | read, modify, write | GraphQL |
| administration, GraphQL, HTTP, server, tools | documents, wiring | create, read, update, delete; mapping | |

How they interact. A command enters through GraphQL, is given the server's time and a hash
of its content by the orchestrator, and is applied by the command store in one database
transaction: receipt, authorization (which reads user, match, room and teams), snapshot,
engine, compare-and-swap, audit entry, events, receipt. Three readers follow the store
without taking part in the transaction: the gateway polls events and past states for its
subscribers, the publisher turns events into IRC jobs, and the review reconciler looks for
the receipts of confirmations. `StartMatch` creates what all of them work on.

What is hard. Inside the engine: rules that must be applied after every path that opens a
turn, two records (pool and board) kept consistent by hand, and timers rebuilt by pauses,
suspensions and proxied commands. Around it: requests that race on one version or on one
room, checks on copies read earlier, retries after lost answers, differing clocks, readers
that combine two reads, leases that expire under slow workers, and background loops that
may stop between two writes. `PROJECT.json` lists these hazards with their lines; three
have no property, with the reason.

What makes each component correct.

- *Engine*: turn order; pool and board agree; no missed line, forced tiebreaker or lapse of
  a request; every verdict is supported by what was recorded; time is not created; an
  expired window can be closed; clients are offered what is accepted and can be stored.
- *Room*: one authoritative match, started once and only when both sides are ready;
  settings locked once a match exists; an orphan is recovered.
- *Command store*: it is a log; ids are used once; numbering of events; past states.
- *Gateway*: no event of the match is lost or shown twice, states belong to their events.
- *Publisher and IRC queue*: order of side effects, at most one sender of a channel at a
  time, no job lost, no channel blocked for ever without a referee being able to free it.
- *Review*: a result is confirmed only by a command that was applied for it; verdicts are
  final; no observation stays claimed for ever.
- *Beatmaps*: no stale fill after an invalidation, as far as the generations tell; a lost
  lease settles nothing; a failed refresh stays visible until one succeeds, and metadata
  arrives in the end.
- *Sessions*: no renewal of a revoked session.

## 2. The models and the code

### MatchBoard, MatchEngine

The fifteen variables are the fields of `State`. The board is a function from cells to
pieces (`slot`, `owner`, `outcome`), a pool slot has its selection state, and each of the
25 commands that `Execute` dispatches is an action, or a case of one. Its guard is the accepted
case of its function, under a name of its own (`MayBan`, `MayRob`, `MaySkip`), so that the
surface can be compared with it; its effect is everything the function changes, the opening of
the next turn included: passing the turn lapses a tiebreaker request that is out of its
window, looks for a stalemate and for the forced tiebreaker, and starts the next window (`GoOn`, `EnterPickOrTerminal`,
`AdvanceBan`). A rejected command changes nothing and is a stuttering step. `REFEREE_*`
commands on bans and pieces are the proxied forms, which the engine accepts after the window has ended and
which open the next window where the old one ended.

*Time.* A timer holds how long ago it was started in place of an absolute time stamp, and
`Tick` lets one unit pass; what is compared in the code are differences only.

*Left out*: versions and events (they are in `CommandStore`), reasons and texts,
generated identifiers. A piece is identified by its cell, which it never leaves
(`PieceHistory` says so), a request by the team that made it.

### MatchValidation

`ValidateState` as predicates named like its parts, and `StoredNext`, a step of the engine
whose result is valid: `NewMatchSnapshotDocument` refuses all others and the transaction
is rolled back. `ExpiredWindowCanBeClosed` asks whether that refusal ever takes away the
last way out of a window that has run out: one of the commands that close it (`ClosesWindow`)
is accepted there, and each of them leads to another turn or phase and to a state that can be
stored.

The validation describes the states apart from the commands, so the two can differ. They
do in three situations, which are named: a phase whose action has a window but whose timer
has none, or a paused timer with more left than its window (`ClockWithoutTime`); a match
that ended while a piece awaited its result (`PieceLeftWaiting`); and a tiebreaker request
beside an awaited result (`RequestBesideResult`). `OnlyKnownRefusals` says that every
other part of the validation holds in every state the commands lead to, and
`RefusalsAreKnown` which accepted commands are rolled back from a stored state (`Refused`):
these and no others.

### MatchSurface

`AnalyzeForActor` repeats the guards of all commands in a second place. The offers are sets
of commands with their choices: slots to ban, placements, robbery plans, requests and
answers of captains, and the referee's list. The other side, what `Execute` accepts, is read
off the guards of the actions, choice by choice (`BansAccepted` to `RefereeAccepts`). A guard
holds exactly where its action can be taken: no condition is left to the effect of an action,
whose alternatives cover every case. `SurfaceIsExact` compares the two in every state that can
be stored. They agree but for two cases. A timer that was paused with nothing left counts as
expired for `Execute`, which lets the referee skip or grant additional time; the surface offers
neither (`Unadvertised`). And a surrender is offered whatever the rosters are, while
`Execute` asks for four members of one (`Unsupported`): nothing checks the size of a roster when a
match is created (`model.go:415`).

### RoomStart

One room, the match rows and snapshots it may refer to, and any number of requests. A
request is a small program whose steps are its database accesses, and it works on the
copies it has read (`call`), so that every interleaving at that grain is explored; a
request that is never continued is one whose server has stopped. A transaction is one
step, as MongoDB's isolation makes it. The opaque value `config` stands for all locked
settings, teams and pool included. Rows of an earlier version of the program, without a
snapshot, are where an orphan comes from; since nothing in the program takes a match away
from a room, the write of the recovery never finds the room open, and the alternative of
`Recover` in which it succeeds is there for completeness only. The answer to a request may be lost, and a
transaction may be reported as failed after it was committed.

### CommandStore and MatchLog

`Send` stamps a request, `Lookup` is the search for a receipt before the transaction,
`Read` stands for the reads of the transaction, which see one snapshot of the database,
and `Commit` for its writes. A transaction that finds the snapshot document changed since
is run again by the driver (`session.WithTransaction`), from the beginning. A request is
its id, its expected version and an opaque body, since the hash of
`canonicalRequestHash` covers all of the request. The engine is abstract: a state is the
sequence of bodies applied, which tells every two histories apart, and it may refuse
anything. The duplicate-key branch of `Apply` needs no action of its own: two transactions
that would insert the same receipt write the same snapshot document as well, so that the
second one never gets to insert.

`MatchLog` is the promise: a sequence of requests, and one step for each answer. The
mapping reads the log off the receipts (`AppliedLog`).

### Realtime

The gateway takes no part in the store's transactions, so `Realtime` adds its own
variable, `feed`, to `CommandStore` and its own steps to the store's: one for each access to
the database (`Subscribe` loads the snapshot, `Baseline` the number of its last event,
`Poll` a page of later events) and one for each event of a page (`Deliver`, with the state
that the event's receipt holds). Any step of the store may come between two of these.
`next` of the code is `view.sequence + 1`. A connection may end at any step (`Leave`): the
client goes, or a write or a read fails. The page holds 2 events instead of 100. Who may
subscribe and how many connections a user may have are left out: both only decide whether
`Subscribe` happens.

### IrcPublisher, IrcDelivery and OrderedDelivery

A publisher's round is `ListUnpublishedEvents`, `Plan`, an `Enqueue` for each command, and
`MarkEventPublished` or `MarkEventFailed`; there is no lock, so several publishers may do
this for one event, and `StopPublisher` may end any of them between two writes. A job is
the number of its event and its place among the jobs of that event; what a command says is
left out. The link of the room, which decides the channel, may be set at any time
(`SetMPLink`).

A worker's `Claim` is four steps, since it makes four accesses: the earliest job of a
channel (`FindCandidate`), the channel's lock (`LockChannel`), the earliest job again
(`Reread`) and the update of the job, which names the status that was read (`ClaimJob`).
Then come the check of the room (`Validate`), `MarkSent`, `Send`, and, from the reader of
the connection, `HandleReceipt`. Leases and locks run out at any moment: time is a choice.
The Redis gate is left out, as it can only make a send fail, which `SendError` allows
anyway. Tokens stand for the random ones; an unused one is taken.

`OrderedDelivery` says what the comments of `ListUnpublishedEvents` and `Claim` promise: a
channel hears of a command, and is done with it, only when it is done with all earlier ones.

### IrcReview

A confirmation (`ConfirmIRCResult`) is four accesses: reading the observation, claiming it
for a command id, executing the command, and confirming or releasing the claim. The
command store is `MatchLog`, which `CommandStore` implements, so that a request may be
answered, answered again, refused or lost, and an id may be used for other commands. The
reconciler lists claims, looks for the receipt of each, and writes. Whether a claim is
old enough to be released is a choice, because the code decides it from the time it
listed, which may have been renewed. Observations that say the same to different channels
need no distinction.

### BeatmapCache and BeatmapMetadata

One beatmap: its document, as a version, the cached copy and the generation of the cache
entry. A fetch is a program of database, Redis and API accesses; an administrator's edit
reads, writes and invalidates. `BeatmapMetadata` adds the record of the refresh and its
lease. The `SyncBeatmap` of a worker is the fetch of `BeatmapCache`, step for step, so that
a worker that lost its lease still stores and caches what it fetched. Two tokens for each
worker tell its claim from the one before. `Update` stands for `Patch` too.
The key of the generation may expire at any moment, and the next invalidation counts from 1
again (`ExpireGeneration`), so that a number may be used twice. `EditsStaySeen` says exactly
what that allows: a copy older than an edit returns only by the fill of a fetch during which
the key expired. `outlived`, the set of these fetches, is a history variable that no guard
reads.

### Assumptions about what is not in `src/`

MongoDB: a transaction reads one state of the database, its writes become visible
together or not at all, and it fails, to be run again by the driver, when a document it
writes was changed since that state; an update of one document is atomic; unique indexes
hold. Whether a failed commit was applied is open, and the models allow both.

### Seeded faults

A definition whose comment begins with "Fault" is not part of the model. It is what the
definition next to it would be after a plausible mistake, and serves to show that the
property it is paired with in `PROJECT.json` can fail.

## 3. Runs

| run | instance | what it shows |
|---|---|---|
| `engine_match` | 5 pool slots (two NM, one HD, Shiro, TB), 2 cells, all commands, windows of length 1, timers watched to 2, turns -3 to 16; 135 735 states up to exchange of the two NM slots | types, turn order, agreement of pool and board, what validation refuses and of which commands, evidence, ways out of an expired window, the offered commands, suspension, time |
| `engine_board` | 13 slots, lower half of the board won in each of the 82 distributions without a four that give each team at least three pieces, turn 13, or 14 with one slot fewer to place, robbery by both; 50 929 states | lines, robbery and its plans as offered, and the forced tiebreaker on boards that a match from its start cannot reach in a small instance |
| `stored_offers` | as `engine_board`, stored, with tiebreaker requests | a finding, below |
| `room_start` | 3 callers, 3 settings, 2 new ids, rooms with and without an orphan; 379 632 states | one authority, one start and that when both are ready, lock of the settings, acknowledgements |
| `room_ready` | as `room_start` | a finding, below |
| `command_store` | 2 callers, 2 ids, 2 bodies, expected versions 0 and 1, clocks 1 and 2, 1 or 2 events per command; 60 164 states | one history, past states, numbering, answers, time, refinement of `MatchLog` |
| `realtime` | 1 subscriber, 1 caller, 3 ids, up to 3 commands of 1 or 2 events, pages of 2; 53 988 states | views, gaps, and under fairness the arrival of each of the up to 6 events |
| `irc_claims` | 2 publishers, then 2 workers, on an event without and one with two commands, 2 channels, 2 tokens, parking at the first failure; 536 831 states | one command under way per channel, one channel per event, refinement of `OrderedDelivery` |
| `irc_delivery` | 1 publisher and 1 worker side by side, 2 events of one command, 1 channel, parking at the second failure; 220 662 states | order of enqueueing, and under fairness the delivery of each event |
| `irc_review` | 2 callers with 2 ids and 2 bodies, 1 observation, 1 reconciler; 285 302 states | confirmation by an applied command, finality, and under fairness the end of each claim |
| `beatmaps` | 2 fetches or workers, 1 edit, 1 query, 2 versions of the document; 827 286 states | which fetches can bring back a copy older than an edit, verdicts of leases, and under fairness the arrival of metadata |
| `failure_hidden` | as `beatmaps` | a finding, below |

Why the bounds are enough. *Engine*: two cells and four placeable slots bring about every
phase, every reason for a verdict and every combination of expiry, pause and suspension
(each action fires); the conditions that need a full board are the subject of the second
run, which starts in the middle of a match: by turn 13 twelve pieces may have been placed,
and results may have gone to either team, so each start is a state some match reaches.
Calibrations are to 0 and to the whole window; one beyond a paused window, which
validation refuses too, is covered by the theorems on refusals and not by this run.
`MaxElapsed` 2 is past the end of a window of length 1, and `MaxTurn` 16 passes the two
boundaries of the rules, 11 to 14 and 15. The two NM slots are a symmetry set: no definition
tells them apart, and the run checks safety only. Only `MCBoard` restricts the
commands that are issued (`Issued`), to those that concern the board. *Room*: three requests are one
more than any property needs to fail, and a room attaches one match for good.
*Store*: two commands are enough for every pair of relations between two requests (same
id, same version, same content or not), and versions 0 to 2; more callers only repeat
these pairs, and the proofs hold for any number of them. *Gateway*: a subscriber's steps do not
interact with another's, three commands leave one for each of the gaps that matter (between
the two first reads, before a poll, between a poll and its page's last event), and a page
of 2 is smaller than what may be due. *IRC*: order and exclusion are about two jobs of a
channel and two workers that both believe to hold it, which `irc_claims` has, with a lock
that runs out under either; its specification `StagedSpec` lets the workers begin when the
events are published, which `PublishedInOrder` and the proofs make up for. `irc_delivery`
has what liveness needs: a job that fails, waits and is parked, and an event behind it.
*Review*: with two requests and a reconciler all orders of claim, release, take-over and
late commit occur; observations do not meet. *Beatmaps*: a claim that takes over from a
slow worker needs two workers, a stale fill one fetch and one edit. The instance reuses the
number 0, by an expiry after the edit; to use 1 twice takes a second invalidation, which
`EditsAreSeen` covers for any number of edits.

*Deadlock.* The engine's runs set `CHECK_DEADLOCK FALSE`: a match that has ended accepts no
command (`MatchGoesOneWay`) and the watched time is bounded. The others check it.

*Symmetry* is used for callers, ids, bodies, publishers, workers and tokens, which no
formula distinguishes; the runs that use it check no liveness property.

*Fairness.* `FairRealtime` assumes that the gateway's goroutine goes on while its connection
is open: the ticker fires again and again, the loop over a page waits for nobody, and a
database that does not answer at one tick answers at some later one (`WF` of `Poll` and
`Deliver`). Nothing is assumed of the client, who may leave at any time, of the callers or
of the store.

`server/background.go` runs each `RunOnce` on a ticker of a second, one round after the
other, for as long as the process lives; that is the fairness of the other three.
`FairDelivery`: publishers and workers go on, locks run out, and from some time on no
process is stopped in the middle of a round. Bancho may never answer and the referee may
never retry, so what follows is that each event is delivered *or* shown to need a referee.
`FairReview`: the reconcilers go on, and not every claim they list again and again is too
young or unreadable each time; requests may stop for good. `FairMetadata`: workers go on,
so that some worker claims again and again what can be claimed, and from some time on
servers stay up, the API answers and no lease runs out under a running sync; otherwise a refresh may be retried for ever.

The engine, the room and the store assume no fairness: a command is issued by a person,
who need not act, and a request may stop for good with its server. "An expired window can
be closed" is therefore stated of a state and of the steps from it (a command that closes it is
accepted there, and does), not as something that must eventually happen.

## 4. Proofs

All theorems hold for every value of the constants that satisfies the assumption named in
the module: `ConfigurationAssumption` (teams, positive windows, leaders that are not also
listed as players, finite bounds as naturals), `PoolAssumption` (one Shiro and one tiebreaker
slot), `RoomAssumption` (ids, the legacy id and "no match" differ, settings that
may start are settings), `StoreAssumption` (versions and times are naturals, and every
command produces an event, which `Execute` enforces), `RealtimeAssumption` (a page is not empty),
`PublisherAssumption` and `DeliveryAssumption` (events and their jobs are counted by naturals,
a job may be tried once at least, "none" is no channel and no token), `ReviewAssumption`
(each observation calls for one command body) and `CacheAssumption`, `MetadataAssumption`
(a document has a version, "none" is no lease).

| theorem | states |
|---|---|
| `MatchEngineProofs!TypeCorrect` | types and the order of turns |
| `MatchEngineProofs!Safety` | the safety invariants of `engine_match` and `engine_board` on play and verdicts, and `PickIsPlayable` (an open pick can be played) and `RequestIsCurrent` (a pending request can be answered) |
| `MatchEngineProofs!SuspensionFreezes`, `TimeRunsOut` | the action properties on suspension and time |
| `MatchEngineProofs!PiecesHaveOneLife`, `RobberiesEnd` | the action properties on pieces and robbery, on any board with any set of lines |
| `MatchEngineProofs!MatchGoesOneWay` | a match leads on: nothing follows its end, turns open in order, nothing used up comes back, and a tiebreaker leaves board, pool and turn as they were |
| `MatchSurfaceProofs!ValidationRefusals` | validation refuses the three named situations and nothing else |
| `MatchSurfaceProofs!RefusedCommands` | the commands that are rolled back from a stored state, exactly |
| `MatchSurfaceProofs!StoredMatch` | the match as it is stored is a match of the engine, and valid in every state |
| `MatchSurfaceProofs!ExpiryIsNoDeadEnd` | an expired window can be closed, and by whatever closes it into a state that can be stored |
| `MatchSurfaceProofs!SurfaceExact` | each actor is offered what `Execute` accepts of it, and nothing else, but for the two cases |
| `RoomStartProofs!StartIsSafe` | types, one authority, one start and none before both sides are ready |
| `RoomStartProofs!SettingsAreLocked`, `AcknowledgementsStay` | the two action properties |
| `CommandStoreProofs!StoreIsConsistent` | all invariants of `command_store` but the types, which its induction contains |
| `CommandStoreProofs!StoreImplementsLog` | `CommandStore` refines `MatchLog` |
| `RealtimeProofs!SubscribersSeeTheMatch` | views are states of the match, for pages of any size |
| `RealtimeProofs!StreamsAreGapless` | no gap is told, and a view moves on by one event at a time |
| `RealtimeProofs!SubscribersDisturbNothing` | the store under the gateway is a store, and refines `MatchLog` |
| `IrcDeliveryProofs!EnqueuedInOrder`, `EventKeepsChannel` | the publishers' invariants |
| `IrcDeliveryProofs!QueueIsKept` | the same and the types, with workers, connections and referees at work |
| `IrcDeliveryProofs!OneCommandAtATime` | one command under way per channel |
| `IrcDeliveryProofs!CommandsKeepOrder` | `IrcDelivery` refines `OrderedDelivery` |
| `IrcReviewProofs!ConfirmedByItsCommand`, `VerdictsAreFinal` | the two safety properties of `irc_review` |
| `BeatmapProofs!EditsAreSeen`, `MetadataIsConsistent` | only a fetch that outlived the key of its generation brings back a copy older than an edit, in the cache alone and with the workers |
| `BeatmapProofs!ReadyMeansStored`, `HolderSettles` | the properties of the record and its leases |

*Engine.* The invariant is `SafetyInv`: types and turn order (`TInv`), `BoardMatchesPool`,
the conjunction of the invariants that are checked (`PlayInv`) and `ReadyIsFresh`, that
nothing of a match is placed, banned or used before it starts. They are inductive only together: that a
confirmation looks for lines of the winner only is right because nobody has a line before
(`NoStandingFour`), which holds because a robbery gives nothing to the other side; that a
placement keeps pool and board in agreement uses that the slot was free; that a pick can be
played uses the stalemate check made when it was opened, for the same pool and board. The
lemmas on `HasFour`, robbery and counting carry the board's part.

The action properties need more of the records. That a suspended match resumes with the time
it had needs to know that what the suspension remembers is what it did to the clock
(`HeldInv`), and that a clock that is not paused keeps no time apart (`ClockInv`), since
`ResumeTimer` sets it going with `left`. These are inductive together with the shape of the
result and the bounds of the turn (`RecordInv`). `RobberiesEnd` counts: a robbery gains one
piece and gives two away at least (`TwoForOne`), because a plan has a line of two or three
pieces that are all the robber's (`LinesHaveTwo`, `SacrificesCostTwo`), and the robbed
piece is none of them. `MatchGoesOneWay` joins the two invariants: that no command follows the
end of a match is in the guards, but that its clock does not run on is in `ClockInv`, and that
nothing touches the board of a tiebreaker is in the evidence of its entry.

*Validation and surface.* `StateInv` is `SafetyInv`, `RecordInv` and one more fact, that
adjudication never begins while a result is awaited. It decides each part of the validation:
turn and timer by `ClockInv` and the order of turns, pool and board by `BoardMatchesPool`,
the entry into a tiebreaker and the verdict by `EvidenceSupportsOutcome` and the shape of the
result, and the three that may fail by exactly one named situation each
(`RefusalsOfState`). `RefusedCommands` then goes through the commands and asks of each which
situation it may lead to; a skip leads to none because it passes over bans and picks
only, never over an awaited result, and a request that goes on into the next turn stands
beside an open pick. A stored step is a step of the engine, so `StoredMatch`
carries every theorem of the engine over to the stored match; since it is valid in
every state, the findings on pending requests and aborts cost a refused command and never a
match that cannot be loaded.

`ExpiryIsNoDeadEnd` needs no assumption on what can be stored: in a running match whose window
is over one of the named situations may hold already, but the commands that close the window
lead out of it. A window they open has time (`RenewedHasTime`), a confirmation removes the
awaited piece, and a request that outlives the turn stands beside an open pick (`ClosingSteps`).

`SurfaceExact` takes the actors one by one. For the active team the offers of a phase are the
guards of its plays (`BansShown`, `PlacesShown`, `ShirosShown`, `RobsShown`); robbery is the part
that needs an argument, since `robberyPlans` pairs lines in its own way and `robPiece` checks the
set it is given. The referee's list is compared part by part (`RefereePlays`, `RefereeClock`,
`RefereeCourse`), where the state's invariants decide what the surface leaves unasked: a
result is awaited only with a piece on the board, a suspended match holds its suspension, and
a running one has a phase. That an open pick has a
placement to offer is `PickIsPlayable`.

*Room.* `RoomInv` adds to the checked properties that rows of the program's own matches
stay pending (nothing sets another status), that legacy rows have no snapshot, that an
automatic start is under way only for a match both sides have acknowledged, and that a
request that works on a match has one. The action properties follow from the same steps.

*Store.* `StoreInv` adds that a state's length is its version, that each audit entry has its
receipt and is no later than the snapshot, that the last number read in a transaction is
still the last if the snapshot is unchanged, and that whatever a transaction has read is not
newer than what is there. The commit is the step that matters: it is let through only where
the snapshot equals the one read, so no other commit lies between, hence the id still
has no receipt, the next version is unused and the last event is known. The refinement maps
that step to `AppendRequest`, the answers to their counterparts and the rest to stuttering.

*Gateway.* `FeedInv` stands on `StoreInv`. It adds that a loaded snapshot is still a past
state when its number is asked for, that no view is ahead of the outbox, and that a page
leaves nothing out between the view and its last event. `SequenceSplits` shows that the
number `LatestEventSequenceAtVersion` returns separates the events a version includes from
the later ones, which is what makes the two reads of a subscription safe; it needs the
order of events (`EventsInOrder`). `PageFollows` shows that a limited, sorted query leaves
no hole. A commit only adds a version and events after all there were (`StoreGrows`), so no
view or page it finds is spoilt. `StreamsAreGapless` uses in addition that every version has an
event: the event that is sent next belongs to the version of the view or to the next one, and
none between them is passed over. The gateway only reads, so `SubscribersDisturbNothing` gives
every theorem of the store under it.

*IRC.* `QueueInv` adds to the publishers' two properties what each of them knows of the
event it works on: that all earlier ones are published, and that the jobs before its place
exist in its channel. `DeliveryInv` adds the one fact order rests on (`StartedInTurn`): of a
job that was ever claimed, all earlier ones of its channel are settled, and what is settled
stays so. A claim establishes it from `Reread`, and it survives the loss of the lock between
that and `ClaimJob`, because a settled job is never reopened and, by `PublishedInOrder`, no
earlier job can appear. So the lock plays no part in the proof of order and exclusion: the
status in the filter of the update does. A connection waits only for jobs that were sent
(`PendingWasSent`). The refinement maps each send to `SendCommand` and each
acknowledgement or cancellation to `Settle`.

*Review.* The invariant says that whoever is about to confirm, a request that was answered or
a reconciler that saw a receipt, has a log entry for exactly that id and body, and that the
log only grows. Finality follows from the filters of the writes.

*Beatmaps.* `CacheInv` says of each fetch that is about to fill and during which the key did not
expire: if its generation is still current, its version is not older than that of any edit
whose invalidation is done. While the key lives its number only goes up, so an invalidation
makes every number read before it stale; `ExpireGeneration` breaks this and puts those who
have read one aside. `OldCopies` then goes through the steps that fill: a copy older than an
edit comes from none but the fetches set aside. The invariant of the records adds that a
token names the worker that claimed with it, and that a query that is about to declare a
beatmap ready has found it stored.

*Only model-checked*: the four liveness properties (`EventsReachSubscribers`,
`EventsAreDelivered`, `ClaimsEnd`, `MetadataArrives`), since what follows from fairness is out of
the prover's reach. Every other property of a passing run is a theorem. `ENABLED`, which is
out of its reach too, occurs in `OffersCanBeStored` only, which a run refutes. No theorem
needs induction over data.

## 5. Findings

Each is a run that is expected to find a violation.

- `stored_offers`: while a tiebreaker request is pending, the active strategist is offered
  placements and `Execute` accepts them, but a waiting result beside a pending request is
  refused by `validateRecoveryEvidence`, and the store rolls back: no piece can be placed
  until the other captain answers or the turn is skipped (a Shiro piece waits for no result
  and can be placed). The same property fails for the abort offered to a referee while a
  result is awaited, as the waiting piece stays on the board.
- `room_ready`: nothing moves a formal match to the ready status that the referee's start
  asks for, although the comment on `MarkStrategistReady` says it is moved.
- `failure_hidden`: a query that finds a stored beatmap without a record creates one, reads
  it as pending and declares it ready; a refresh that a worker claimed and that failed in
  between is then shown as ready and never retried.

Noted while modelling and not given a run:

*Room and engine.*
- The recovery of a room with an orphaned match is always refused: the write that clears the
  reference (`room_service.go:682`) asks for a room that has none (`repository/room.go:79`).
- A match suspended with nothing left on its timer cannot be resumed, and a timer cannot be
  calibrated to zero: a timer of duration zero is refused by the validation of stored states.
- A surrender ends a suspended match; the lifecycle table says resume, skip and abort only.
- An empty list of missing requirements means that the room can start
  (`start_requirements.go`), while a private room without a first ban fails in
  `formal_match_factory.go` after that check.
- A repeated acknowledgement sends the automatic start again, which the version it expects
  makes harmless; and the settings a match is built from may be older than those the room
  shows, if a setter finishes between the reading of the room and the transaction.

*IRC.*
- The lock of a channel spares double work and no more; order and exclusion hold without it.
- A worker that is late between `MarkSent` and `Send` may send its command when it has been
  settled already, even after later ones: `OrderedDelivery` says from when on a command may be
  sent, not that it is never repeated.
- A job found `SENT` whose worker stops before `fail` is claimed again without an attempt
  being counted, and attempts are not reset by a retry.
- If the link changes when half of an event's jobs exist, enqueueing the rest is a mismatch
  at every retry: the event stays failed, and with it the automation of the match.
- A parked job may still be settled by a late answer, though the comment on `Reject` says it
  stays until a referee retries it. An answer that cannot be written keeps the channel's gate
  until it expires, and a delivery that is still waited for when its job is cancelled makes
  later sends of that connection fail as busy.
- Jobs of one event are ordered by `created_at` in milliseconds. The model takes them to be
  in the order of enqueueing: ties and servers whose clocks differ are left out.
- The models are of one match. `SetMPLink` gives two rooms the same link without objection;
  their matches would then share a channel, whose jobs `Claim` sorts by event numbers that
  begin at 1 in each match. What is checked and proved is about a channel that one match
  uses.

*Review.*
- Whether a claim is stale is decided from the listed time though it may have been renewed
  since; an error reported after a commit releases the claim; and a command that is applied
  after its claim was released or taken over is never noted as evidence, though the comment
  in `ConfirmIRCResult` says that the reconciler finishes it.

*Beatmaps.*
- A generation can be used twice, and a stale copy be cached, though "Only write the fetched
  value when no invalidation advanced the resource generation in the meantime"
  (`fetcher.go:32`). The key of a generation has a time to live that each invalidation renews
  (`fetcher.go:275`: by default 25 hours for beatmaps, 1.5 hours for users), and `INCR` begins
  at 1 when it is gone. A fetch need not be long: it reads generation 1 and the old document
  just before the key expires, an edit writes the document, its invalidation makes the
  generation 1 again and success is told, and the fetch finds 1 and caches the old copy for
  up to a day. A fetch that read 0, also because Redis failed, and fills after a later edit's
  key has expired finds 0 again. These fetches are the exception in `EditsStaySeen`; without
  it the property is violated, in the run's instance by the second sequence and, with
  generation 1 to begin with or a second edit, by the first.
- `Patch` and `Update` write back the whole document they read, so that of two concurrent
  edits, or an edit and a sync, one may be lost, though "omitted fields keep their current
  values" (`beatmap_service.go:100`). `UserService` patches in the same way.
- Deleting a beatmap leaves its record ready; a sync does not advance the generation.

## 6. Not modelled, and the plan

Left out for good: rendering and parsing, GraphQL and HTTP mapping, single-document
administration, wiring and tools; they keep no state of their own or none that several
steps have to agree on. Most of the lines of the program are of this kind: `generated.go` and
`models_gen.go` alone are more than half of it.

Sessions (`authsession`): each operation is one Redis script, so little can interleave. What
is worth a model is a login that races with the revocation of all sessions, and the index of
a user's sessions, which expires with the latest of them.

The legacy match service works on matches of an earlier format, reading and writing whole
documents. Its writing methods refuse a formal match (`requireLegacyWritableMatch` looks at
the type of the room); a casual match, whose state is the command store's as well, they would
write. Nothing outside `services.go` refers to that service, so the path is unreachable.

Done: the engine, its validation and its surface; the room; the store and its log; the
gateway; publisher, delivery and review of IRC; cache and metadata of beatmaps; each with its
proofs. Left, in this order:

1. the composition of `CommandStore` with the engine's transitions in place of the abstract
   ones, and of its outbox with `IrcPublisher`; until then `StoredMatch` says what a stored
   match is, `StoreImplementsLog` that the store keeps any such history, and
   `SubscribersDisturbNothing` that the gateway leaves it one;
2. the metadata's sync as a refinement of a fetch: `MetadataSpec` is not `CacheSpec` step for
   step, since a worker's fetch begins with its claim;
3. sessions, then the legacy match service.
