--------------------------- MODULE BeatmapMetadata ---------------------------
(***************************************************************************)
(* The background refresh of one beatmap's metadata, and the status that   *)
(* players see of it.  A worker of each server takes the record of the     *)
(* beatmap under a lease, syncs the beatmap from the osu! API through the  *)
(* fetcher, and settles the record if the lease is still its own.  A query *)
(* creates the record when there is none, and declares it ready when the   *)
(* beatmap was stored before.                                              *)
(*                                                                         *)
(* Times are left out: a record may be due and a lease run out at any      *)
(* moment.  So are the attempts, which only set the next delay.            *)
(***************************************************************************)
EXTENDS BeatmapCache

CONSTANTS
  Queries,  \* queries of the state that may be under way at once
  NoLease

(* A token names the worker that claimed, and tells its claim from the one   *)
(* before, whose token may still be stored.                                  *)
Leases == Fetchers \X {0, 1}

ASSUME MetadataAssumption == NoLease \notin Leases

VARIABLES
  record,  \* the status of the beatmap's metadata and the lease on it
  task,    \* the lease under which each fetch is the sync of a worker
  query    \* the step each query is at

metadataVars == <<cacheVars, record, task, query>>

NoRecord == record.status = "NONE"
Pending == [status |-> "PENDING", lease |-> NoLease]
Ready == [status |-> "READY", lease |-> NoLease]
Failed == [status |-> "FAILED", lease |-> NoLease]

Works(w) == task[w] # NoLease
NewLease(w) == CHOOSE t \in {w} \X {0, 1} : t # record.lease

-----------------------------------------------------------------------------
(* RunOnce of the manager *)

(* Fault: a record under a lease is left to whoever holds it. *)
ClaimUnleased(w) ==
  /\ ~Works(w) /\ ~Fetching(w)
  /\ record.status \in {"PENDING", "FAILED"} /\ record.lease = NoLease
  /\ record' = [Pending EXCEPT !.lease = NewLease(w)]
  /\ task' = [task EXCEPT ![w] = NewLease(w)]
  /\ Becomes(w, "SYNC")
  /\ UNCHANGED <<doc, gen, cache, edit, query>>

(* The record is due, and the lease on it has run out if there is one. *)
Claim(w) ==
  /\ ~Works(w) /\ ~Fetching(w) /\ record.status \in {"PENDING", "FAILED"}
  /\ record' = [Pending EXCEPT !.lease = NewLease(w)]
  /\ task' = [task EXCEPT ![w] = NewLease(w)]
  /\ Becomes(w, "SYNC")
  /\ UNCHANGED <<doc, gen, cache, edit, query>>

(* Fault: whoever holds the lease, a pending record is settled. *)
SettleAny(w) ==
  /\ Works(w) /\ ~Fetching(w)
  /\ record' = IF record.status = "PENDING"
               THEN IF FetchAt(w, "OK") THEN Ready ELSE Failed
               ELSE record
  /\ task' = [task EXCEPT ![w] = NoLease]
  /\ UNCHANGED <<cacheVars, query>>

(* MarkReady or Fail: refused when the lease is another's. *)
Settle(w) ==
  /\ Works(w) /\ ~Fetching(w)
  /\ record' = IF record = [Pending EXCEPT !.lease = task[w]]
               THEN IF FetchAt(w, "OK") THEN Ready ELSE Failed
               ELSE record
  /\ task' = [task EXCEPT ![w] = NoLease]
  /\ UNCHANGED <<cacheVars, query>>

(* The server stops, or the write that settles the record fails. *)
StopWorker(w) ==
  /\ Works(w)
  /\ task' = [task EXCEPT ![w] = NoLease]
  /\ Becomes(w, "IDLE")
  /\ UNCHANGED <<doc, gen, cache, edit, record, query>>

-----------------------------------------------------------------------------
(* State of the manager, and Retry *)

(* ByOsuID: is the beatmap stored? *)
StateFinds(q) ==
  /\ query[q] = "IDLE"
  /\ query' = [query EXCEPT ![q] = IF Stored THEN "FOUND" ELSE "ABSENT"]
  /\ UNCHANGED <<cacheVars, record, task>>

(* Get: the answer if there is a record. *)
StateGets(q) ==
  /\ query[q] \in {"FOUND", "ABSENT"}
  /\ query' = [query EXCEPT ![q] = IF ~NoRecord THEN "IDLE"
                                   ELSE IF @ = "FOUND" THEN "ENSURE_FOUND" ELSE "ENSURE_ABSENT"]
  /\ UNCHANGED <<cacheVars, record, task>>

(* Fault: the beatmap may be declared ready although it is not stored. *)
StateEnsuresAny(q) ==
  /\ query[q] \in {"ENSURE_FOUND", "ENSURE_ABSENT"}
  /\ record' = IF NoRecord THEN Pending ELSE record
  /\ query' = [query EXCEPT ![q] = "CHECK"]
  /\ UNCHANGED <<cacheVars, task>>

(* Ensure inserts a record where there is none. *)
StateEnsures(q) ==
  /\ query[q] \in {"ENSURE_FOUND", "ENSURE_ABSENT"}
  /\ record' = IF NoRecord THEN Pending ELSE record
  /\ query' = [query EXCEPT ![q] = IF @ = "ENSURE_FOUND" THEN "CHECK" ELSE "IDLE"]
  /\ UNCHANGED <<cacheVars, task>>

(* Get again: a record that is leased or settled is the answer. *)
StateChecks(q) ==
  /\ query[q] = "CHECK"
  /\ query' = [query EXCEPT ![q] = IF record = Pending THEN "MARK" ELSE "IDLE"]
  /\ UNCHANGED <<cacheVars, record, task>>

(* MarkReady without a lease: a record under one is left alone. *)
StateMarksReady(q) ==
  /\ query[q] = "MARK"
  /\ record' = IF record.lease = NoLease THEN Ready ELSE record
  /\ query' = [query EXCEPT ![q] = "IDLE"]
  /\ UNCHANGED <<cacheVars, task>>

StopQuery(q) ==
  /\ query[q] # "IDLE"
  /\ query' = [query EXCEPT ![q] = "IDLE"]
  /\ UNCHANGED <<cacheVars, record, task>>

Retry ==
  /\ record.status = "FAILED"
  /\ record' = Pending
  /\ UNCHANGED <<cacheVars, task, query>>

-----------------------------------------------------------------------------
MetadataInit ==
  /\ CacheInit
  /\ record = [status |-> "NONE", lease |-> NoLease]
  /\ task = [w \in Fetchers |-> NoLease]
  /\ query = [q \in Queries |-> "IDLE"]

(* The steps of the cache; a worker's fetch is the sync of its claim. *)
CacheStep ==
  /\ \/ \E p \in Fetchers : (~Works(p) /\ GetBeatmap(p)) \/ Continues(p) \/ FetchFails(p)
     \/ \E e \in Edits : EditStep(e)
     \/ ExpireCache \/ ExpireGeneration
  /\ UNCHANGED <<record, task, query>>

State(q) ==
  \/ StateFinds(q) \/ StateGets(q) \/ StateEnsures(q) \/ StateChecks(q) \/ StateMarksReady(q)
  \/ StopQuery(q)

MetadataNext ==
  \/ CacheStep
  \/ \E w \in Fetchers : Claim(w) \/ Settle(w) \/ StopWorker(w)
  \/ \E q \in Queries : State(q)
  \/ Retry

MetadataSpec == MetadataInit /\ [][MetadataNext]_metadataVars

(***************************************************************************)
(* A server runs each round of its worker to the end and starts the next   *)
(* one after a pause, so that some worker goes on claiming.  From some     *)
(* time on servers stay up, the API and the stores answer, and a sync ends *)
(* before its lease does.                                                  *)
(***************************************************************************)
WorkerEnds(w) == (Continues(w) /\ UNCHANGED <<record, task, query>>) \/ Settle(w)

FairMetadata ==
  /\ MetadataSpec
  /\ SF_metadataVars(\E w \in Fetchers : Claim(w))
  /\ \A w \in Fetchers : WF_metadataVars(WorkerEnds(w))
  /\ <>[][\A w \in Fetchers :
            /\ ~StopWorker(w) /\ ~FetchFails(w)
            /\ Claim(w) => \A x \in Fetchers : Works(x) => task[x] # record.lease]_metadataVars

-----------------------------------------------------------------------------
(* Properties *)

(* Types; no two workers hold one lease, and only a pending record is leased. *)
MetadataTypeOK ==
  /\ CacheTypeOK
  /\ record \in [status : {"NONE", "PENDING", "READY", "FAILED"}, lease : Leases \cup {NoLease}]
  /\ record.lease # NoLease => record.status = "PENDING"
  /\ task \in [Fetchers -> Leases \cup {NoLease}]
  /\ \A w, x \in Fetchers : Works(w) /\ task[w] = task[x] => w = x
  /\ query \in [Queries -> {"IDLE", "FOUND", "ABSENT", "ENSURE_FOUND", "ENSURE_ABSENT",
                            "CHECK", "MARK"}]

(* Players are told that metadata is ready only of a beatmap that has been   *)
(* stored, however leases run out under slow workers (RunOnce, State).       *)
ReadyWasStored == record.status = "READY" => Stored \/ doc.v > 1

(* The outcome of a leased refresh is the one its own worker saw: a worker   *)
(* whose lease ran out settles nothing, nor does a query (MarkReady, Fail).  *)
VerdictOfHolder ==
  [][record.lease # NoLease /\ record'.status # "PENDING" =>
       \E w \in Fetchers : /\ task[w] = record.lease /\ task'[w] = NoLease
                           /\ record' = IF FetchAt(w, "OK") THEN Ready ELSE Failed]_metadataVars

(* Metadata that was asked for arrives, once the API answers and servers     *)
(* stay up: no lease of a worker that stopped and no failure keeps a record  *)
(* from being taken up again (Claim, Fail).                                  *)
MetadataArrives == record.status \in {"PENDING", "FAILED"} ~> record.status = "READY"

(* A refresh that has failed is shown until a sync succeeds (manager.go:     *)
(* "Preserve an existing pending or failed refresh state until the           *)
(* background sync actually succeeds.").                                     *)
FailureStaysVisible == [][record.status = "FAILED" => record'.status # "READY"]_metadataVars
=============================================================================
