----------------------------- MODULE BeatmapProofs -----------------------------
(***************************************************************************)
(* Proofs about the cache of a beatmap and the status of its metadata, for *)
(* any number of fetches, edits and queries.                               *)
(*                                                                         *)
(* What a fetch may fill is bounded by the edits that were told to have    *)
(* succeeded: as long as its generation is the current one, and its key    *)
(* has not expired since, the fetch has read the document after all of     *)
(* them (CurrentFill).  A generation counts up with each invalidation, and *)
(* such a fetch has none that is yet to come.                              *)
(***************************************************************************)
EXTENDS BeatmapMetadata, TLAPS

(* A document was stored at some time. *)
WasStored == Stored \/ doc.v > 1

CurrentFill ==
  \A p \in Fetchers, e \in Edits :
    FetchAt(p, "FILL") /\ p \notin outlived /\ fetch[p].gen = gen /\ EditAt(e, "DONE") =>
      fetch[p].v >= edit[e].v

FoundWasStored ==
  /\ doc.v > 0
  /\ \A p \in Fetchers : fetch[p].at \in {"FILL", "OK"} => WasStored

CacheInv == CacheTypeOK /\ CurrentFill /\ FoundWasStored

(* A metadata worker may begin a sync, or stop, where no fetch ends. *)
Restart(p, step) == step \in {"SYNC", "IDLE"} /\ Becomes(p, step) /\ UNCHANGED <<doc, gen, cache, edit>>

CacheAction ==
  CacheNext \/ (\E p \in Fetchers, step \in {"SYNC", "IDLE"} : Restart(p, step)) \/ UNCHANGED cacheVars

FetchSteps == {"IDLE", "LOAD", "SYNC", "CALL", "FILL", "OK"}
FetchStates == [at : FetchSteps, gen : Nat, v : 0..doc.v]
EditStates ==
  [at : {"IDLE", "WRITE", "INVALIDATE", "DONE", "FAILED"}, id : Nat, v : 0..doc.v]

-----------------------------------------------------------------------------
(* Initially nothing is cached, fetched or edited. *)
LEMMA CacheInitInv == CacheInit => CacheInv
  BY DEF CacheInit, CacheInv, CacheTypeOK, CurrentFill, FoundWasStored, NoFetch, NoEdit, Reading,
         FetchAt, EditAt

(* A fetch that reads a generation, begins anew or gives up fills nothing. *)
LEMMA FetchBegins ==
  ASSUME CacheInv, NEW p \in Fetchers, NEW new \in FetchStates,
         new.at \in {"IDLE", "LOAD", "SYNC", "CALL"}, new.gen \in {gen, 0},
         fetch' = [fetch EXCEPT ![p] = new], outlived' = outlived \ {p},
         UNCHANGED <<doc, gen, cache, edit>>
  PROVE  CacheInv'
<1>1. CacheTypeOK'
  BY DEF CacheInv, CacheTypeOK, Reading, FetchStates, FetchSteps
<1>2. \A q \in Fetchers : fetch'[q].at \in {"FILL", "OK"} => q # p /\ fetch'[q] = fetch[q]
  BY DEF CacheInv, CacheTypeOK
<1>3. CurrentFill'
  BY <1>2 DEF CacheInv, CurrentFill, FetchAt, EditAt
<1>4. FoundWasStored'
  BY <1>2 DEF CacheInv, FoundWasStored, WasStored, Stored
<1> QED BY <1>1, <1>3, <1>4 DEF CacheInv

LEMMA Begins ==
  ASSUME CacheInv, NEW g \in {gen, 0}, NEW step \in FetchSteps
  PROVE  [at |-> step, gen |-> g, v |-> 0] \in FetchStates
  BY DEF CacheInv, CacheTypeOK, FetchStates

LEMMA GetBeatmapInv == ASSUME CacheInv, NEW p \in Fetchers, GetBeatmap(p) PROVE CacheInv'
<1> PICK g \in {gen, 0} : fetch' = [fetch EXCEPT ![p] = [at |-> "LOAD", gen |-> g, v |-> 0]]
  BY DEF GetBeatmap, ReadsGeneration
<1> QED BY Begins, FetchBegins DEF FetchSteps, GetBeatmap, ReadsGeneration

LEMMA SyncBeatmapInv == ASSUME CacheInv, NEW p \in Fetchers, SyncBeatmap(p) PROVE CacheInv'
<1> PICK g \in {gen, 0} : fetch' = [fetch EXCEPT ![p] = [at |-> "CALL", gen |-> g, v |-> 0]]
  BY DEF SyncBeatmap, ReadsGeneration
<1> QED BY Begins, FetchBegins DEF FetchSteps, SyncBeatmap, ReadsGeneration

LEMMA BecomesInv ==
  ASSUME CacheInv, NEW p \in Fetchers, NEW step \in {"IDLE", "SYNC"}, Becomes(p, step),
         UNCHANGED <<doc, gen, cache, edit>>
  PROVE  CacheInv'
<1> DEFINE new == [NoFetch EXCEPT !.at = step]
<1>1. new \in FetchStates /\ new.at = step /\ new.gen = 0
  BY DEF NoFetch, CacheInv, CacheTypeOK, FetchStates, FetchSteps
<1>2. fetch' = [fetch EXCEPT ![p] = new] /\ outlived' = outlived \ {p}
  BY DEF Becomes
<1> HIDE DEF new
<1> QED BY <1>1, <1>2, FetchBegins

LEMMA LoadStoredInv == ASSUME CacheInv, NEW p \in Fetchers, LoadStored(p) PROVE CacheInv'
<1> USE DEF LoadStored, FetchAt, Holding
<1>0. /\ doc \in [v : Nat, id : Nat]
      /\ fetch \in [Fetchers -> FetchStates]
      /\ \A e \in Edits : edit[e].v \in 0..doc.v
  BY DEF CacheInv, CacheTypeOK, FetchStates, FetchSteps
<1>1. CacheTypeOK'
  <2>1. fetch'[p] \in FetchStates /\ fetch'[p].gen = fetch[p].gen
    BY <1>0 DEF FetchStates, FetchSteps
  <2>2. fetch' \in [Fetchers -> FetchStates]
    BY <1>0, <2>1
  <2>3. \A q \in Fetchers : Reading(q)' /\ q \notin outlived => fetch'[q].gen <= gen
    BY <1>0, <2>1 DEF CacheInv, CacheTypeOK, Reading
  <2> QED BY <2>2, <2>3 DEF CacheInv, CacheTypeOK, FetchStates, FetchSteps
<1>2. fetch'[p].v = doc.v /\ \A q \in Fetchers : q # p => fetch'[q] = fetch[q]
  BY <1>0 DEF FetchStates
<1>3. CurrentFill'
  BY <1>0, <1>2 DEF CacheInv, CurrentFill, EditAt
<1>4. FoundWasStored'
  BY <1>2 DEF CacheInv, FoundWasStored, WasStored, Stored
<1> QED BY <1>1, <1>3, <1>4 DEF CacheInv

LEMMA UpsertInv == ASSUME CacheInv, NEW p \in Fetchers, UpsertOsuFields(p) PROVE CacheInv'
<1> PICK v \in {doc.v, doc.v + 1} :
      /\ doc' = [v |-> v, id |-> IF Stored THEN doc.id ELSE v]
      /\ fetch' = [fetch EXCEPT ![p] = Holding(@, v)]
  BY DEF UpsertOsuFields
<1> USE DEF UpsertOsuFields, FetchAt, Holding
<1>0. /\ doc \in [v : Nat, id : Nat] /\ doc.id <= doc.v /\ doc.v > 0
      /\ fetch \in [Fetchers -> FetchStates]
      /\ edit \in [Edits -> EditStates]
      /\ cache \in 0..doc.v
  BY DEF CacheInv, CacheTypeOK, FoundWasStored, FetchStates, FetchSteps, EditStates
<1>1. v \in Nat /\ v >= doc.v /\ doc'.v = v /\ doc'.id # 0 /\ doc' \in [v : Nat, id : Nat] /\ doc'.id <= v
  BY <1>0 DEF Stored
<1>2. /\ fetch'[p].v = v /\ fetch'[p].gen = fetch[p].gen /\ fetch'[p].at = "FILL"
      /\ \A q \in Fetchers : q # p => fetch'[q] = fetch[q]
  BY <1>0 DEF FetchStates
<1>3. fetch' \in [Fetchers -> [at : FetchSteps, gen : Nat, v : 0..doc'.v]]
  <2>1. \A q \in Fetchers : fetch[q] \in [at : FetchSteps, gen : Nat, v : 0..doc'.v]
    BY <1>0, <1>1 DEF FetchStates
  <2>2. fetch'[p] \in [at : FetchSteps, gen : Nat, v : 0..doc'.v]
    BY <1>0, <1>1 DEF FetchStates, FetchSteps
  <2> QED BY <1>0, <1>2, <2>1, <2>2
<1>4. edit' \in [Edits -> [at : {"IDLE", "WRITE", "INVALIDATE", "DONE", "FAILED"},
                           id : Nat, v : 0..doc'.v]]
  BY <1>0, <1>1 DEF EditStates
<1>5. CacheTypeOK'
  <2>1. \A q \in Fetchers : Reading(q)' /\ q \notin outlived => fetch'[q].gen <= gen
    BY <1>0, <1>2 DEF CacheInv, CacheTypeOK, Reading
  <2> QED BY <1>0, <1>1, <1>3, <1>4, <2>1 DEF CacheInv, CacheTypeOK, FetchSteps
<1>6. CurrentFill'
  BY <1>0, <1>1, <1>2 DEF CacheInv, CurrentFill, EditAt, EditStates
<1>7. FoundWasStored'
  BY <1>0, <1>1 DEF FoundWasStored, WasStored, Stored
<1> QED BY <1>5, <1>6, <1>7 DEF CacheInv

LEMMA FillInv == ASSUME CacheInv, NEW p \in Fetchers, CacheIfGeneration(p) PROVE CacheInv'
<1> USE DEF CacheIfGeneration, FetchAt
<1>0. /\ doc \in [v : Nat, id : Nat]
      /\ fetch \in [Fetchers -> FetchStates]
      /\ edit \in [Edits -> EditStates]
  BY DEF CacheInv, CacheTypeOK, FetchStates, FetchSteps, EditStates
<1>1. /\ fetch' \in [Fetchers -> FetchStates]
      /\ fetch'[p].at = "OK" /\ outlived' = outlived \ {p}
      /\ \A q \in Fetchers : q # p => fetch'[q] = fetch[q]
  BY <1>0 DEF Becomes, NoFetch, FetchStates, FetchSteps
<1>2. cache' = cache \/ (cache' = fetch[p].v /\ fetch[p].gen = gen)
  OBVIOUS
<1>3. CacheTypeOK'
  <2>1. \A q \in Fetchers : Reading(q)' /\ q \notin outlived' => fetch'[q].gen <= gen
    BY <1>1 DEF CacheInv, CacheTypeOK, Reading
  <2>2. cache' \in 0..doc.v
    BY <1>0, <1>2 DEF CacheInv, CacheTypeOK, FetchStates
  <2> QED BY <1>0, <1>1, <2>1, <2>2 DEF CacheInv, CacheTypeOK, FetchStates, FetchSteps
<1>4. CurrentFill'
  BY <1>1 DEF CacheInv, CurrentFill, EditAt
<1>5. FoundWasStored'
  BY <1>1 DEF CacheInv, FoundWasStored, WasStored, Stored
<1> QED BY <1>3, <1>4, <1>5 DEF CacheInv

(* A fetch that has read a generation has outlived it when its key expires. *)
LEMMA ExpiryInv == ASSUME CacheInv, ExpireCache \/ ExpireGeneration PROVE CacheInv'
<1>1. CASE ExpireCache
  BY <1>1 DEF ExpireCache, CacheInv, CacheTypeOK, CurrentFill, FoundWasStored, WasStored, Stored,
              Reading, FetchAt, EditAt
<1>2. CASE ExpireGeneration
  <2>1. /\ gen' = 0 /\ UNCHANGED <<doc, cache, fetch, edit>>
        /\ outlived' = outlived \cup {p \in Fetchers : Reading(p)}
    BY <1>2 DEF ExpireGeneration
  <2>2. \A p \in Fetchers : Reading(p)' => p \in outlived'
    BY <2>1 DEF Reading
  <2>3. CacheTypeOK'
    BY <2>1, <2>2 DEF CacheInv, CacheTypeOK
  <2>4. CurrentFill'
    BY <2>2 DEF CurrentFill, Reading, FetchAt
  <2>5. FoundWasStored'
    BY <2>1 DEF CacheInv, FoundWasStored, WasStored, Stored
  <2> QED BY <2>3, <2>4, <2>5 DEF CacheInv
<1> QED BY <1>1, <1>2

-----------------------------------------------------------------------------
(* A write of the document that is not yet invalidated tells nobody success. *)
LEMMA WriteInv ==
  ASSUME CacheInv, NEW e \in Edits, UNCHANGED <<gen, cache, fetch, outlived>>,
         doc' \in [v : Nat, id : Nat], doc'.id <= doc'.v, doc'.v >= doc.v, WasStored',
         edit' = [edit EXCEPT ![e] = [at |-> "INVALIDATE", id |-> 0, v |-> doc'.v]]
  PROVE  CacheInv'
<1>0. /\ doc \in [v : Nat, id : Nat] /\ doc.v > 0
      /\ cache \in 0..doc.v
      /\ fetch \in [Fetchers -> FetchStates]
      /\ edit \in [Edits -> EditStates]
  BY DEF CacheInv, CacheTypeOK, FoundWasStored, FetchStates, FetchSteps, EditStates
<1>1. fetch' \in [Fetchers -> [at : FetchSteps, gen : Nat, v : 0..doc'.v]]
  BY <1>0 DEF FetchStates
<1>2. edit' \in [Edits -> [at : {"IDLE", "WRITE", "INVALIDATE", "DONE", "FAILED"},
                           id : Nat, v : 0..doc'.v]]
  BY <1>0 DEF EditStates
<1>3. /\ edit'[e].at = "INVALIDATE"
      /\ \A x \in Edits : x # e => edit'[x] = edit[x]
  BY <1>0
<1>4. CacheTypeOK'
  BY <1>0, <1>1, <1>2 DEF CacheInv, CacheTypeOK, FetchSteps, Reading
<1>5. CurrentFill'
  BY <1>3 DEF CacheInv, CurrentFill, EditAt, FetchAt
<1>6. FoundWasStored'
  BY <1>0 DEF FoundWasStored
<1> QED BY <1>4, <1>5, <1>6 DEF CacheInv

LEMMA EditsWrite ==
  ASSUME CacheInv, NEW e \in Edits, Create(e) \/ Update(e) \/ Delete(e) PROVE CacheInv'
<1>0. doc \in [v : Nat, id : Nat] /\ doc.id <= doc.v /\ doc.v > 0
  BY DEF CacheInv, CacheTypeOK, FoundWasStored
<1>1. /\ doc' \in [v : Nat, id : Nat]
      /\ doc'.id <= doc'.v /\ doc'.v >= doc.v
      /\ doc'.id # 0 \/ doc'.v > 1
  <2>1. CASE Create(e)
    BY <1>0, <2>1 DEF Create
  <2>2. CASE Update(e)
    BY <1>0, <2>2 DEF Update
  <2>3. CASE Delete(e)
    <3>1. doc' = [v |-> doc.v + 1, id |-> 0]
      BY <2>3 DEF Delete
    <3> QED BY <1>0, <3>1
  <2> QED BY <2>1, <2>2, <2>3
<1>2. WasStored'
  BY <1>1 DEF WasStored, Stored
<1>3. /\ UNCHANGED <<gen, cache, fetch, outlived>>
      /\ edit' = [edit EXCEPT ![e] = [at |-> "INVALIDATE", id |-> 0, v |-> doc'.v]]
  BY DEF Create, Update, Delete, Writes
<1> QED BY <1>1, <1>2, <1>3, WriteInv

(* An invalidation leaves behind every generation read since the key's last  *)
(* expiry.                                                                   *)
LEMMA Invalidated ==
  ASSUME CacheInv, NEW e \in Edits, NEW new \in EditStates,
         gen' = gen + 1, cache' = 0, edit' = [edit EXCEPT ![e] = new],
         UNCHANGED <<doc, fetch, outlived>>
  PROVE  CacheInv'
<1>0. /\ gen \in Nat
      /\ fetch \in [Fetchers -> FetchStates]
      /\ edit \in [Edits -> EditStates]
  BY DEF CacheInv, CacheTypeOK, FetchStates, FetchSteps, EditStates
<1>1. CacheTypeOK'
  <2>1. \A p \in Fetchers : Reading(p)' /\ p \notin outlived' => fetch'[p].gen <= gen'
    BY <1>0 DEF CacheInv, CacheTypeOK, Reading, FetchStates
  <2>2. cache' \in 0..doc'.v
    BY DEF CacheInv, CacheTypeOK
  <2>3. edit' \in [Edits -> EditStates]
    BY <1>0
  <2> QED BY <1>0, <2>1, <2>2, <2>3 DEF CacheInv, CacheTypeOK, EditStates
<1>2. CurrentFill'
  BY <1>0 DEF CacheInv, CacheTypeOK, CurrentFill, Reading, FetchAt, FetchStates
<1>3. FoundWasStored'
  BY DEF CacheInv, FoundWasStored, WasStored, Stored
<1> QED BY <1>1, <1>2, <1>3 DEF CacheInv

LEMMA InvalidateInv == ASSUME CacheInv, NEW e \in Edits, InvalidateBeatmap(e) PROVE CacheInv'
<1>1. edit[e] \in EditStates
  BY DEF CacheInv, CacheTypeOK, EditStates
<1>2. edit' = [edit EXCEPT ![e] = [edit[e] EXCEPT !.at = "DONE"]]
  BY DEF InvalidateBeatmap
<1>3. [edit[e] EXCEPT !.at = "DONE"] \in EditStates
  BY <1>1 DEF EditStates
<1> QED BY <1>2, <1>3, Invalidated DEF InvalidateBeatmap

LEMMA EditFailsInv == ASSUME CacheInv, NEW e \in Edits, EditFails(e) PROVE CacheInv'
<1> DEFINE new == [NoEdit EXCEPT !.at = "FAILED"]
<1>0. edit' = [edit EXCEPT ![e] = new] /\ UNCHANGED <<doc, fetch, outlived>>
  BY DEF EditFails
<1>1. new \in EditStates /\ new.at = "FAILED"
  BY DEF CacheInv, CacheTypeOK, EditStates, NoEdit
<1> HIDE DEF new
<1>2. CASE gen' = gen + 1 /\ cache' = 0
  BY <1>0, <1>1, <1>2, Invalidated
<1>3. CASE UNCHANGED <<gen, cache>>
  <2>1. edit' \in [Edits -> EditStates] /\ \A x \in Edits : EditAt(x, "DONE")' => edit'[x] = edit[x]
    BY <1>0, <1>1 DEF CacheInv, CacheTypeOK, EditStates, EditAt
  <2>2. CacheTypeOK'
    BY <1>0, <1>3, <2>1 DEF CacheInv, CacheTypeOK, EditStates, Reading
  <2>3. CurrentFill'
    BY <1>0, <1>3, <2>1 DEF CacheInv, CurrentFill, EditAt, FetchAt
  <2>4. FoundWasStored'
    BY <1>0 DEF CacheInv, FoundWasStored, WasStored, Stored
  <2> QED BY <2>2, <2>3, <2>4 DEF CacheInv
<1> QED BY <1>2, <1>3 DEF EditFails

LEMMA ReadByIDInv == ASSUME CacheInv, NEW e \in Edits, ReadByID(e) PROVE CacheInv'
<1> DEFINE new == [at |-> "WRITE", id |-> doc.id, v |-> 0]
<1>0. edit' = [edit EXCEPT ![e] = new] /\ UNCHANGED <<doc, gen, cache, fetch, outlived>>
  BY DEF ReadByID
<1>1. new \in EditStates
  BY DEF CacheInv, CacheTypeOK, EditStates
<1>2. edit' \in [Edits -> EditStates] /\ \A x \in Edits : EditAt(x, "DONE")' => edit'[x] = edit[x]
  BY <1>0, <1>1 DEF CacheInv, CacheTypeOK, EditStates, EditAt
<1>3. CacheTypeOK'
  BY <1>0, <1>2 DEF CacheInv, CacheTypeOK, EditStates, Reading
<1>4. CurrentFill'
  BY <1>0, <1>2 DEF CacheInv, CurrentFill, EditAt, FetchAt
<1>5. FoundWasStored'
  BY <1>0 DEF CacheInv, FoundWasStored, WasStored, Stored
<1> QED BY <1>3, <1>4, <1>5 DEF CacheInv

-----------------------------------------------------------------------------
LEMMA CacheStepInv == ASSUME CacheInv, CacheAction PROVE CacheInv'
<1>1. CASE CacheNext
  <2>1. ASSUME NEW p \in Fetchers, GetBeatmap(p) \/ Continues(p) \/ FetchFails(p) PROVE CacheInv'
    <3>1. CASE GetBeatmap(p)
      BY <3>1, GetBeatmapInv
    <3>2. CASE LoadStored(p)
      BY <3>2, LoadStoredInv
    <3>3. CASE LoadNothing(p)
      BY <3>3, BecomesInv DEF LoadNothing
    <3>4. CASE SyncBeatmap(p)
      BY <3>4, SyncBeatmapInv
    <3>5. CASE UpsertOsuFields(p)
      BY <3>5, UpsertInv
    <3>6. CASE CacheIfGeneration(p)
      BY <3>6, FillInv
    <3>7. CASE FetchFails(p)
      BY <3>7, BecomesInv DEF FetchFails
    <3> QED BY <2>1, <3>1, <3>2, <3>3, <3>4, <3>5, <3>6, <3>7 DEF Continues
  <2>2. ASSUME NEW e \in Edits, EditStep(e) PROVE CacheInv'
    BY <2>2, EditsWrite, ReadByIDInv, InvalidateInv, EditFailsInv DEF EditStep
  <2>3. CASE ExpireCache \/ ExpireGeneration
    BY <2>3, ExpiryInv
  <2> QED BY <1>1, <2>1, <2>2, <2>3 DEF CacheNext
<1>2. ASSUME NEW p \in Fetchers, NEW step \in {"SYNC", "IDLE"}, Restart(p, step) PROVE CacheInv'
  BY <1>2, BecomesInv DEF Restart
<1>3. CASE UNCHANGED cacheVars
  BY <1>3 DEF cacheVars, CacheInv, CacheTypeOK, CurrentFill, FoundWasStored, WasStored, Stored,
              Reading, FetchAt, EditAt
<1> QED BY <1>1, <1>2, <1>3 DEF CacheAction

(* An older copy enters the cache by the fill of a fetch, and of one that    *)
(* has outlived its generation.                                              *)
LEMMA OldCopies ==
  ASSUME CacheInv, CacheAction, NEW e \in Edits, Undone(e)'
  PROVE  Undone(e) \/ \E p \in outlived : Fills(p)
<1>1. CASE cache' = cache /\ (EditAt(e, "DONE")' => edit'[e] = edit[e])
  BY <1>1 DEF Undone, EditAt
<1>2. cache' # 0
  BY DEF Undone
<1>3. ASSUME NEW p \in Fetchers, CacheIfGeneration(p)
      PROVE  Undone(e) \/ \E q \in outlived : Fills(q)
  <2>1. edit' = edit
    BY <1>3 DEF CacheIfGeneration
  <2>2. CASE cache' = cache
    BY <1>1, <2>1, <2>2
  <2>3. CASE cache' # cache
    <3>1. cache' = fetch[p].v /\ fetch[p].gen = gen /\ FetchAt(p, "FILL")
      BY <1>3, <2>3 DEF CacheIfGeneration
    <3>2. fetch'[p].at = "OK"
      BY <1>3 DEF CacheIfGeneration, Becomes, NoFetch, CacheInv, CacheTypeOK
    <3>3. Fills(p)
      BY <2>3, <3>1, <3>2 DEF Fills, FetchAt
    <3>4. EditAt(e, "DONE") /\ ~(fetch[p].v >= edit[e].v)
      BY <2>1, <3>1 DEF Undone, EditAt, CacheInv, CacheTypeOK
    <3>5. p \in outlived
      BY <3>1, <3>4 DEF CacheInv, CurrentFill
    <3> QED BY <3>3, <3>5
  <2> QED BY <2>2, <2>3
<1>4. ASSUME NEW x \in Edits, EditStep(x) PROVE Undone(e) \/ \E q \in outlived : Fills(q)
  <2>1. ~InvalidateBeatmap(x)
    BY <1>2 DEF InvalidateBeatmap
  <2>2. cache' = cache
    BY <1>2, <1>4, <2>1 DEF EditStep, Create, ReadByID, Update, Delete, EditFails
  <2>3. EditAt(e, "DONE")' => edit'[e] = edit[e]
    <3>1. \E new : edit' = [edit EXCEPT ![x] = new] /\ new.at # "DONE"
      BY <1>4, <2>1 DEF EditStep, Create, ReadByID, Update, Delete, EditFails, Writes, NoEdit
    <3> QED BY <3>1 DEF EditAt, CacheInv, CacheTypeOK
  <2> QED BY <1>1, <2>2, <2>3
<1>5. CASE UNCHANGED <<cache, edit>>
  BY <1>1, <1>5
<1>6. \/ \E p \in Fetchers : CacheIfGeneration(p)
      \/ \E x \in Edits : EditStep(x)
      \/ UNCHANGED <<cache, edit>>
  BY <1>2 DEF CacheAction, CacheNext, Continues, GetBeatmap, LoadStored, LoadNothing, SyncBeatmap,
              UpsertOsuFields, FetchFails, ExpireCache, ExpireGeneration, Restart, cacheVars
<1> QED BY <1>3, <1>4, <1>5, <1>6

(* Once an administrator was told that an edit succeeded, only a fetch       *)
(* during which the generation's key expired brings an older document back   *)
(* into the cache (EditsStaySeen), with any number of fetches and edits      *)
(* (cacheIfGeneration, invalidate).                                          *)
THEOREM EditsAreSeen == CacheSpec => EditsStaySeen
<1>1. CacheInv /\ [CacheNext]_cacheVars => CacheInv'
  BY CacheStepInv DEF CacheAction
<1>2. CacheInv /\ [CacheNext]_cacheVars =>
        [\A e \in Edits : Undone(e)' => Undone(e) \/ \E p \in outlived : Fills(p)]_cacheVars
  BY OldCopies DEF CacheAction
<1> QED BY CacheInitInv, <1>1, <1>2, PTL DEF CacheSpec, EditsStaySeen

-----------------------------------------------------------------------------
(* What the record says, the cache's steps leave alone. *)
TaskOfItsOwn == \A w \in Fetchers : Works(w) => task[w][1] = w

MetadataTypes ==
  /\ record \in [status : {"NONE", "PENDING", "READY", "FAILED"}, lease : Leases \cup {NoLease}]
  /\ record.lease # NoLease => record.status = "PENDING"
  /\ task \in [Fetchers -> Leases \cup {NoLease}]
  /\ query \in [Queries -> {"IDLE", "FOUND", "ABSENT", "ENSURE_FOUND", "ENSURE_ABSENT",
                            "CHECK", "MARK"}]

FoundByQuery ==
  \A q \in Queries : query[q] \in {"FOUND", "ENSURE_FOUND", "CHECK", "MARK"} => WasStored

ReadyFound == record.status = "READY" => WasStored

RecordInv == MetadataTypes /\ TaskOfItsOwn /\ FoundByQuery /\ ReadyFound

MetadataInv == CacheInv /\ RecordInv

LEMMA MetadataInitInv == MetadataInit => MetadataInv
<1> SUFFICES ASSUME MetadataInit PROVE MetadataInv
  OBVIOUS
<1>1. CacheInv
  BY CacheInitInv DEF MetadataInit
<1>2. RecordInv
  BY MetadataAssumption DEF MetadataInit, RecordInv, MetadataTypes, TaskOfItsOwn, FoundByQuery,
                            ReadyFound, Works
<1> QED BY <1>1, <1>2 DEF MetadataInv

(* Every step is one that the cache allows. *)
LEMMA StepsOfTheCache == [MetadataNext]_metadataVars => CacheAction
<1>1. CacheStep => CacheNext
  BY DEF CacheStep, CacheNext
<1>2. ASSUME NEW w \in Fetchers, Claim(w) PROVE Restart(w, "SYNC")
  BY <1>2 DEF Claim, Restart
<1>3. ASSUME NEW w \in Fetchers, StopWorker(w) PROVE Restart(w, "IDLE")
  BY <1>3 DEF StopWorker, Restart
<1>4. ASSUME NEW w \in Fetchers, Settle(w) PROVE UNCHANGED cacheVars
  BY <1>4 DEF Settle
<1>5. ASSUME NEW q \in Queries, State(q) PROVE UNCHANGED cacheVars
  BY <1>5 DEF State, StateFinds, StateGets, StateEnsures, StateChecks, StateMarksReady, StopQuery
<1>6. Retry => UNCHANGED cacheVars
  BY DEF Retry
<1>7. UNCHANGED metadataVars => UNCHANGED cacheVars
  BY DEF metadataVars
<1> QED BY <1>1, <1>2, <1>3, <1>4, <1>5, <1>6, <1>7 DEF MetadataNext, CacheAction

(* That a document was stored stays true. *)
LEMMA StoredForEver == ASSUME CacheInv, CacheAction, WasStored PROVE WasStored'
<1>0. doc \in [v : Nat, id : Nat] /\ doc.v > 0
  BY DEF CacheInv, CacheTypeOK, FoundWasStored
<1>1. ASSUME NEW p \in Fetchers, UpsertOsuFields(p) PROVE WasStored'
  BY <1>0, <1>1 DEF UpsertOsuFields, WasStored, Stored
<1>2. ASSUME NEW e \in Edits, Create(e) \/ Update(e) \/ Delete(e) PROVE WasStored'
  <2>1. CASE Create(e)
    BY <1>0, <2>1 DEF Create, WasStored, Stored
  <2>2. CASE Update(e)
    BY <1>0, <2>2 DEF Update, WasStored, Stored
  <2>3. CASE Delete(e)
    BY <1>0, <2>3 DEF Delete, WasStored, Stored
  <2> QED BY <1>2, <2>1, <2>2, <2>3
<1>3. ASSUME doc' = doc PROVE WasStored'
  BY <1>3 DEF WasStored, Stored
<1>4. \/ \E p \in Fetchers : UpsertOsuFields(p)
      \/ \E e \in Edits : Create(e) \/ Update(e) \/ Delete(e)
      \/ doc' = doc
  BY DEF CacheAction, CacheNext, Continues, GetBeatmap, LoadStored, LoadNothing, SyncBeatmap,
         CacheIfGeneration, FetchFails, EditStep, ReadByID, InvalidateBeatmap, EditFails,
         ExpireCache, ExpireGeneration, Restart, cacheVars
<1> QED BY <1>1, <1>2, <1>3, <1>4

LEMMA CacheStepRecord ==
  ASSUME MetadataInv, CacheAction, UNCHANGED <<record, task, query>> PROVE RecordInv'
  BY StoredForEver DEF MetadataInv, RecordInv, MetadataTypes, TaskOfItsOwn, FoundByQuery,
                       ReadyFound, Works

LEMMA ClaimRecord == ASSUME MetadataInv, NEW w \in Fetchers, Claim(w) PROVE RecordInv'
<1>1. \E t \in {w} \X {0, 1} : t # record.lease
  <2>1. <<w, 0>> \in {w} \X {0, 1} /\ <<w, 1>> \in {w} \X {0, 1} /\ <<w, 0>> # <<w, 1>>
    OBVIOUS
  <2> QED BY <2>1
<1>2. NewLease(w) \in {w} \X {0, 1}
  BY <1>1 DEF NewLease
<1>3. NewLease(w) \in Leases /\ NewLease(w)[1] = w
  BY <1>2 DEF Leases
<1> HIDE DEF NewLease
<1>4. /\ record' = [status |-> "PENDING", lease |-> NewLease(w)]
      /\ task' = [task EXCEPT ![w] = NewLease(w)]
      /\ query' = query /\ doc' = doc
  BY DEF Claim, Pending
<1>5. MetadataTypes'
  BY <1>3, <1>4 DEF MetadataInv, RecordInv, MetadataTypes
<1>6. TaskOfItsOwn'
  BY <1>3, <1>4 DEF MetadataInv, RecordInv, MetadataTypes, TaskOfItsOwn, Works
<1>7. FoundByQuery' /\ ReadyFound'
  BY <1>4 DEF MetadataInv, RecordInv, FoundByQuery, ReadyFound, WasStored, Stored
<1> QED BY <1>5, <1>6, <1>7 DEF RecordInv

(* A sync that ended well has stored the document it settles for. *)
LEMMA SettleRecord == ASSUME MetadataInv, NEW w \in Fetchers, Settle(w) PROVE RecordInv'
<1>0. /\ record' \in {record, Ready, Failed}
      /\ record' = Ready => FetchAt(w, "OK") \/ record = Ready
      /\ task' = [task EXCEPT ![w] = NoLease]
      /\ query' = query /\ doc' = doc
  BY DEF Settle, cacheVars, Ready, Failed
<1>1. MetadataTypes'
  BY <1>0 DEF MetadataInv, RecordInv, MetadataTypes, Ready, Failed
<1>2. TaskOfItsOwn'
  BY <1>0 DEF MetadataInv, RecordInv, MetadataTypes, TaskOfItsOwn, Works
<1>3. FoundByQuery'
  BY <1>0 DEF MetadataInv, RecordInv, FoundByQuery, WasStored, Stored
<1>4. FetchAt(w, "OK") => WasStored
  BY DEF MetadataInv, CacheInv, FoundWasStored, FetchAt
<1>5. ReadyFound'
  BY <1>0, <1>4 DEF MetadataInv, RecordInv, ReadyFound, WasStored, Stored, Ready, Failed
<1> QED BY <1>1, <1>2, <1>3, <1>5 DEF RecordInv

LEMMA StopRecord == ASSUME MetadataInv, NEW w \in Fetchers, StopWorker(w) PROVE RecordInv'
<1>0. task' = [task EXCEPT ![w] = NoLease] /\ UNCHANGED <<doc, record, query>>
  BY DEF StopWorker
<1> QED BY <1>0 DEF MetadataInv, RecordInv, MetadataTypes, TaskOfItsOwn, FoundByQuery, ReadyFound,
                    WasStored, Stored, Works

LEMMA StateRecord == ASSUME MetadataInv, NEW q \in Queries, State(q) PROVE RecordInv'
<1> USE DEF MetadataInv, RecordInv
<1>0. doc' = doc /\ task' = task
  BY DEF State, StateFinds, StateGets, StateEnsures, StateChecks, StateMarksReady, StopQuery, cacheVars
<1>1. TaskOfItsOwn' /\ (WasStored' <=> WasStored)
  BY <1>0 DEF TaskOfItsOwn, Works, WasStored, Stored
<1>2. CASE StateFinds(q)
  BY <1>1, <1>2 DEF StateFinds, MetadataTypes, FoundByQuery, ReadyFound, WasStored
<1>3. CASE StateGets(q)
  BY <1>1, <1>3 DEF StateGets, MetadataTypes, FoundByQuery, ReadyFound
<1>4. CASE StateEnsures(q)
  BY <1>1, <1>4 DEF StateEnsures, MetadataTypes, FoundByQuery, ReadyFound, Pending
<1>5. CASE StateChecks(q)
  BY <1>1, <1>5 DEF StateChecks, MetadataTypes, FoundByQuery, ReadyFound
<1>6. CASE StateMarksReady(q)
  BY <1>1, <1>6 DEF StateMarksReady, MetadataTypes, FoundByQuery, ReadyFound, Ready
<1>7. CASE StopQuery(q)
  BY <1>1, <1>7 DEF StopQuery, MetadataTypes, FoundByQuery, ReadyFound
<1> QED BY <1>2, <1>3, <1>4, <1>5, <1>6, <1>7 DEF State

LEMMA MetadataStepInv == MetadataInv /\ [MetadataNext]_metadataVars => MetadataInv'
<1> SUFFICES ASSUME MetadataInv, [MetadataNext]_metadataVars PROVE MetadataInv'
  OBVIOUS
<1>1. CacheAction
  BY StepsOfTheCache
<1>2. CacheInv'
  BY <1>1, CacheStepInv DEF MetadataInv
<1>3. RecordInv'
  <2>1. CASE CacheStep
    BY <1>1, <2>1, CacheStepRecord DEF CacheStep
  <2>2. ASSUME NEW w \in Fetchers, Claim(w) \/ Settle(w) \/ StopWorker(w) PROVE RecordInv'
    BY <2>2, ClaimRecord, SettleRecord, StopRecord
  <2>3. ASSUME NEW q \in Queries, State(q) PROVE RecordInv'
    BY <2>3, StateRecord
  <2>4. CASE Retry
    BY <2>4 DEF Retry, MetadataInv, RecordInv, MetadataTypes, TaskOfItsOwn, FoundByQuery, ReadyFound,
                WasStored, Stored, Works, Pending, cacheVars
  <2>5. CASE UNCHANGED metadataVars
    BY <1>1, <2>5, CacheStepRecord DEF metadataVars
  <2> QED BY <2>1, <2>2, <2>3, <2>4, <2>5 DEF MetadataNext
<1> QED BY <1>2, <1>3 DEF MetadataInv

LEMMA MetadataAlways == MetadataSpec => []MetadataInv
  BY MetadataInitInv, MetadataStepInv, PTL DEF MetadataSpec

-----------------------------------------------------------------------------
(* Under the background refresh too, only a fetch during which the           *)
(* generation's key expired undoes an acknowledged edit in the cache         *)
(* (EditsStaySeen), and the state of cache and records stays well formed     *)
(* (MetadataTypeOK), with any number of workers, edits and queries.          *)
THEOREM MetadataIsConsistent == MetadataSpec => []MetadataTypeOK /\ EditsStaySeen
<1>1. TaskOfItsOwn => \A w, x \in Fetchers : Works(w) /\ task[w] = task[x] => w = x
  <2> SUFFICES ASSUME TaskOfItsOwn, NEW w \in Fetchers, NEW x \in Fetchers,
                      Works(w), task[w] = task[x]
               PROVE  w = x
    OBVIOUS
  <2>1. task[w][1] = w /\ task[x][1] = x
    BY DEF TaskOfItsOwn, Works
  <2> QED BY <2>1
<1>2. MetadataInv => MetadataTypeOK
  BY <1>1 DEF MetadataInv, CacheInv, RecordInv, MetadataTypes, MetadataTypeOK
<1>3. MetadataInv /\ [MetadataNext]_metadataVars =>
        [\A e \in Edits : Undone(e)' => Undone(e) \/ \E p \in outlived : Fills(p)]_cacheVars
  BY StepsOfTheCache, OldCopies DEF MetadataInv
<1> QED BY <1>2, <1>3, MetadataAlways, PTL DEF EditsStaySeen, MetadataSpec

(* Metadata is never said to be ready of a beatmap that was never stored     *)
(* (ReadyWasStored: State, RunOnce).                                         *)
THEOREM ReadyMeansStored == MetadataSpec => []ReadyWasStored
<1>1. MetadataInv => ReadyWasStored
  BY DEF MetadataInv, RecordInv, ReadyFound, ReadyWasStored, WasStored
<1> QED BY <1>1, MetadataAlways, PTL

(* A leased refresh is settled by the worker that holds the lease, and as    *)
(* its own sync ended (VerdictOfHolder: MarkReady, Fail).                    *)
THEOREM HolderSettles == MetadataSpec => VerdictOfHolder
<1> DEFINE Verdict ==
      record.lease # NoLease /\ record'.status # "PENDING" =>
        \E w \in Fetchers : /\ task[w] = record.lease /\ task'[w] = NoLease
                            /\ record' = IF FetchAt(w, "OK") THEN Ready ELSE Failed
<1>1. MetadataInv /\ [MetadataNext]_metadataVars => [Verdict]_metadataVars
  <2> SUFFICES ASSUME MetadataInv, MetadataNext, record.lease # NoLease, record'.status # "PENDING"
               PROVE  \E w \in Fetchers :
                        /\ task[w] = record.lease /\ task'[w] = NoLease
                        /\ record' = IF FetchAt(w, "OK") THEN Ready ELSE Failed
    OBVIOUS
  <2>0. record.status = "PENDING" /\ record' # record
    BY DEF MetadataInv, RecordInv, MetadataTypes
  <2>1. ~CacheStep /\ ~Retry
    BY <2>0 DEF CacheStep, Retry
  <2>2. \A q \in Queries : ~State(q)
    BY <2>0 DEF State, StateFinds, StateGets, StateEnsures, StateChecks, StateMarksReady, StopQuery,
                NoRecord
  <2>3. \A w \in Fetchers : ~Claim(w) /\ ~StopWorker(w)
    BY <2>0 DEF Claim, StopWorker, Pending
  <2>4. PICK w \in Fetchers : Settle(w)
    BY <2>1, <2>2, <2>3 DEF MetadataNext
  <2>5. /\ record = [Pending EXCEPT !.lease = task[w]]
        /\ record' = IF FetchAt(w, "OK") THEN Ready ELSE Failed
        /\ task' = [task EXCEPT ![w] = NoLease]
    BY <2>0, <2>4 DEF Settle
  <2>6. record.lease = task[w] /\ task'[w] = NoLease
    BY <2>5 DEF Pending, MetadataInv, RecordInv, MetadataTypes
  <2> QED BY <2>5, <2>6
<1> QED BY <1>1, MetadataAlways, PTL DEF VerdictOfHolder, MetadataSpec
=============================================================================
