----------------------------- MODULE BeatmapCache -----------------------------
(***************************************************************************)
(* One beatmap in MongoDB and in the Redis cache before it.  A fetch that  *)
(* finds nothing cached reads the generation of the cache entry, then the  *)
(* stored document (or the osu! API, whose answer it stores), and fills    *)
(* the cache if the generation is still the one it read.  An edit writes   *)
(* the document and then invalidates the entry: the generation goes up and *)
(* the cached copy is removed.  The entries of users follow the same       *)
(* protocol.                                                               *)
(*                                                                         *)
(* What a document says is left out: each change gives it a new version,   *)
(* and a deletion the version with which the next document begins.         *)
(* A hit of the cache changes nothing and is no step; any other step of a  *)
(* fetch or an edit may fail, or be the last of a server that stops.       *)
(***************************************************************************)
EXTENDS Naturals

CONSTANTS
  Fetchers,    \* fetches that may be under way at once
  Edits,       \* the edits of administrators
  MaxVersion   \* bound: how often the document changes

ASSUME CacheAssumption == MaxVersion \in Nat \ {0}

VARIABLES
  doc,    \* the stored document: its version, and the version that created it
  gen,    \* the generation of the cache entry, 0 when there is no such key
  cache,  \* the version that is cached, 0 when none is
  fetch,  \* what each fetch is doing, the generation and version it has read
  edit,   \* what each edit is doing, the document it edits, what it has written
  outlived  \* history, for the properties alone: the fetches under way which read
            \* a generation before its key expired

cacheVars == <<doc, gen, cache, fetch, edit, outlived>>

Stored == doc.id # 0

NoFetch == [at |-> "IDLE", gen |-> 0, v |-> 0]
NoEdit == [at |-> "IDLE", id |-> 0, v |-> 0]

FetchAt(p, step) == fetch[p].at = step
Holding(f, v) == [at |-> "FILL", gen |-> f.gen, v |-> v]
Reading(p) == fetch[p].at \in {"LOAD", "CALL", "FILL"}
Fetching(p) == Reading(p) \/ FetchAt(p, "SYNC")
Becomes(p, step) ==
  /\ fetch' = [fetch EXCEPT ![p] = [NoFetch EXCEPT !.at = step]]
  /\ outlived' = outlived \ {p}

EditAt(e, step) == edit[e].at = step
Writes(e) == edit' = [edit EXCEPT ![e] = [at |-> "INVALIDATE", id |-> 0, v |-> doc'.v]]

-----------------------------------------------------------------------------
(* Fetches *)

(* The generation, or 0 when Redis cannot be read. *)
ReadsGeneration(p, next) ==
  /\ \E g \in {gen, 0} : fetch' = [fetch EXCEPT ![p] = [at |-> next, gen |-> g, v |-> 0]]
  /\ outlived' = outlived \ {p}

(* GetBeatmap: nothing is cached, or Redis cannot be read. *)
GetBeatmap(p) ==
  /\ ~Fetching(p)
  /\ ReadsGeneration(p, "LOAD")
  /\ UNCHANGED <<doc, gen, cache, edit>>

LoadStored(p) ==
  /\ FetchAt(p, "LOAD") /\ Stored
  /\ fetch' = [fetch EXCEPT ![p] = Holding(@, doc.v)]
  /\ UNCHANGED <<doc, gen, cache, edit, outlived>>

LoadNothing(p) ==
  /\ FetchAt(p, "LOAD") /\ ~Stored
  /\ Becomes(p, "SYNC")
  /\ UNCHANGED <<doc, gen, cache, edit>>

(* SyncBeatmap reads a generation of its own. *)
SyncBeatmap(p) ==
  /\ FetchAt(p, "SYNC")
  /\ ReadsGeneration(p, "CALL")
  /\ UNCHANGED <<doc, gen, cache, edit>>

(* The API has answered: its fields, which may be the same as before, are    *)
(* set in the document or in a new one.                                      *)
UpsertOsuFields(p) ==
  /\ FetchAt(p, "CALL")
  /\ \E v \in {doc.v, doc.v + 1} :
       /\ v <= MaxVersion
       /\ doc' = [v |-> v, id |-> IF Stored THEN doc.id ELSE v]
       /\ fetch' = [fetch EXCEPT ![p] = Holding(@, v)]
  /\ UNCHANGED <<gen, cache, edit, outlived>>

(* Fault: the entry is filled whatever happened to it meanwhile. *)
FillAlways(p) ==
  /\ FetchAt(p, "FILL")
  /\ cache' \in {cache, fetch[p].v}
  /\ Becomes(p, "OK")
  /\ UNCHANGED <<doc, gen, edit>>

(* cacheIfGeneration, in one script; that Redis cannot be written is logged. *)
CacheIfGeneration(p) ==
  /\ FetchAt(p, "FILL")
  /\ cache' \in {cache} \cup {v \in {fetch[p].v} : fetch[p].gen = gen}
  /\ Becomes(p, "OK")
  /\ UNCHANGED <<doc, gen, edit>>

(* MongoDB or the API fails, the API knows no such beatmap. *)
FetchFails(p) ==
  /\ fetch[p].at \in {"LOAD", "CALL"}
  /\ Becomes(p, "IDLE")
  /\ UNCHANGED <<doc, gen, cache, edit>>

ExpireCache ==
  /\ cache # 0
  /\ cache' = 0
  /\ UNCHANGED <<doc, gen, fetch, edit, outlived>>

(* The key of the generation expires a day and an hour after the last        *)
(* invalidation, whatever is under way; the next one counts from 1 again.    *)
ExpireGeneration ==
  /\ gen # 0
  /\ gen' = 0
  /\ outlived' = outlived \cup {p \in Fetchers : Reading(p)}
  /\ UNCHANGED <<doc, cache, fetch, edit>>

-----------------------------------------------------------------------------
(* Edits of an administrator *)

Create(e) ==
  /\ EditAt(e, "IDLE") /\ ~Stored
  /\ doc' = [doc EXCEPT !.id = doc.v]
  /\ Writes(e)
  /\ UNCHANGED <<gen, cache, fetch, outlived>>

(* Update, Patch and Delete first read the document. *)
ReadByID(e) ==
  /\ EditAt(e, "IDLE") /\ Stored
  /\ edit' = [edit EXCEPT ![e] = [at |-> "WRITE", id |-> doc.id, v |-> 0]]
  /\ UNCHANGED <<doc, gen, cache, fetch, outlived>>

Update(e) ==
  /\ EditAt(e, "WRITE") /\ doc.id = edit[e].id /\ doc.v < MaxVersion
  /\ doc' = [doc EXCEPT !.v = @ + 1]
  /\ Writes(e)
  /\ UNCHANGED <<gen, cache, fetch, outlived>>

Delete(e) ==
  /\ EditAt(e, "WRITE") /\ doc.id = edit[e].id /\ doc.v < MaxVersion
  /\ doc' = [v |-> doc.v + 1, id |-> 0]
  /\ Writes(e)
  /\ UNCHANGED <<gen, cache, fetch, outlived>>

(* The generation goes up and the cached copy goes, in one transaction. *)
InvalidateBeatmap(e) ==
  /\ EditAt(e, "INVALIDATE")
  /\ gen' = gen + 1
  /\ cache' = 0
  /\ edit' = [edit EXCEPT ![e].at = "DONE"]
  /\ UNCHANGED <<doc, fetch, outlived>>

(* The document is gone, a store fails or the server stops: no success is told. *)
EditFails(e) ==
  /\ edit[e].at \in {"WRITE", "INVALIDATE"}
  /\ edit' = [edit EXCEPT ![e] = [NoEdit EXCEPT !.at = "FAILED"]]
  /\ \/ UNCHANGED <<gen, cache>>
     \/ EditAt(e, "INVALIDATE") /\ gen' = gen + 1 /\ cache' = 0
  /\ UNCHANGED <<doc, fetch, outlived>>

-----------------------------------------------------------------------------
CacheInit ==
  /\ doc = [v |-> 1, id |-> 0]
  /\ gen = 0
  /\ cache = 0
  /\ fetch = [p \in Fetchers |-> NoFetch]
  /\ edit = [e \in Edits |-> NoEdit]
  /\ outlived = {}

Continues(p) ==
  \/ LoadStored(p) \/ LoadNothing(p)
  \/ SyncBeatmap(p) \/ UpsertOsuFields(p) \/ CacheIfGeneration(p)

EditStep(e) ==
  \/ Create(e) \/ ReadByID(e) \/ Update(e) \/ Delete(e)
  \/ InvalidateBeatmap(e) \/ EditFails(e)

CacheNext ==
  \/ \E p \in Fetchers : GetBeatmap(p) \/ Continues(p) \/ FetchFails(p)
  \/ \E e \in Edits : EditStep(e)
  \/ ExpireCache \/ ExpireGeneration

CacheSpec == CacheInit /\ [][CacheNext]_cacheVars

-----------------------------------------------------------------------------
(* Properties *)

(* Types; nothing is newer than the stored document, and no fetch has read a *)
(* generation that is still to come, unless the key expired meanwhile.       *)
CacheTypeOK ==
  /\ doc \in [v : Nat, id : Nat] /\ doc.id <= doc.v
  /\ gen \in Nat
  /\ cache \in 0..doc.v
  /\ fetch \in [Fetchers -> [at : {"IDLE", "LOAD", "SYNC", "CALL", "FILL", "OK"},
                             gen : Nat, v : 0..doc.v]]
  /\ edit \in [Edits -> [at : {"IDLE", "WRITE", "INVALIDATE", "DONE", "FAILED"},
                           id : Nat, v : 0..doc.v]]
  /\ outlived \subseteq Fetchers
  /\ \A p \in Fetchers : Reading(p) /\ p \notin outlived => fetch[p].gen <= gen

(* Readers are given a document older than an edit that was told to succeed. *)
Undone(e) == EditAt(e, "DONE") /\ cache # 0 /\ cache < edit[e].v

Fills(p) == FetchAt(p, "FILL") /\ fetch'[p] # fetch[p] /\ cache' # cache

(* Once an administrator was told that an edit succeeded, the cache gives    *)
(* nobody an older document, though fetches that began before the edit end   *)
(* after it and Redis may fail to tell them the generation.  Only a fetch    *)
(* during which the key of the generation expired may undo the edit          *)
(* (cacheIfGeneration, invalidate).                                          *)
EditsStaySeen ==
  [][\A e \in Edits : Undone(e)' => Undone(e) \/ \E p \in outlived : Fills(p)]_cacheVars
=============================================================================
