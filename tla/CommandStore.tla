---------------------------- MODULE CommandStore -----------------------------
(***************************************************************************)
(* The commands of one match: Orchestrator.Execute and the transaction of  *)
(* CommandStore.Apply, for any number of servers and callers.              *)
(*                                                                         *)
(* A request looks for its receipt, and then runs a transaction that reads *)
(* one snapshot of the database and commits its writes together, unless a  *)
(* document it writes was changed since; the driver then runs it again.    *)
(* The engine is left abstract: it refuses a command or yields the next    *)
(* state and some events, and a state is the sequence of what was applied. *)
(*                                                                         *)
(* A definition whose comment begins with "Fault" is a seeded defect and   *)
(* no part of the model.                                                   *)
(***************************************************************************)
EXTENDS Integers, Sequences

CONSTANTS
  Callers,     \* the requests under way at any time
  Ids,         \* command ids, chosen by the clients
  Bodies,      \* all else a request hash covers: caller, command and payload
  Versions,    \* the versions a request may expect
  Times,       \* what a server's clock may say; clocks need not agree
  EventCounts  \* how many events a command may produce

ASSUME StoreAssumption ==
  Versions \subseteq Nat /\ Times \subseteq Nat /\ EventCounts \subseteq Nat \ {0}

VARIABLES
  snapshot,  \* the authoritative snapshot: version, state and time of update
  receipts,  \* receipts: request, resulting version, resulting state
  actions,   \* the audit log: command id, resulting version, time
  outbox,    \* the events: sequence number, resulting version
  call       \* each caller's request as it is being handled

vars == <<snapshot, receipts, actions, outbox, call>>

(* The request hash covers every field, so requests stand for their hashes.  *)
Requests == [id : Ids, body : Bodies, expected : Versions]

Bootstrapped == [version |-> 0, state |-> <<>>, at |-> 0]

Call(r, t, step, kind, version) ==
  [req |-> r, now |-> t, step |-> step, seen |-> Bootstrapped, last |-> 0,
   kind |-> kind, version |-> version]

At(p, step) == call[p].step = step

Answer(p, kind, version) ==
  call' = [call EXCEPT ![p] = Call(call[p].req, 0, "IDLE", kind, version)]

(* lastSequence: the highest number among the events, or zero. *)
LastSequence ==
  CHOOSE n \in {0} \cup {e.sequence : e \in outbox} : \A e \in outbox : e.sequence <= n

-----------------------------------------------------------------------------
(* Execute stamps the request with the server's time. *)
Send(p, r, t) ==
  /\ At(p, "IDLE")
  /\ call' = [call EXCEPT ![p] = Call(r, t, "LOOKUP", "WAITING", 0)]
  /\ UNCHANGED <<snapshot, receipts, actions, outbox>>

(* Fault: a receipt of the same id answers whatever is asked. *)
LoadAnyReceipt(p, next) ==
  LET found == {x \in receipts : x.req.id = call[p].req.id} IN
  IF found = {} THEN next ELSE \E x \in found : Answer(p, "REPLAYED", x.version)

(* loadReceipt: the receipt of the command id answers the request, or there  *)
(* is none and the request goes on, or the database does not answer.         *)
LoadReceipt(p, next) ==
  LET found == {x \in receipts : x.req.id = call[p].req.id} IN
  \/ \E x \in found :
       IF x.req = call[p].req THEN Answer(p, "REPLAYED", x.version) ELSE Answer(p, "MISMATCH", 0)
  \/ found = {} /\ next
  \/ Answer(p, "ERROR", 0)

(* A receipt answers without authorizing the caller again. *)
Lookup(p) ==
  /\ At(p, "LOOKUP")
  /\ LoadReceipt(p, call' = [call EXCEPT ![p].step = "READ"])
  /\ UNCHANGED <<snapshot, receipts, actions, outbox>>

(* What the transaction reads and decides when there is no receipt yet. *)
Decide(p) ==
  \/ Answer(p, "REJECTED", 0)
  \/ snapshot.version # call[p].req.expected /\ Answer(p, "CONFLICT", 0)
  \/ /\ snapshot.version = call[p].req.expected
     /\ call' = [call EXCEPT ![p].step = "COMMIT", ![p].seen = snapshot, ![p].last = LastSequence]

(* Fault: the transaction relies on the look-up made before it. *)
ReadUnchecked(p) ==
  /\ At(p, "READ")
  /\ \/ Answer(p, "REJECTED", 0)
     \/ call' = [call EXCEPT ![p].step = "COMMIT", ![p].seen = snapshot, ![p].last = LastSequence]
  /\ UNCHANGED <<snapshot, receipts, actions, outbox>>

(* The reads of the transaction: receipt, authorization, snapshot, engine and *)
(* the last event.                                                           *)
Read(p) ==
  /\ At(p, "READ")
  /\ LoadReceipt(p, Decide(p))
  /\ UNCHANGED <<snapshot, receipts, actions, outbox>>

(* Fault: the receipt keeps the state the command was applied to. *)
WritesOldState(p, count) ==
  LET c == call[p]
      version == c.seen.version + 1
  IN  /\ snapshot' = [version |-> version, state |-> Append(c.seen.state, c.req.body), at |-> c.now]
      /\ actions' = actions \cup {[id |-> c.req.id, version |-> version, at |-> c.now]}
      /\ outbox' = outbox \cup {[sequence |-> c.last + i, version |-> version] : i \in 1..count}
      /\ receipts' = receipts \cup {[req |-> c.req, version |-> version, state |-> c.seen.state]}

(* Fault: the events are numbered from the version instead of the last one. *)
WritesNumbered(p, count) ==
  LET c == call[p]
      version == c.seen.version + 1
      state == Append(c.seen.state, c.req.body)
  IN  /\ snapshot' = [version |-> version, state |-> state, at |-> c.now]
      /\ actions' = actions \cup {[id |-> c.req.id, version |-> version, at |-> c.now]}
      /\ outbox' = outbox \cup {[sequence |-> c.seen.version + i, version |-> version] : i \in 1..count}
      /\ receipts' = receipts \cup {[req |-> c.req, version |-> version, state |-> state]}

(* Its writes, from what it has read. *)
Writes(p, count) ==
  LET c == call[p]
      version == c.seen.version + 1
      state == Append(c.seen.state, c.req.body)
  IN  /\ snapshot' = [version |-> version, state |-> state, at |-> c.now]
      /\ actions' = actions \cup {[id |-> c.req.id, version |-> version, at |-> c.now]}
      /\ outbox' = outbox \cup {[sequence |-> c.last + i, version |-> version] : i \in 1..count}
      /\ receipts' = receipts \cup {[req |-> c.req, version |-> version, state |-> state]}

(* Fault: the snapshot is replaced without asking for the one that was read. *)
CommitBlindly(p) ==
  /\ At(p, "COMMIT")
  /\ \E count \in EventCounts : Writes(p, count)
  /\ Answer(p, "APPLIED", call[p].seen.version + 1)

(* Fault: the snapshot may be replaced by one of an earlier time. *)
CommitAnyTime(p) ==
  /\ At(p, "COMMIT")
  /\ snapshot = call[p].seen
  /\ \E count \in EventCounts : Writes(p, count)
  /\ Answer(p, "APPLIED", call[p].seen.version + 1)

(***************************************************************************)
(* CompareAndSwap and the commit.  A transaction whose snapshot document   *)
(* was changed meanwhile is run again; one that would set the document's   *)
(* time back is refused; and it may fail for other reasons, or be reported *)
(* as failed although it was committed.                                    *)
(***************************************************************************)
Commit(p) ==
  /\ At(p, "COMMIT")
  /\ \/ /\ snapshot = call[p].seen
        /\ snapshot.at <= call[p].now
        /\ \E count \in EventCounts : Writes(p, count)
        /\ Answer(p, "APPLIED", call[p].seen.version + 1) \/ Answer(p, "ERROR", 0)
     \/ /\ snapshot # call[p].seen
        /\ call' = [call EXCEPT ![p].step = "READ"]
        /\ UNCHANGED <<snapshot, receipts, actions, outbox>>
     \/ /\ Answer(p, "ERROR", 0)
        /\ UNCHANGED <<snapshot, receipts, actions, outbox>>

-----------------------------------------------------------------------------
Init ==
  /\ snapshot = Bootstrapped
  /\ receipts = {} /\ actions = {} /\ outbox = {}
  /\ call \in [Callers -> {Call(r, 0, "IDLE", "REJECTED", 0) : r \in Requests}]

Next ==
  \E p \in Callers :
    \/ \E r \in Requests, t \in Times : Send(p, r, t)
    \/ Lookup(p) \/ Read(p) \/ Commit(p)

Spec == Init /\ [][Next]_vars

-----------------------------------------------------------------------------
(* Properties *)

Kinds == {"WAITING", "APPLIED", "REPLAYED", "MISMATCH", "CONFLICT", "REJECTED", "ERROR"}

(* Types; a request gets to its commit only with the version it expects.     *)
TypeOK ==
  /\ snapshot \in [version : Nat, state : Seq(Bodies), at : Nat]
  /\ receipts \subseteq [req : Requests, version : Nat, state : Seq(Bodies)]
  /\ actions \subseteq [id : Ids, version : Nat, at : Nat]
  /\ outbox \subseteq [sequence : Nat, version : Nat]
  /\ call \in [Callers -> [req : Requests, now : Nat, step : {"IDLE", "LOOKUP", "READ", "COMMIT"},
                           seen : [version : Nat, state : Seq(Bodies), at : Nat], last : Nat,
                           kind : Kinds, version : Nat]]
  /\ \A p \in Callers : At(p, "COMMIT") => call[p].seen.version = call[p].req.expected

(* The four collections tell one history: every version up to the current    *)
(* one has one receipt and one audit entry, under one command id that is     *)
(* used once, and the receipt of the current version holds its state, so a   *)
(* lost response, a retry or a race never applies a command twice.           *)
OneHistory ==
  /\ \A v \in 1..snapshot.version :
       \E x \in receipts : x.version = v /\ \E a \in actions : a.version = v /\ a.id = x.req.id
  /\ \A x, y \in receipts : x.version = y.version \/ x.req.id = y.req.id => x = y
  /\ \A a, b \in actions : a.version = b.version \/ a.id = b.id => a = b
  /\ \A x \in receipts : x.version \in 1..snapshot.version /\ x.req.expected + 1 = x.version
  /\ \A x \in receipts : x.version = snapshot.version => x.state = snapshot.state

(* The receipt of a version holds the state that version had, for the        *)
(* readers that load a past state.                                           *)
PastStates ==
  \A x \in receipts : /\ Len(x.state) = x.version
                      /\ x.state = SubSeq(snapshot.state, 1, x.version)

(* The events of a match are numbered without a gap, in the order of the     *)
(* versions, and every version has some; subscribers rely on it.             *)
EventsInOrder ==
  /\ {e.sequence : e \in outbox} = 1..LastSequence
  /\ \A e, f \in outbox : e.sequence = f.sequence => e = f
  /\ \A e, f \in outbox : e.sequence < f.sequence => e.version <= f.version
  /\ {e.version : e \in outbox} = 1..snapshot.version

(* Whoever is told of success is told the place of its own request, not of   *)
(* another one under the same id; whoever is told of a mismatch is told the  *)
(* truth.                                                                    *)
AnswersAreTrue ==
  \A p \in Callers :
    /\ call[p].kind \in {"APPLIED", "REPLAYED"} =>
         \E x \in receipts : x.req = call[p].req /\ x.version = call[p].version
    /\ call[p].kind = "MISMATCH" =>
         \E x \in receipts : x.req.id = call[p].req.id /\ x.req # call[p].req

(* However wrong the servers' clocks are, the times in the audit log never   *)
(* go back from one version to the next.                                     *)
TimeMovesForward ==
  \A a, b \in actions : a.version < b.version => a.at <= b.at

(* The requests applied so far, in the order of their versions. *)
AppliedLog == [v \in 1..snapshot.version |-> (CHOOSE x \in receipts : x.version = v).req]

Replies ==
  [p \in Callers |-> [req |-> call[p].req, kind |-> call[p].kind, version |-> call[p].version]]

Log == INSTANCE MatchLog WITH log <- AppliedLog, reply <- Replies

(* The store answers every request as the log would in one step: of any      *)
(* number of requests that race, retry or reuse an id, each takes effect at  *)
(* one moment between its arrival and its answer, or not at all.             *)
ImplementsLog == Log!LogSpec
=============================================================================
