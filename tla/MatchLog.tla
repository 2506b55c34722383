------------------------------ MODULE MatchLog -------------------------------
(***************************************************************************)
(* What the command store promises: one match is a log of the commands     *)
(* applied to it, and a request is answered in one step.  It is appended   *)
(* where it expects the log to end, once; the same request again is told   *)
(* its place; another request under a used id, and one that expects a      *)
(* different end, are refused.  A request may fail for any other reason,   *)
(* and then it may have been appended all the same.                        *)
(***************************************************************************)
EXTENDS Naturals, Sequences

CONSTANTS
  Callers,  \* who may have a request under way
  Ids,      \* command ids, chosen by the clients
  Bodies,   \* all else a request says: caller, command and payload
  Versions  \* the versions a request may expect, natural numbers

VARIABLES
  log,    \* the requests applied so far
  reply   \* what each caller asks, and the answer

logVars == <<log, reply>>

Requests == [id : Ids, body : Bodies, expected : Versions]

Kinds == {"WAITING", "APPLIED", "REPLAYED", "MISMATCH", "CONFLICT", "REJECTED", "ERROR"}

Reply(r, kind, version) == [req |-> r, kind |-> kind, version |-> version]

Waiting(p) == reply[p].kind = "WAITING"

Answered(p, kind, version) == reply' = [reply EXCEPT ![p] = Reply(reply[p].req, kind, version)]

(* The places at which an id occurs in the log. *)
Places(id) == {k \in DOMAIN log : log[k].id = id}

LogInit ==
  /\ log = <<>>
  /\ reply \in [Callers -> {Reply(r, "REJECTED", 0) : r \in Requests}]

Ask(p, r) ==
  /\ ~Waiting(p)
  /\ reply' = [reply EXCEPT ![p] = Reply(r, "WAITING", 0)]
  /\ UNCHANGED log

AppendRequest(p) ==
  LET r == reply[p].req IN
  /\ Waiting(p)
  /\ r.expected = Len(log) /\ Places(r.id) = {}
  /\ log' = Append(log, r)
  /\ Answered(p, "APPLIED", Len(log) + 1) \/ Answered(p, "ERROR", 0)

Repeat(p) ==
  /\ Waiting(p)
  /\ \E k \in Places(reply[p].req.id) : log[k] = reply[p].req /\ Answered(p, "REPLAYED", k)
  /\ UNCHANGED log

Mismatch(p) ==
  /\ Waiting(p)
  /\ \E k \in Places(reply[p].req.id) : log[k] # reply[p].req
  /\ Answered(p, "MISMATCH", 0)
  /\ UNCHANGED log

Conflict(p) ==
  /\ Waiting(p)
  /\ Places(reply[p].req.id) = {} /\ reply[p].req.expected # Len(log)
  /\ Answered(p, "CONFLICT", 0)
  /\ UNCHANGED log

Refuse(p) ==
  /\ Waiting(p)
  /\ Answered(p, "REJECTED", 0) \/ Answered(p, "ERROR", 0)
  /\ UNCHANGED log

LogNext ==
  \E p \in Callers :
    \/ \E r \in Requests : Ask(p, r)
    \/ AppendRequest(p) \/ Repeat(p) \/ Mismatch(p) \/ Conflict(p) \/ Refuse(p)

LogSpec == LogInit /\ [][LogNext]_logVars
=============================================================================
