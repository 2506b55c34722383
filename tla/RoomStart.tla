------------------------------ MODULE RoomStart ------------------------------
(***************************************************************************)
(* From room setup to the first command of a match: internal/service's     *)
(* RoomService, the bootstrap transaction of internal/persistence, and the *)
(* START_MATCH command as internal/matchcommand authorizes it.             *)
(*                                                                         *)
(* One room and the requests that act on it.  A request is a sequence of   *)
(* database accesses, one per action, that works on the copies it has read *)
(* so far; an access is atomic, and so is a transaction.  A request that   *)
(* dies on its way is one that is never continued.  Who may send a request *)
(* is left out: callers may try everything at any time.                    *)
(*                                                                         *)
(* A definition whose comment begins with "Fault" is a seeded defect and   *)
(* no part of the model.                                                   *)
(***************************************************************************)
EXTENDS Integers

CONSTANTS
  Callers,   \* the requests under way at any time
  RoomTypes, \* the types the room may have
  Configs,   \* the values the room's locked settings may take
  Complete,  \* those that meet the requirements for starting
  Ids,       \* ids that new matches may get
  Legacy,    \* the id of a match row that has no snapshot
  NoMatch    \* no match

(* The answers to a request other than a match. *)
Verdicts == {"NONE", "OK", "CONFLICT", "INVALID", "ERROR", "REFUSED"}

ASSUME RoomAssumption ==
  /\ RoomTypes \subseteq {"match", "casual"}
  /\ Complete \subseteq Configs
  /\ Legacy \notin Ids /\ NoMatch \notin Ids \cup {Legacy}
  /\ (Ids \cup {Legacy}) \cap Verdicts = {}

VARIABLES
  roomType,
  room,       \* the room document: its match and its locked settings
  shells,     \* the match rows: status, readiness and the settings they copied
  snapshots,  \* the version of each match's authoritative snapshot
  call        \* the local state of each caller's request

vars == <<roomType, room, shells, snapshots, call>>

Sides == {"RED", "BLUE"}
Rows == Ids \cup {Legacy}

(* A row written by an earlier version of the program may have any status. *)
Statuses == {"pending", "ready", "active", "finished", "canceled"}

NoShell == [status |-> "none", ready |-> {}]
NewShell == [status |-> "pending", ready |-> {}]

Operations == {"NONE", "START", "READY", "COMMAND", "CONFIGURE"}

Request(op, step, match, arg, answer) ==
  [op |-> op, step |-> step, match |-> match, arg |-> arg, seen |-> {}, answer |-> answer]

Idle == Request("NONE", "IDLE", NoMatch, "NONE", "NONE")

(* A request of caller p begins and continues at the given step. *)
Begin(p, op, step, match, arg) ==
  /\ call[p].step = "IDLE"
  /\ call' = [call EXCEPT ![p] = Request(op, step, match, arg, "NONE")]

At(p, step) == call[p].step = step

Goto(p, step) == call' = [call EXCEPT ![p].step = step]

(* The request ends with an answer; what it has read is forgotten. *)
Answered(p, a) == [call EXCEPT ![p] = Request(call[p].op, "IDLE", NoMatch, "NONE", a)]

Answer(p, a) == call' = Answered(p, a)

(* Version 0 is READY and START_MATCH leads to version 1; later commands and   *)
(* their versions are the subject of other modules.                          *)
NoSnapshot == -1

HasSnapshot(m) == m \in Rows /\ snapshots[m] # NoSnapshot

Running(m) == snapshots[m] > 0

-----------------------------------------------------------------------------
(* StartMatch of RoomService *)

BeginStart(p) ==
  /\ Begin(p, "START", IF room.match = NoMatch THEN "CREATE" ELSE "LOOKUP", room.match,
           room.config)
  /\ UNCHANGED <<roomType, room, shells, snapshots>>

(* existingMatch, for the match the room was seen with. *)
Lookup(p) ==
  LET m == call[p].match IN
  /\ At(p, "LOOKUP")
  /\ \/ HasSnapshot(m) /\ Answer(p, m)
     \/ ~HasSnapshot(m) /\ Goto(p, "RECOVER")
  /\ UNCHANGED <<roomType, room, shells, snapshots>>

(* The match is to be built from the room as it is read again. *)
Reloaded(p) ==
  [call EXCEPT ![p].step = "CREATE", ![p].match = room.match, ![p].arg = room.config]

(* Fault: the reference is cleared whatever it refers to by now. *)
RecoverAlways(p) ==
  /\ At(p, "RECOVER")
  /\ room' = [room EXCEPT !.match = NoMatch]
  /\ call' = Reloaded(p)
  /\ UNCHANGED <<roomType, shells, snapshots>>

(***************************************************************************)
(* recoverOrphanedMatch clears the room's match with a write that requires *)
(* the setup to be open, that is, the room to have no match; the room is   *)
(* read again if it succeeds.  Nothing in the program takes a match away   *)
(* from a room, so the first alternative is never the case.                *)
(***************************************************************************)
Recover(p) ==
  /\ At(p, "RECOVER")
  /\ call' = IF room.match = NoMatch THEN Reloaded(p) ELSE Answered(p, "CONFLICT")
  /\ UNCHANGED <<roomType, room, shells, snapshots>>

Bootstrap(m) ==
  /\ room' = [room EXCEPT !.match = m]
  /\ shells' = [shells EXCEPT ![m] = NewShell]
  /\ snapshots' = [snapshots EXCEPT ![m] = 0]

(* Fault: the transaction does not ask for a room without a match. *)
CreateAlways(p) ==
  /\ At(p, "CREATE")
  /\ \E m \in {i \in Ids : shells[i] = NoShell} :
       call[p].arg \in Complete /\ Bootstrap(m) /\ Answer(p, m)
  /\ UNCHANGED roomType

(***************************************************************************)
(* The match is built from the settings the request has read; one          *)
(* transaction attaches it to a room that has no match, and inserts the    *)
(* match row and the READY snapshot.  It may fail as a whole, and the      *)
(* request may fail although the transaction has been committed.           *)
(***************************************************************************)
Create(p) ==
  /\ At(p, "CREATE")
  /\ \/ /\ call[p].arg \notin Complete
        /\ Answer(p, "INVALID")
        /\ UNCHANGED <<room, shells, snapshots>>
     \/ /\ call[p].arg \in Complete
        /\ room.match = NoMatch
        /\ \E m \in {i \in Ids : shells[i] = NoShell} :
             Bootstrap(m) /\ (Answer(p, m) \/ Answer(p, "ERROR"))
     \/ /\ call[p].arg \in Complete
        /\ room.match # NoMatch
        /\ Goto(p, "REREAD")
        /\ UNCHANGED <<room, shells, snapshots>>
     \/ /\ call[p].arg \in Complete
        /\ Answer(p, "ERROR")
        /\ UNCHANGED <<room, shells, snapshots>>
  /\ UNCHANGED roomType

(* The match another request has attached in the meantime. *)
Reread(p) ==
  /\ At(p, "REREAD")
  /\ Answer(p, IF HasSnapshot(room.match) THEN room.match ELSE "CONFLICT")
  /\ UNCHANGED <<roomType, room, shells, snapshots>>

-----------------------------------------------------------------------------
(* Room settings that are locked by the start of the match *)

(* The setters check the room they have read, and write where it is open. *)
BeginConfigure(p, c) ==
  /\ room.match = NoMatch
  /\ Begin(p, "CONFIGURE", "WRITE", NoMatch, c)
  /\ UNCHANGED <<roomType, room, shells, snapshots>>

(* Fault: the write relies on the check made before. *)
WriteUnlocked(p) ==
  /\ At(p, "WRITE")
  /\ room' = [room EXCEPT !.config = call[p].arg]
  /\ Answer(p, "OK")
  /\ UNCHANGED <<roomType, shells, snapshots>>

Write(p) ==
  /\ At(p, "WRITE")
  /\ \/ /\ room.match = NoMatch
        /\ room' = [room EXCEPT !.config = call[p].arg]
        /\ Answer(p, "OK")
     \/ /\ room.match # NoMatch
        /\ Answer(p, "CONFLICT")
        /\ UNCHANGED room
  /\ UNCHANGED <<roomType, shells, snapshots>>

-----------------------------------------------------------------------------
(* MarkStrategistReady *)

BeginReady(p, side) ==
  /\ room.match # NoMatch
  /\ Begin(p, "READY", "SHELL", room.match, side)
  /\ UNCHANGED <<roomType, room, shells, snapshots>>

(* The match row is read to refuse a match that is under way. *)
ReadShell(p) ==
  LET shell == shells[call[p].match] IN
  /\ At(p, "SHELL")
  /\ \/ /\ shell.status \in {"pending", "ready"}
        /\ call' = [call EXCEPT ![p].step = "MARK", ![p].seen = shell.ready]
     \/ /\ shell.status \notin {"pending", "ready"}
        /\ Answer(p, "CONFLICT")
  /\ UNCHANGED <<roomType, room, shells, snapshots>>

(* Casual rooms start by themselves once both strategists are ready. *)
Marked(p, ready) ==
  IF ready = Sides /\ roomType # "match" THEN Goto(p, "AUTOSTART") ELSE Answer(p, "OK")

(* Fault: the row is written back as it was read. *)
MarkFromCopy(p) ==
  LET m == call[p].match
      ready == call[p].seen \cup {call[p].arg}
  IN  /\ At(p, "MARK")
      /\ shells' = [shells EXCEPT ![m].ready = ready]
      /\ Marked(p, ready)
      /\ UNCHANGED <<roomType, room, snapshots>>

(* UpdateReadiness sets one side's bit of a pending match and returns both. *)
Mark(p) ==
  LET m == call[p].match
      ready == shells[m].ready \cup {call[p].arg}
  IN  /\ At(p, "MARK")
      /\ \/ /\ shells[m].status = "pending"
            /\ shells' = [shells EXCEPT ![m].ready = ready]
            /\ Marked(p, ready)
         \/ /\ shells[m].status # "pending"
            /\ Answer(p, "OK")
            /\ UNCHANGED shells
      /\ UNCHANGED <<roomType, room, snapshots>>

-----------------------------------------------------------------------------
(* START_MATCH *)

(* A referee's request to start names the match and the state it has seen. *)
BeginCommand(p) ==
  /\ HasSnapshot(room.match)
  /\ Begin(p, "COMMAND", "COMMAND", room.match, "NONE")
  /\ UNCHANGED <<roomType, room, shells, snapshots>>

(* Fault: the system's command is not held to the version it expects. *)
StartableAgain(m, system) == HasSnapshot(m)

(* Authorization and the engine's guard, inside the command's transaction. *)
Startable(m, system) ==
  /\ HasSnapshot(m)
  /\ room.match = m
  /\ ~system => roomType = "match" /\ shells[m].status = "ready"
  /\ snapshots[m] = 0

(* Either kind of START_MATCH; it may fail for other reasons than its guard, *)
(* and it may be reported as failed although it has been committed.          *)
StartCommand(p, system) ==
  LET m == call[p].match IN
  /\ \/ /\ Startable(m, system)
        /\ snapshots' = [snapshots EXCEPT ![m] = @ + 1]
        /\ Answer(p, "OK") \/ (~system /\ Answer(p, "REFUSED"))
     \/ /\ Answer(p, IF system THEN "OK" ELSE "REFUSED")
        /\ UNCHANGED snapshots
  /\ UNCHANGED <<roomType, room, shells>>

AutoStart(p) == At(p, "AUTOSTART") /\ StartCommand(p, TRUE)

Command(p) == At(p, "COMMAND") /\ StartCommand(p, FALSE)

-----------------------------------------------------------------------------
Init ==
  /\ roomType \in RoomTypes
  /\ room \in [match : {NoMatch, Legacy}, config : Configs]
  /\ \E status \in Statuses :
       shells = [m \in Rows |-> IF m = Legacy THEN [status |-> status, ready |-> {}] ELSE NoShell]
  /\ snapshots = [m \in Rows |-> NoSnapshot]
  /\ call = [p \in Callers |-> Idle]

Begins(p) ==
  \/ BeginStart(p)
  \/ \E c \in Configs : BeginConfigure(p, c)
  \/ \E side \in Sides : BeginReady(p, side)
  \/ BeginCommand(p)

Continues(p) ==
  \/ Lookup(p) \/ Recover(p) \/ Create(p) \/ Reread(p)
  \/ Write(p)
  \/ ReadShell(p) \/ Mark(p) \/ AutoStart(p) \/ Command(p)

Next == \E p \in Callers : Begins(p) \/ Continues(p)

(* Nothing says that a request that has begun is carried on. *)
Spec == Init /\ [][Next]_vars

-----------------------------------------------------------------------------
(* Properties *)

Steps == {"IDLE", "LOOKUP", "RECOVER", "CREATE", "REREAD", "WRITE", "SHELL", "MARK",
          "AUTOSTART", "COMMAND"}

Requests == [op : Operations, step : Steps, match : Rows \cup {NoMatch},
             arg : Configs \cup Sides \cup {"NONE"}, seen : SUBSET Sides,
             answer : Rows \cup Verdicts]

(* Types; the version of a match does not pass 1 here. *)
TypeOK ==
  /\ roomType \in RoomTypes
  /\ room \in [match : Rows \cup {NoMatch}, config : Configs]
  /\ shells \in [Rows -> [status : Statuses \cup {"none"}, ready : SUBSET Sides]]
  /\ snapshots \in [Rows -> {NoSnapshot, 0, 1}]
  /\ call \in [Callers -> Requests]

(* However many requests to start a room run at once, with whatever orphan   *)
(* they find, there is at most one authoritative match: the one the room     *)
(* points to, which has a row, and which every successful caller was told.   *)
OneAuthority ==
  /\ \A m \in Rows : HasSnapshot(m) => room.match = m /\ shells[m] # NoShell
  /\ \A p \in Callers : call[p].op = "START" /\ call[p].answer \in Rows =>
       room.match = call[p].answer

(* A match runs only after both strategists have acknowledged it, and it is  *)
(* started once, though each request that sees both acknowledgements sends   *)
(* the command: its version is that of the first.                            *)
StartedOnceWhenReady ==
  \A m \in Rows : Running(m) => snapshots[m] = 1 /\ shells[m].ready = Sides

(* Once a match is attached the settings it was built from stay as they are, *)
(* also for a setter that saw the room open before.                          *)
SetupLocked ==
  [][HasSnapshot(room.match) => room' = room]_vars

(* An acknowledgement is never lost to another one written at the same time. *)
AcknowledgementsKept ==
  [][\A m \in Rows : shells[m].ready \subseteq shells'[m].ready]_vars

(* The comment on MarkStrategistReady: in a formal room the match shell      *)
(* moves to the ready status once both strategists have confirmed.           *)
ConfirmedMatchIsReady ==
  roomType = "match" => \A m \in Ids : shells[m].ready = Sides => shells[m].status = "ready"
=============================================================================
