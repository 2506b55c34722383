--------------------------- MODULE RoomStartProofs ---------------------------
(***************************************************************************)
(* Proofs about RoomStart for any number of callers, settings and ids.     *)
(***************************************************************************)
EXTENDS RoomStart, TLAPS

(***************************************************************************)
(* What the properties rest on.  Rows that the program makes stay pending, *)
(* so that only the system starts a match; the legacy row never gets a     *)
(* snapshot; and a request that is about to start a match by itself has    *)
(* seen both acknowledgements, which are never withdrawn.                  *)
(***************************************************************************)
OwnRowsPending == \A m \in Ids : shells[m].status \in {"none", "pending"}

LegacyHasNoSnapshot == snapshots[Legacy] = NoSnapshot

AutoStartIsDue ==
  \A p \in Callers : call[p].step = "AUTOSTART" =>
    call[p].match \in Rows /\ shells[call[p].match].ready = Sides

(* A request that looks at a row has seen the room with a match. *)
StepsHaveMatch ==
  \A p \in Callers :
    /\ call[p].step \in {"LOOKUP", "SHELL", "MARK", "COMMAND"} => call[p].match \in Rows
    /\ call[p].step \in {"SHELL", "MARK"} => call[p].arg \in Sides
    /\ call[p].step = "WRITE" => call[p].arg \in Configs

RoomInv ==
  /\ TypeOK
  /\ OneAuthority
  /\ StartedOnceWhenReady
  /\ OwnRowsPending
  /\ LegacyHasNoSnapshot
  /\ AutoStartIsDue
  /\ StepsHaveMatch

-----------------------------------------------------------------------------
(* A room as it is created satisfies the invariant. *)
LEMMA InitRoom == Init => RoomInv
  BY RoomAssumption, SMT DEF Init, RoomInv, TypeOK, OneAuthority, StartedOnceWhenReady, OwnRowsPending,
     LegacyHasNoSnapshot, AutoStartIsDue, StepsHaveMatch, Rows, Sides, NoShell, NewShell, Idle, Request,
     HasSnapshot, NoSnapshot, Running, Statuses, Verdicts, Operations, Requests, Steps
-----------------------------------------------------------------------------
(* What a step has to show about the request it changes. *)
GoodRequest(c) ==
  /\ c \in Requests
  /\ c.step = "AUTOSTART" => c.match \in Rows /\ shells[c.match].ready = Sides
  /\ c.step \in {"LOOKUP", "SHELL", "MARK", "COMMAND"} => c.match \in Rows
  /\ c.step \in {"SHELL", "MARK"} => c.arg \in Sides
  /\ c.step = "WRITE" => c.arg \in Configs
  /\ c.op = "START" /\ c.answer \in Rows => room.match = c.answer

(* A step that only reads keeps everything, given that its request is good.  *)
LEMMA ReadingStep ==
  ASSUME RoomInv, NEW p \in Callers, NEW c, GoodRequest(c),
         call' = [call EXCEPT ![p] = c], UNCHANGED <<roomType, room, shells, snapshots>>
  PROVE  RoomInv'
<1>1. call \in [Callers -> Requests] /\ c \in Requests
  BY DEF RoomInv, TypeOK, GoodRequest
<1>2. call' \in [Callers -> Requests]
  BY <1>1
<1>3. TypeOK'
  BY <1>2 DEF RoomInv, TypeOK
<1>4. \A q \in Callers : call'[q] = IF q = p THEN c ELSE call[q]
  BY <1>1
<1>5. OneAuthority'
  BY <1>4 DEF RoomInv, OneAuthority, GoodRequest, HasSnapshot
<1>6. StartedOnceWhenReady' /\ OwnRowsPending' /\ LegacyHasNoSnapshot'
  BY DEF RoomInv, StartedOnceWhenReady, OwnRowsPending, LegacyHasNoSnapshot, Running
<1>7. AutoStartIsDue'
  BY <1>4 DEF RoomInv, AutoStartIsDue, GoodRequest
<1>8. StepsHaveMatch'
  BY <1>4 DEF RoomInv, StepsHaveMatch, GoodRequest
<1> QED
  BY <1>3, <1>5, <1>6, <1>7, <1>8 DEF RoomInv

(* The answer or the next step of a request that keeps what it has read.     *)
LEMMA AnswerIsGood ==
  ASSUME RoomInv, NEW p \in Callers, NEW a \in Rows \cup Verdicts,
         call[p].op = "START" /\ a \in Rows => room.match = a
  PROVE  GoodRequest(Request(call[p].op, "IDLE", NoMatch, "NONE", a))
<1>1. call[p] \in Requests
  BY DEF RoomInv, TypeOK
<1>2. call[p].op \in Operations
  BY <1>1 DEF Requests
<1> QED
  BY <1>2, RoomAssumption DEF GoodRequest, Request, Requests, Steps

(* So is going on to a step that needs the match at most. *)
LEMMA GotoIsGood ==
  ASSUME RoomInv, NEW p \in Callers, NEW step \in Steps, step \notin {"AUTOSTART", "SHELL", "MARK", "WRITE"},
         step \in {"LOOKUP", "COMMAND"} => call[p].match \in Rows
  PROVE  GoodRequest([call[p] EXCEPT !.step = step])
<1>1. call[p] \in Requests
  BY DEF RoomInv, TypeOK
<1>2. call[p].op = "START" /\ call[p].answer \in Rows => room.match = call[p].answer
  BY DEF RoomInv, OneAuthority
<1> QED
  BY <1>1, <1>2 DEF GoodRequest, Requests

(* A request that begins is a good one. *)
LEMMA BeginIsGood ==
  ASSUME RoomInv, NEW op \in Operations, NEW step \in Steps, NEW m \in Rows \cup {NoMatch},
         NEW arg \in Configs \cup Sides \cup {"NONE"}, step # "AUTOSTART",
         step \in {"LOOKUP", "SHELL", "MARK", "COMMAND"} => m \in Rows,
         step \in {"SHELL", "MARK"} => arg \in Sides, step = "WRITE" => arg \in Configs
  PROVE  GoodRequest(Request(op, step, m, arg, "NONE"))
  BY RoomAssumption DEF GoodRequest, Request, Requests, Verdicts, Rows

-----------------------------------------------------------------------------
(* Steps that only read *)

(* The entry steps of the four operations change the request only. *)
LEMMA BeginSteps ==
  ASSUME RoomInv, NEW p \in Callers, Begins(p)
  PROVE  RoomInv'
<1>1. room.match \in Rows \cup {NoMatch} /\ room.config \in Configs
  BY DEF RoomInv, TypeOK
<1>2. CASE BeginStart(p)
  <2> DEFINE step == IF room.match = NoMatch THEN "CREATE" ELSE "LOOKUP"
  <2>1. GoodRequest(Request("START", step, room.match, room.config, "NONE"))
    BY <1>1, BeginIsGood DEF Operations, Steps
  <2> QED
    BY <1>2, <2>1, ReadingStep DEF BeginStart, Begin
<1>3. ASSUME NEW c \in Configs, BeginConfigure(p, c) PROVE RoomInv'
  <2>1. GoodRequest(Request("CONFIGURE", "WRITE", NoMatch, c, "NONE"))
    BY BeginIsGood DEF Operations, Steps
  <2> QED
    BY <1>3, <2>1, ReadingStep DEF BeginConfigure, Begin
<1>4. ASSUME NEW side \in Sides, BeginReady(p, side) PROVE RoomInv'
  <2>1. GoodRequest(Request("READY", "SHELL", room.match, side, "NONE"))
    BY <1>1, <1>4, BeginIsGood DEF Operations, Steps, BeginReady
  <2> QED
    BY <1>4, <2>1, ReadingStep DEF BeginReady, Begin
<1>5. CASE BeginCommand(p)
  <2>1. GoodRequest(Request("COMMAND", "COMMAND", room.match, "NONE", "NONE"))
    BY <1>1, <1>5, BeginIsGood DEF Operations, Steps, BeginCommand, HasSnapshot
  <2> QED
    BY <1>5, <2>1, ReadingStep DEF BeginCommand, Begin
<1> QED
  BY <1>2, <1>3, <1>4, <1>5 DEF Begins

(* The steps that read the room, a match or a snapshot. *)
LEMMA ReadSteps ==
  ASSUME RoomInv, NEW p \in Callers,
         Lookup(p) \/ Recover(p) \/ Reread(p) \/ ReadShell(p)
  PROVE  RoomInv'
<1>1. call[p] \in Requests /\ call \in [Callers -> Requests]
  BY DEF RoomInv, TypeOK
<1>2. room.match \in Rows \cup {NoMatch} /\ room.config \in Configs
  BY DEF RoomInv, TypeOK
<1>3. ASSUME NEW a \in Rows \cup Verdicts, call[p].op = "START" /\ a \in Rows => room.match = a,
             Answer(p, a), UNCHANGED <<roomType, room, shells, snapshots>>
      PROVE  RoomInv'
  BY <1>3, AnswerIsGood, ReadingStep DEF Answer, Answered
<1>4. ASSUME NEW step \in Steps, step \notin {"AUTOSTART", "SHELL", "MARK", "WRITE"},
             step \in {"LOOKUP", "COMMAND"} => call[p].match \in Rows,
             Goto(p, step), UNCHANGED <<roomType, room, shells, snapshots>>
      PROVE  RoomInv'
  <2>1. call' = [call EXCEPT ![p] = [call[p] EXCEPT !.step = step]]
    BY <1>1, <1>4 DEF Goto
  <2> QED
    BY <1>4, <2>1, GotoIsGood, ReadingStep
<1>5. CASE Lookup(p)
  <2>1. CASE HasSnapshot(call[p].match) /\ Answer(p, call[p].match)
    BY <1>3, <1>5, <2>1 DEF Lookup, RoomInv, OneAuthority, HasSnapshot
  <2>2. CASE Goto(p, "RECOVER")
    BY <1>4, <1>5, <2>2 DEF Lookup, Steps
  <2> QED
    BY <1>5, <2>1, <2>2 DEF Lookup
<1>6. CASE Recover(p)
  <2> DEFINE c == [call[p] EXCEPT !.step = "CREATE", !.match = room.match, !.arg = room.config]
  <2>1. CASE call' = Reloaded(p)
    <3>1. call' = [call EXCEPT ![p] = c]
      BY <1>1, <2>1 DEF Reloaded
    <3>2. call[p].op = "START" /\ call[p].answer \in Rows => room.match = call[p].answer
      BY DEF RoomInv, OneAuthority
    <3>3. GoodRequest(c)
      BY <1>1, <1>2, <3>2 DEF GoodRequest, Requests, Steps
    <3> QED
      BY <1>6, <3>1, <3>3, ReadingStep DEF Recover
  <2>2. CASE Answer(p, "CONFLICT")
    BY <1>3, <1>6, <2>2, RoomAssumption DEF Recover, Verdicts, Rows
  <2> QED
    BY <1>6, <2>1, <2>2 DEF Recover, Answer
<1>8. CASE Reread(p)
  <2>1. CASE HasSnapshot(room.match)
    BY <1>3, <1>8, <2>1 DEF Reread, HasSnapshot
  <2>2. CASE ~HasSnapshot(room.match)
    BY <1>3, <1>8, <2>2, RoomAssumption DEF Reread, Verdicts, Rows
  <2> QED
    BY <2>1, <2>2
<1>9. CASE ReadShell(p)
  <2> DEFINE seen == shells[call[p].match].ready
             c == [call[p] EXCEPT !.step = "MARK", !.seen = seen]
  <2>1. CASE call' = [call EXCEPT ![p].step = "MARK", ![p].seen = seen]
    <3>1. call' = [call EXCEPT ![p] = c]
      BY <1>1, <2>1
    <3>2. call[p].match \in Rows /\ call[p].arg \in Sides
      BY <1>9 DEF ReadShell, At, RoomInv, StepsHaveMatch
    <3>3. seen \in SUBSET Sides
      BY <3>2 DEF RoomInv, TypeOK
    <3>4. call[p].op = "START" /\ call[p].answer \in Rows => room.match = call[p].answer
      BY DEF RoomInv, OneAuthority
    <3>5. GoodRequest(c)
      BY <1>1, <3>2, <3>3, <3>4 DEF GoodRequest, Requests, Steps
    <3> QED
      BY <1>9, <3>1, <3>5, ReadingStep DEF ReadShell
  <2>2. CASE Answer(p, "CONFLICT")
    BY <1>3, <1>9, <2>2, RoomAssumption DEF ReadShell, Verdicts, Rows
  <2> QED
    BY <1>9, <2>1, <2>2 DEF ReadShell
<1> QED
  BY <1>5, <1>6, <1>8, <1>9
-----------------------------------------------------------------------------
(* Steps that write *)

(* A room without a match has no snapshot anywhere, and no caller was told   *)
(* of a match, so a new one cannot be the second.                            *)
LEMMA CreateStep ==
  ASSUME RoomInv, NEW p \in Callers, Create(p)
  PROVE  RoomInv'
<1>1. call[p] \in Requests /\ call \in [Callers -> Requests] /\ UNCHANGED roomType
  BY DEF RoomInv, TypeOK, Create
<1>2. ASSUME NEW a \in Verdicts, Answer(p, a), UNCHANGED <<room, shells, snapshots>>
      PROVE  RoomInv'
  BY <1>1, <1>2, AnswerIsGood, ReadingStep, RoomAssumption DEF Answer, Answered, Rows
<1>3. CASE Answer(p, "INVALID") /\ UNCHANGED <<room, shells, snapshots>>
  BY <1>2, <1>3 DEF Verdicts
<1>4. CASE Answer(p, "ERROR") /\ UNCHANGED <<room, shells, snapshots>>
  BY <1>2, <1>4 DEF Verdicts
<1>5. CASE Goto(p, "REREAD") /\ UNCHANGED <<room, shells, snapshots>>
  <2>1. call' = [call EXCEPT ![p] = [call[p] EXCEPT !.step = "REREAD"]]
    BY <1>1, <1>5 DEF Goto
  <2> QED
    BY <1>1, <1>5, <2>1, GotoIsGood, ReadingStep DEF Steps
<1>6. ASSUME room.match = NoMatch, NEW m \in Ids, shells[m] = NoShell, Bootstrap(m),
             NEW a \in {m, "ERROR"}, Answer(p, a)
      PROVE  RoomInv'
  <2> DEFINE c == Request(call[p].op, "IDLE", NoMatch, "NONE", a)
  <2>1. m \in Rows /\ m # Legacy /\ NoMatch \notin Rows
    BY <1>6, RoomAssumption DEF Rows
  <2>2. c \in Requests
    BY <1>1, <2>1 DEF Request, Requests, Steps, Verdicts
  <2>3. call' = [call EXCEPT ![p] = c]
    BY <1>6 DEF Answer, Answered
  <2>4. \A q \in Callers : call'[q] = IF q = p THEN c ELSE call[q]
    BY <1>1, <2>3
  <2>5. room' = [room EXCEPT !.match = m] /\ shells' = [shells EXCEPT ![m] = NewShell]
          /\ snapshots' = [snapshots EXCEPT ![m] = 0]
    BY <1>6 DEF Bootstrap
  <2>6. TypeOK'
    <3>1. call' \in [Callers -> Requests]
      BY <1>1, <2>2, <2>3
    <3>2. room' \in [match : Rows \cup {NoMatch}, config : Configs]
      BY <2>1, <2>5 DEF RoomInv, TypeOK
    <3>3. shells' \in [Rows -> [status : Statuses \cup {"none"}, ready : SUBSET Sides]]
      BY <2>1, <2>5 DEF RoomInv, TypeOK, NewShell, Statuses
    <3>4. snapshots' \in [Rows -> {NoSnapshot, 0, 1}]
      BY <2>1, <2>5 DEF RoomInv, TypeOK
    <3> QED
      BY <1>1, <3>1, <3>2, <3>3, <3>4 DEF RoomInv, TypeOK
  <2>7. \A x \in Rows : ~HasSnapshot(x) /\ snapshots[x] = NoSnapshot
    BY <1>6, <2>1 DEF RoomInv, OneAuthority, HasSnapshot
  <2>8. \A x \in Rows : snapshots'[x] = IF x = m THEN 0 ELSE NoSnapshot
    BY <2>1, <2>5, <2>7 DEF RoomInv, TypeOK
  <2>9. room'.match = m /\ shells'[m] = NewShell
    BY <2>1, <2>5 DEF RoomInv, TypeOK
  <2>10. OneAuthority'
    <3>1. \A x \in Rows : HasSnapshot(x)' => x = m
      BY <2>8 DEF HasSnapshot
    <3>2. \A q \in Callers : call[q].op = "START" => call[q].answer \notin Rows
      BY <1>6, <2>1 DEF RoomInv, OneAuthority
    <3>3. c.answer \in Rows => c.answer = m
      BY RoomAssumption DEF Request, Verdicts, Rows
    <3> QED
      BY <2>4, <2>9, <3>1, <3>2, <3>3 DEF OneAuthority, NewShell, NoShell
  <2>11. StartedOnceWhenReady'
    BY <2>8 DEF StartedOnceWhenReady, Running, NoSnapshot
  <2>12. OwnRowsPending'
    BY <2>1, <2>5 DEF RoomInv, TypeOK, OwnRowsPending, NewShell, Rows
  <2>13. LegacyHasNoSnapshot'
    BY <2>1, <2>8 DEF LegacyHasNoSnapshot, Rows
  <2>14. AutoStartIsDue'
    <3>1. \A q \in Callers : call[q].step = "AUTOSTART" => call[q].match # m
      BY <1>6 DEF RoomInv, AutoStartIsDue, NoShell, Sides
    <3>2. c.step = "IDLE"
      BY DEF Request
    <3>3. \A x \in Rows : x # m => shells'[x] = shells[x]
      BY <2>5 DEF RoomInv, TypeOK
    <3> QED
      BY <2>4, <3>1, <3>2, <3>3 DEF RoomInv, AutoStartIsDue
  <2>15. StepsHaveMatch'
    BY <2>4 DEF RoomInv, StepsHaveMatch, Request
  <2> QED
    BY <2>6, <2>10, <2>11, <2>12, <2>13, <2>14, <2>15 DEF RoomInv
<1> QED
  BY <1>3, <1>4, <1>5, <1>6 DEF Create

(* A setting is written only where no match is attached.                     *)
LEMMA WriteStep ==
  ASSUME RoomInv, NEW p \in Callers, Write(p)
  PROVE  RoomInv'
<1>1. call[p] \in Requests /\ call \in [Callers -> Requests] /\ UNCHANGED <<roomType, shells, snapshots>>
  BY DEF RoomInv, TypeOK, Write
<1>2. CASE Answer(p, "CONFLICT") /\ UNCHANGED room
  BY <1>1, <1>2, AnswerIsGood, ReadingStep, RoomAssumption DEF Answer, Answered, Rows, Verdicts
<1>3. CASE room' = [room EXCEPT !.config = call[p].arg] /\ Answer(p, "OK")
  <2> DEFINE c == Request(call[p].op, "IDLE", NoMatch, "NONE", "OK")
  <2>1. c \in Requests /\ "OK" \notin Rows
    BY <1>1, RoomAssumption DEF Request, Requests, Steps, Verdicts, Rows
  <2>2. call' = [call EXCEPT ![p] = c]
    BY <1>3 DEF Answer, Answered
  <2>3. \A q \in Callers : call'[q] = IF q = p THEN c ELSE call[q]
    BY <1>1, <2>2
  <2>4. call[p].arg \in Configs
    BY DEF Write, At, RoomInv, StepsHaveMatch
  <2>5. room'.match = room.match
    BY <1>3 DEF RoomInv, TypeOK
  <2>6. TypeOK'
    BY <1>1, <1>3, <2>1, <2>2, <2>4 DEF RoomInv, TypeOK
  <2>7. OneAuthority'
    BY <1>1, <2>1, <2>3, <2>5 DEF RoomInv, OneAuthority, HasSnapshot, Request
  <2>8. StartedOnceWhenReady' /\ OwnRowsPending' /\ LegacyHasNoSnapshot'
    BY <1>1 DEF RoomInv, StartedOnceWhenReady, OwnRowsPending, LegacyHasNoSnapshot, Running
  <2>9. AutoStartIsDue' /\ StepsHaveMatch'
    BY <1>1, <2>3 DEF RoomInv, AutoStartIsDue, StepsHaveMatch, Request
  <2> QED
    BY <2>6, <2>7, <2>8, <2>9 DEF RoomInv
<1> QED
  BY <1>2, <1>3 DEF Write

(* An acknowledgement is added; none is taken away, and no status changes.   *)
LEMMA MarkStep ==
  ASSUME RoomInv, NEW p \in Callers, Mark(p)
  PROVE  RoomInv'
<1> DEFINE m == call[p].match
           ready == shells[m].ready \cup {call[p].arg}
<1>1. call[p] \in Requests /\ call \in [Callers -> Requests] /\ UNCHANGED <<roomType, room, snapshots>>
  BY DEF RoomInv, TypeOK, Mark
<1>2. m \in Rows /\ call[p].arg \in Sides
  BY DEF Mark, At, RoomInv, StepsHaveMatch
<1>3. CASE Answer(p, "OK") /\ UNCHANGED shells
  BY <1>1, <1>3, AnswerIsGood, ReadingStep, RoomAssumption DEF Answer, Answered, Rows, Verdicts
<1>4. CASE shells' = [shells EXCEPT ![m].ready = ready] /\ Marked(p, ready)
  <2>1. shells[m] \in [status : Statuses \cup {"none"}, ready : SUBSET Sides] /\ ready \in SUBSET Sides
    BY <1>2 DEF RoomInv, TypeOK
  <2>2. shells' \in [Rows -> [status : Statuses \cup {"none"}, ready : SUBSET Sides]]
    BY <1>2, <1>4, <2>1 DEF RoomInv, TypeOK
  <2>3. /\ shells'[m].ready = ready
        /\ \A x \in Rows : shells'[x].status = shells[x].status /\ shells[x].ready \subseteq shells'[x].ready
    BY <1>2, <1>4, <2>1 DEF RoomInv, TypeOK
  <2>4. \A x \in Rows : shells'[x].ready \subseteq Sides /\ (shells[x].ready = Sides => shells'[x].ready = Sides)
    BY <2>2, <2>3
  <2> DEFINE answered == Request(call[p].op, "IDLE", NoMatch, "NONE", "OK")
             starting == [call[p] EXCEPT !.step = "AUTOSTART"]
  <2>5. PICK c \in {answered, starting} :
          call' = [call EXCEPT ![p] = c] /\ (c.step = "AUTOSTART" => ready = Sides)
    <3>1. CASE Goto(p, "AUTOSTART") /\ ready = Sides
      BY <1>1, <3>1 DEF Goto
    <3>2. CASE Answer(p, "OK")
      BY <3>2 DEF Answer, Answered, Request
    <3> QED
      BY <1>4, <3>1, <3>2 DEF Marked
  <2>6. c \in Requests
    BY <1>1, RoomAssumption DEF Request, Requests, Steps, Verdicts
  <2>7. \A q \in Callers : call'[q] = IF q = p THEN c ELSE call[q]
    BY <1>1, <2>5
  <2>8. c.op = call[p].op /\ (c.answer = "OK" \/ c.answer = call[p].answer) /\ "OK" \notin Rows
    BY <1>1, RoomAssumption DEF Request, Requests, Verdicts, Rows
  <2>9. TypeOK'
    BY <1>1, <2>2, <2>5, <2>6 DEF RoomInv, TypeOK
  <2>10. OneAuthority'
    <3>1. \A x \in Rows : HasSnapshot(x)' => room'.match = x /\ shells'[x] # NoShell
      <4>1. \A x \in Rows : HasSnapshot(x)' => HasSnapshot(x) /\ shells[x] # NoShell /\ room.match = x
        BY <1>1 DEF RoomInv, OneAuthority, HasSnapshot
      <4>2. \A x \in Rows : shells'[x] = NoShell => shells[x] = NoShell
        BY <2>2, <2>3, <2>1 DEF RoomInv, TypeOK, NoShell
      <4> QED
        BY <1>1, <4>1, <4>2
    <3>2. \A q \in Callers : call'[q].op = "START" /\ call'[q].answer \in Rows =>
            room'.match = call'[q].answer
      BY <1>1, <2>7, <2>8 DEF RoomInv, OneAuthority
    <3> QED
      BY <3>1, <3>2 DEF OneAuthority
  <2>11. StartedOnceWhenReady'
    BY <1>1, <2>4 DEF RoomInv, StartedOnceWhenReady, Running
  <2>12. OwnRowsPending' /\ LegacyHasNoSnapshot'
    BY <1>1, <2>3 DEF RoomInv, OwnRowsPending, LegacyHasNoSnapshot, Rows
  <2>13. AutoStartIsDue'
    <3>1. c.step = "AUTOSTART" => c.match = m /\ ready = Sides
      BY <1>1, <2>5 DEF Request, Requests
    <3>2. \A q \in Callers : call[q].step = "AUTOSTART" =>
            call[q].match \in Rows /\ shells'[call[q].match].ready = Sides
      BY <2>4 DEF RoomInv, AutoStartIsDue
    <3> QED
      BY <1>2, <2>3, <2>7, <3>1, <3>2 DEF AutoStartIsDue
  <2>14. StepsHaveMatch'
    <3>1. c.step \in {"IDLE", "AUTOSTART"}
      BY <1>1 DEF Request, Requests
    <3> QED
      BY <2>7, <3>1 DEF RoomInv, StepsHaveMatch
  <2> QED
    BY <2>9, <2>10, <2>11, <2>12, <2>13, <2>14 DEF RoomInv
<1> QED
  BY <1>3, <1>4 DEF Mark

(***************************************************************************)
(* A match is started by the system after both acknowledgements.  A human  *)
(* START_MATCH asks for a row that is ready, which no row with a snapshot  *)
(* ever is.                                                                *)
(***************************************************************************)
LEMMA StartStep ==
  ASSUME RoomInv, NEW p \in Callers, AutoStart(p) \/ Command(p)
  PROVE  RoomInv'
<1> DEFINE m == call[p].match
<1>1. PICK system \in BOOLEAN :
        StartCommand(p, system) /\ At(p, IF system THEN "AUTOSTART" ELSE "COMMAND")
  BY DEF AutoStart, Command
<1>2. call[p] \in Requests /\ call \in [Callers -> Requests] /\ UNCHANGED <<roomType, room, shells>>
  BY <1>1 DEF RoomInv, TypeOK, StartCommand
<1>3. CASE Answer(p, IF system THEN "OK" ELSE "REFUSED") /\ UNCHANGED snapshots
  BY <1>2, <1>3, AnswerIsGood, ReadingStep, RoomAssumption DEF Answer, Answered, Rows, Verdicts
<1>4. ASSUME NEW a \in {"OK", "REFUSED"}, Startable(m, system),
             snapshots' = [snapshots EXCEPT ![m] = @ + 1], Answer(p, a)
      PROVE  RoomInv'
  <2> DEFINE c == Request(call[p].op, "IDLE", NoMatch, "NONE", a)
  <2>1. m \in Rows /\ m # Legacy /\ snapshots[m] = 0 /\ HasSnapshot(m)
    BY <1>4 DEF Startable, HasSnapshot, RoomInv, LegacyHasNoSnapshot, NoSnapshot
  <2>2. \A x \in Rows : snapshots'[x] = IF x = m THEN 1 ELSE snapshots[x]
    BY <1>4, <2>1 DEF RoomInv, TypeOK, NoSnapshot
  <2>3. snapshots' \in [Rows -> {NoSnapshot, 0, 1}]
    BY <1>4, <2>1 DEF RoomInv, TypeOK, NoSnapshot
  <2>4. c \in Requests /\ a \notin Rows
    BY <1>2, RoomAssumption DEF Request, Requests, Steps, Verdicts, Rows
  <2>5. call' = [call EXCEPT ![p] = c]
    BY <1>4 DEF Answer, Answered
  <2>6. \A q \in Callers : call'[q] = IF q = p THEN c ELSE call[q]
    BY <1>2, <2>5
  <2>7. system /\ shells[m].ready = Sides
    <3>1. shells[m].status # "ready"
      BY <2>1 DEF RoomInv, OwnRowsPending, Rows
    <3>2. system
      BY <1>4, <3>1 DEF Startable
    <3> QED
      BY <1>1, <3>2 DEF At, RoomInv, AutoStartIsDue
  <2>8. TypeOK'
    BY <1>2, <2>3, <2>4, <2>5 DEF RoomInv, TypeOK
  <2>9. OneAuthority'
    <3>1. \A x \in Rows : HasSnapshot(x)' => HasSnapshot(x)
      BY <2>1, <2>2 DEF HasSnapshot
    <3> QED
      BY <1>2, <2>4, <2>6, <3>1 DEF RoomInv, OneAuthority, Request
  <2>10. StartedOnceWhenReady'
    BY <1>2, <2>2, <2>7 DEF RoomInv, StartedOnceWhenReady, Running
  <2>11. OwnRowsPending' /\ LegacyHasNoSnapshot'
    BY <1>2, <2>1, <2>2 DEF RoomInv, OwnRowsPending, LegacyHasNoSnapshot, Rows
  <2>12. AutoStartIsDue' /\ StepsHaveMatch'
    BY <1>2, <2>6 DEF RoomInv, AutoStartIsDue, StepsHaveMatch, Request
  <2> QED
    BY <2>8, <2>9, <2>10, <2>11, <2>12 DEF RoomInv
<1> QED
  BY <1>1, <1>3, <1>4 DEF StartCommand

(* Every step keeps the invariant. *)
LEMMA StepRoom == RoomInv /\ [Next]_vars => RoomInv'
<1> SUFFICES ASSUME RoomInv, [Next]_vars PROVE RoomInv'
  OBVIOUS
<1>1. CASE UNCHANGED vars
  BY <1>1 DEF vars, RoomInv, TypeOK, OneAuthority, StartedOnceWhenReady, OwnRowsPending,
     LegacyHasNoSnapshot, AutoStartIsDue, StepsHaveMatch, HasSnapshot, Running
<1>2. ASSUME NEW p \in Callers, Begins(p) PROVE RoomInv'
  BY <1>2, BeginSteps
<1>3. ASSUME NEW p \in Callers, Continues(p) PROVE RoomInv'
  BY <1>3, ReadSteps, CreateStep, WriteStep, MarkStep, StartStep DEF Continues
<1> QED
  BY <1>1, <1>2, <1>3 DEF Next

(* The invariant holds throughout. *)
LEMMA Room == Spec => []RoomInv
  BY InitRoom, StepRoom, PTL DEF Spec

-----------------------------------------------------------------------------
(***************************************************************************)
(* Starting a room is safe however many requests race: TypeOK (versions    *)
(* included: no match is started twice), at most one authoritative match,  *)
(* the one every caller is told, and no start before both sides are ready. *)
(***************************************************************************)
THEOREM StartIsSafe == Spec => [](TypeOK /\ OneAuthority /\ StartedOnceWhenReady)
<1>1. RoomInv => TypeOK /\ OneAuthority /\ StartedOnceWhenReady
  BY DEF RoomInv
<1> QED
  BY <1>1, Room, PTL

(* The lock of the settings holds against every interleaving: the two writes *)
(* of the room document both ask for a room without a match.                 *)
THEOREM SettingsAreLocked == Spec => SetupLocked
<1>1. RoomInv /\ [Next]_vars => [HasSnapshot(room.match) => room' = room]_vars
  <2> SUFFICES ASSUME RoomInv, Next, HasSnapshot(room.match) PROVE room' = room
    BY DEF vars
  <2>1. room.match # NoMatch
    BY RoomAssumption DEF HasSnapshot, Rows
  <2>2. ASSUME NEW p \in Callers, Begins(p) PROVE room' = room
    BY <2>2 DEF Begins, BeginStart, BeginConfigure, BeginReady, BeginCommand
  <2>3. ASSUME NEW p \in Callers, Continues(p) PROVE room' = room
    BY <2>1, <2>3 DEF Continues, Lookup, Recover, Create, Reread, Write, ReadShell, Mark,
       AutoStart, Command, StartCommand
  <2> QED
    BY <2>2, <2>3 DEF Next
<1> QED
  BY <1>1, Room, PTL DEF Spec, SetupLocked

(* An acknowledgement is set by one field update, so no concurrent one is    *)
(* lost; the row a bootstrap inserts is new.                                 *)
THEOREM AcknowledgementsStay == Spec => AcknowledgementsKept
<1>1. RoomInv /\ [Next]_vars => [\A m \in Rows : shells[m].ready \subseteq shells'[m].ready]_vars
  <2> SUFFICES ASSUME RoomInv, Next, NEW x \in Rows PROVE shells[x].ready \subseteq shells'[x].ready
    BY DEF vars
  <2>1. ASSUME NEW p \in Callers, Begins(p) PROVE UNCHANGED shells
    BY <2>1 DEF Begins, BeginStart, BeginConfigure, BeginReady, BeginCommand
  <2>2. ASSUME NEW p \in Callers, Create(p) PROVE shells[x].ready \subseteq shells'[x].ready
    <3>1. ASSUME NEW m \in Ids, shells[m] = NoShell, Bootstrap(m)
          PROVE  shells[x].ready \subseteq shells'[x].ready
      BY <3>1 DEF Bootstrap, NewShell, NoShell, RoomInv, TypeOK
    <3> QED
      BY <2>2, <3>1 DEF Create
  <2>3. ASSUME NEW p \in Callers, Mark(p) PROVE shells[x].ready \subseteq shells'[x].ready
    <3>1. shells[x] \in [status : Statuses \cup {"none"}, ready : SUBSET Sides]
      BY DEF RoomInv, TypeOK
    <3> QED
      BY <2>3, <3>1 DEF Mark, RoomInv, TypeOK
  <2>4. ASSUME NEW p \in Callers, Continues(p) PROVE shells[x].ready \subseteq shells'[x].ready
    BY <2>2, <2>3, <2>4 DEF Continues, Lookup, Recover, Reread, Write, ReadShell,
       AutoStart, Command, StartCommand
  <2> QED
    BY <2>1, <2>4 DEF Next
<1> QED
  BY <1>1, Room, PTL DEF Spec, AcknowledgementsKept
=============================================================================
