--------------------------- MODULE IrcReviewProofs ---------------------------
(***************************************************************************)
(* For any observations, requests and reconcilers: a result is confirmed   *)
(* only by a command that was applied for it, and verdicts stand.  The     *)
(* first rests on what a request and a reconciler know when they are about *)
(* to confirm (AnswersTrue, ReceiptsTrue): the log only grows, so what     *)
(* they read of it stays true however long they wait.                      *)
(***************************************************************************)
EXTENDS IrcReview, TLAPS

Reviews == [status : {"ABSENT", "PENDING", "CONFIRMING", "CONFIRMED", "REJECTED"}, id : Ids \cup {NoId}]
Confirmations ==
  {NoConfirmation} \cup [step : {"CLAIM", "EXECUTE"}, obs : Observations, req : Requests]
Rounds == [items : SUBSET Claims, next : SUBSET Claims, write : {"NONE", "FINALIZE", "RELEASE"}]
Replies == [req : Requests, kind : Kinds, version : Nat]

ReviewTypes ==
  /\ log \in Seq(Requests)
  /\ reply \in [Callers -> Replies]
  /\ review \in [Observations -> Reviews]
  /\ confirm \in [Callers -> Confirmations]
  /\ rec \in [Reconcilers -> Rounds]

(* A request confirms what its observation says, and waits for its own command. *)
RequestOK(p) ==
  /\ ~NoRequest(p) => confirm[p].req.body = Says[confirm[p].obs]
  /\ confirm[p].step = "EXECUTE" => reply[p].req = confirm[p].req

(* What was answered is in the log. *)
AnswerTrue(p) ==
  reply[p].kind \in {"APPLIED", "REPLAYED"} => \E k \in DOMAIN log : log[k] = reply[p].req

(* A command that confirms the observation was applied under the id. *)
HasCommand(o, id) == \E k \in DOMAIN log : log[k].id = id /\ log[k].body = Says[o]

(* What a reconciler is about to confirm was applied. *)
ReceiptsTrue(k) == rec[k].write = "FINALIZE" => \A c \in rec[k].next : Receipt(c)

ReviewInv ==
  /\ ReviewTypes
  /\ ConfirmedByCommand
  /\ \A p \in Callers : RequestOK(p) /\ AnswerTrue(p)
  /\ \A k \in Reconcilers : ReceiptsTrue(k)

LogGrows ==
  /\ log' \in Seq(Requests)
  /\ \A k \in DOMAIN log : k \in DOMAIN log' /\ log'[k] = log[k]

-----------------------------------------------------------------------------
LEMMA LogStays ==
  ASSUME ReviewTypes, UNCHANGED log
  PROVE  LogGrows
BY DEF ReviewTypes, LogGrows

LEMMA LogAppends ==
  ASSUME ReviewTypes, NEW r \in Requests, log' = Append(log, r)
  PROVE  LogGrows /\ Len(log) + 1 \in DOMAIN log' /\ log'[Len(log) + 1] = r
BY DEF ReviewTypes, LogGrows

(* What was read of the log stays true. *)
LEMMA ReceiptKept ==
  ASSUME LogGrows, NEW c, Receipt(c)
  PROVE  Receipt(c)'
BY DEF LogGrows, Receipt, Places

LEMMA CommandKept ==
  ASSUME LogGrows, NEW o, NEW id, HasCommand(o, id)
  PROVE  \E k \in DOMAIN log' : log'[k].id = id /\ log'[k].body = Says[o]
BY DEF LogGrows, HasCommand

(* A step is right if what it writes is, seen from the state it leads to. *)
LEMMA StepIsTrue ==
  ASSUME ReviewInv, LogGrows,
         reply' \in [Callers -> Replies], review' \in [Observations -> Reviews],
         confirm' \in [Callers -> Confirmations], rec' \in [Reconcilers -> Rounds],
         \A o \in Observations :
           \/ review'[o].status # "CONFIRMED" \/ review'[o] = review[o]
           \/ HasCommand(o, review'[o].id),
         \A p \in Callers :
           \/ reply'[p] = reply[p] /\ confirm'[p] = confirm[p]
           \/ RequestOK(p)' /\ AnswerTrue(p)',
         \A k \in Reconcilers : rec'[k] = rec[k] \/ ReceiptsTrue(k)'
  PROVE  ReviewInv'
<1>1. ReviewTypes'
  BY DEF LogGrows, ReviewTypes
<1>2. ConfirmedByCommand'
  <2> SUFFICES ASSUME NEW o \in Observations, review'[o].status = "CONFIRMED"
               PROVE  \E k \in DOMAIN log' : log'[k].id = review'[o].id /\ log'[k].body = Says[o]
    BY DEF ConfirmedByCommand, Places
  <2>1. CASE review'[o] = review[o]
    <3>1. HasCommand(o, review[o].id)
      BY <2>1 DEF ReviewInv, ConfirmedByCommand, Places, HasCommand
    <3> QED
      BY <2>1, <3>1, CommandKept
  <2>2. CASE HasCommand(o, review'[o].id)
    BY <2>2, CommandKept
  <2> QED
    BY <2>1, <2>2
<1>3. ASSUME NEW p \in Callers PROVE RequestOK(p)' /\ AnswerTrue(p)'
  BY DEF ReviewInv, RequestOK, AnswerTrue, LogGrows, NoRequest
<1>4. ASSUME NEW k \in Reconcilers PROVE ReceiptsTrue(k)'
  BY ReceiptKept DEF ReviewInv, ReceiptsTrue
<1> QED
  BY <1>1, <1>2, <1>3, <1>4 DEF ReviewInv

(* The parts of the invariant that the steps start from. *)
LEMMA Given ==
  ASSUME ReviewInv
  PROVE  /\ log \in Seq(Requests) /\ reply \in [Callers -> Replies]
         /\ review \in [Observations -> Reviews] /\ confirm \in [Callers -> Confirmations]
         /\ rec \in [Reconcilers -> Rounds]
         /\ \A p \in Callers : RequestOK(p) /\ AnswerTrue(p)
         /\ \A k \in Reconcilers : ReceiptsTrue(k)
BY DEF ReviewInv, ReviewTypes

LEMMA Busy ==
  ASSUME ReviewInv, NEW p \in Callers, ~NoRequest(p)
  PROVE  /\ confirm[p] \in [step : {"CLAIM", "EXECUTE"}, obs : Observations, req : Requests]
         /\ ClaimOf(p) \in Claims /\ ClaimOf(p).obs = confirm[p].obs
         /\ ClaimOf(p).id = confirm[p].req.id /\ confirm[p].req.body = Says[confirm[p].obs]
<1>1. confirm[p] \in [step : {"CLAIM", "EXECUTE"}, obs : Observations, req : Requests]
  BY Given DEF NoRequest, Confirmations
<1>2. confirm[p].req.id \in Ids /\ confirm[p].req.body = Says[confirm[p].obs]
  BY <1>1, Given DEF Requests, RequestOK
<1> QED
  BY <1>1, <1>2 DEF ClaimOf, Claims, Claim

(* The writes with which a claim ends. *)
LEMMA ClaimEndsWell ==
  ASSUME ReviewInv, NEW c \in Claims,
         (Receipt(c) /\ FinalizeConfirmation(c)) \/ ReleaseConfirmation(c)
  PROVE  /\ review' \in [Observations -> Reviews]
         /\ \A o \in Observations :
              \/ review'[o].status # "CONFIRMED" \/ review'[o] = review[o]
              \/ HasCommand(o, review'[o].id)
<1>1. c.obs \in Observations /\ c.id \in Ids /\ c = Claim(c.obs, c.id)
  BY DEF Claims, Claim
<1>2. /\ Review("CONFIRMED", c.id) \in Reviews /\ Review("CONFIRMED", c.id).id = c.id
      /\ Review("PENDING", NoId) \in Reviews /\ Review("PENDING", NoId).status = "PENDING"
  BY <1>1 DEF Review, Reviews
<1>3. CASE Receipt(c) /\ FinalizeConfirmation(c)
  <2>1. review' = [review EXCEPT ![c.obs] = IF Confirming(c) THEN Review("CONFIRMED", c.id) ELSE @]
    BY <1>3 DEF FinalizeConfirmation
  <2>2. \A o \in Observations : o # c.obs => review'[o] = review[o]
    BY <2>1, Given
  <2>3. review'[c.obs] = review[c.obs] \/ review'[c.obs].id = c.id
    BY <1>1, <1>2, <2>1, Given
  <2>4. review' \in [Observations -> Reviews]
    BY <1>2, <2>1, Given
  <2>5. HasCommand(c.obs, c.id)
    BY <1>3 DEF Receipt, Places, HasCommand
  <2> QED
    BY <1>1, <2>2, <2>3, <2>4, <2>5
<1>4. CASE ReleaseConfirmation(c)
  BY <1>1, <1>2, <1>4, Given DEF ReleaseConfirmation
<1> QED
  BY <1>3, <1>4


-----------------------------------------------------------------------------
LEMMA ObservationSteps ==
  ASSUME ReviewInv, NEW o \in Observations, Save(o) \/ Reject(o)
  PROVE  ReviewInv'
<1>1. UNCHANGED <<log, reply, confirm, rec>> /\ LogGrows
  BY LogStays DEF Save, Reject, ReviewInv
<1>2. PICK status \in {"PENDING", "REJECTED"} :
        review' = [review EXCEPT ![o] = Review(status, NoId)]
  BY DEF Save, Reject
<1>3. Review(status, NoId) \in Reviews /\ Review(status, NoId).status = status
  BY DEF Review, Reviews
<1>4. review' \in [Observations -> Reviews]
  BY <1>2, <1>3, Given
<1>5. \A x \in Observations : review'[x].status # "CONFIRMED" \/ review'[x] = review[x]
  BY <1>2, <1>3, Given
<1> QED
  BY <1>1, <1>4, <1>5, Given, StepIsTrue

LEMMA ReadStep ==
  ASSUME ReviewInv, NEW p \in Callers, NEW o \in Observations, NEW r \in Requests,
         ReadObservation(p, o, r)
  PROVE  ReviewInv'
<1> DEFINE new == [step |-> "CLAIM", obs |-> o, req |-> r]
<1>1. UNCHANGED <<log, reply, review, rec>> /\ LogGrows
  BY LogStays DEF ReadObservation, ReviewInv
<1>2. confirm' = [confirm EXCEPT ![p] = new] /\ r.body = Says[o]
  BY DEF ReadObservation
<1>3. new \in Confirmations
  BY DEF Confirmations
<1>4. confirm' \in [Callers -> Confirmations] /\ confirm'[p] = new
      /\ \A q \in Callers : q # p => confirm'[q] = confirm[q]
  BY <1>2, <1>3, Given
<1>5. RequestOK(p)' /\ AnswerTrue(p)'
  BY <1>1, <1>2, <1>4, Given DEF RequestOK, AnswerTrue
<1> QED
  BY <1>1, <1>4, <1>5, Given, StepIsTrue

(* A command is asked for. *)
LEMMA Asked ==
  ASSUME ReviewInv, NEW p \in Callers, NEW r \in Requests, Ask(p, r)
  PROVE  /\ LogGrows /\ reply' \in [Callers -> Replies]
         /\ reply'[p].req = r /\ reply'[p].kind = "WAITING"
         /\ \A q \in Callers : q # p => reply'[q] = reply[q]
<1>1. UNCHANGED log /\ reply' = [reply EXCEPT ![p] = Reply(r, "WAITING", 0)]
  BY DEF Ask
<1>2. /\ Reply(r, "WAITING", 0) \in Replies
      /\ Reply(r, "WAITING", 0).req = r /\ Reply(r, "WAITING", 0).kind = "WAITING"
  BY DEF Reply, Replies, Kinds
<1> QED
  BY <1>1, <1>2, Given, LogStays DEF ReviewInv

LEMMA ClaimStep ==
  ASSUME ReviewInv, NEW p \in Callers, ClaimConfirmation(p)
  PROVE  ReviewInv'
<1> DEFINE c == ClaimOf(p)
           old == confirm[p]
           new == [old EXCEPT !.step = "EXECUTE"]
<1>1. old.step = "CLAIM" /\ Ask(p, old.req) /\ UNCHANGED rec
      /\ confirm' = [confirm EXCEPT ![p].step = "EXECUTE"]
  BY DEF ClaimConfirmation
<1>2. /\ old \in [step : {"CLAIM", "EXECUTE"}, obs : Observations, req : Requests]
      /\ c \in Claims /\ old.req.body = Says[old.obs] /\ ~NoRequest(p)
  BY <1>1, Busy DEF NoRequest, NoConfirmation
<1>3. /\ LogGrows /\ reply' \in [Callers -> Replies]
      /\ reply'[p].req = old.req /\ reply'[p].kind = "WAITING"
      /\ \A q \in Callers : q # p => reply'[q] = reply[q]
  BY <1>1, <1>2, Asked
<1>4. new \in Confirmations /\ new.req = old.req /\ new.obs = old.obs
  BY <1>2 DEF Confirmations
<1>5. confirm' \in [Callers -> Confirmations] /\ confirm'[p] = new
      /\ \A q \in Callers : q # p => confirm'[q] = confirm[q]
  BY <1>1, <1>4, Given
<1>6. RequestOK(p)' /\ AnswerTrue(p)'
  BY <1>2, <1>3, <1>4, <1>5 DEF RequestOK, AnswerTrue
<1>7. /\ review' \in [Observations -> Reviews]
      /\ \A o \in Observations : review'[o].status # "CONFIRMED" \/ review'[o] = review[o]
  <2>1. CASE UNCHANGED review
    BY <2>1, Given
  <2>2. CASE review' = [review EXCEPT ![c.obs] = Review("CONFIRMING", c.id)]
    <3>1. c.obs \in Observations /\ Review("CONFIRMING", c.id) \in Reviews
          /\ Review("CONFIRMING", c.id).status = "CONFIRMING"
      BY <1>2 DEF Claims, Review, Reviews
    <3> QED
      BY <2>2, <3>1, Given
  <2> QED
    BY <2>1, <2>2 DEF ClaimConfirmation
<1> QED
  BY <1>1, <1>3, <1>5, <1>6, <1>7, Given, StepIsTrue

(* A request ends, and may end its claim. *)
LEMMA RequestEnds ==
  ASSUME ReviewInv, NEW p \in Callers, EndRequest(p), UNCHANGED <<log, reply, rec>>,
         review' \in [Observations -> Reviews],
         \A o \in Observations :
           \/ review'[o].status # "CONFIRMED" \/ review'[o] = review[o]
           \/ HasCommand(o, review'[o].id)
  PROVE  ReviewInv'
<1>1. confirm' \in [Callers -> Confirmations] /\ confirm'[p] = NoConfirmation
      /\ \A q \in Callers : q # p => confirm'[q] = confirm[q]
  BY Given DEF EndRequest, Confirmations
<1>2. RequestOK(p)' /\ AnswerTrue(p)'
  BY <1>1, Given DEF RequestOK, AnswerTrue, NoRequest, NoConfirmation
<1>3. LogGrows
  BY LogStays DEF ReviewInv
<1> QED
  BY <1>1, <1>2, <1>3, Given, StepIsTrue

LEMMA FinishStep ==
  ASSUME ReviewInv, NEW p \in Callers, Finish(p)
  PROVE  ReviewInv'
<1> DEFINE c == ClaimOf(p)
<1>1. /\ confirm[p].step = "EXECUTE" /\ EndRequest(p) /\ UNCHANGED <<log, reply, rec>>
      /\ ~NoRequest(p)
  BY DEF Finish, NoRequest, NoConfirmation
<1>2. /\ c \in Claims /\ c.obs = confirm[p].obs /\ c.id = confirm[p].req.id
      /\ confirm[p].req.body = Says[confirm[p].obs] /\ reply[p].req = confirm[p].req
  BY <1>1, Busy, Given DEF RequestOK
<1>3. reply[p].kind \in {"APPLIED", "REPLAYED"} => Receipt(c)
  BY <1>2, Given DEF AnswerTrue, Receipt, Places
<1>4. (Receipt(c) /\ FinalizeConfirmation(c)) \/ ReleaseConfirmation(c)
  BY <1>3 DEF Finish
<1> QED
  BY <1>1, <1>2, <1>4, ClaimEndsWell, RequestEnds

LEMMA DropStep ==
  ASSUME ReviewInv, NEW p \in Callers, ClaimUnavailable(p) \/ StopRequest(p)
  PROVE  ReviewInv'
BY Given, RequestEnds DEF ClaimUnavailable, StopRequest

LEMMA OtherStep ==
  ASSUME ReviewInv, NEW p \in Callers, NEW r \in Requests, OtherCommand(p, r)
  PROVE  ReviewInv'
<1>1. NoRequest(p) /\ Ask(p, r) /\ UNCHANGED <<review, confirm, rec>>
  BY DEF OtherCommand
<1>2. /\ LogGrows /\ reply' \in [Callers -> Replies] /\ reply'[p].kind = "WAITING"
      /\ \A q \in Callers : q # p => reply'[q] = reply[q]
  BY <1>1, Asked
<1>3. RequestOK(p)' /\ AnswerTrue(p)'
  BY <1>1, <1>2 DEF RequestOK, AnswerTrue, NoRequest, NoConfirmation
<1> QED
  BY <1>1, <1>2, <1>3, Given, StepIsTrue

LEMMA ExecuteStep ==
  ASSUME ReviewInv, NEW p \in Callers, ExecuteCommand(p)
  PROVE  ReviewInv'
<1> DEFINE r == reply[p].req
<1>1. UNCHANGED <<review, confirm, rec>> /\ r \in Requests
  BY Given DEF ExecuteCommand, Replies
<1>2. ASSUME NEW kind \in Kinds, NEW version \in Nat, Answered(p, kind, version), LogGrows,
             kind \in {"APPLIED", "REPLAYED"} => \E k \in DOMAIN log' : log'[k] = r
      PROVE  ReviewInv'
  <2>1. Reply(r, kind, version) \in Replies
    BY <1>1 DEF Reply, Replies
  <2>2. /\ reply' \in [Callers -> Replies]
        /\ reply'[p].req = r /\ reply'[p].kind = kind
        /\ \A q \in Callers : q # p => reply'[q] = reply[q]
    BY <1>2, <2>1, Given DEF Answered, Reply
  <2>3. RequestOK(p)' /\ AnswerTrue(p)'
    BY <1>1, <1>2, <2>2, Given DEF RequestOK, AnswerTrue, NoRequest
  <2> QED
    BY <1>1, <1>2, <2>2, <2>3, Given, StepIsTrue
<1>3. CASE AppendRequest(p)
  <2>1. LogGrows /\ Len(log) + 1 \in DOMAIN log' /\ log'[Len(log) + 1] = r
    BY <1>1, <1>3, LogAppends DEF AppendRequest, ReviewInv
  <2>2. Len(log) + 1 \in Nat /\ (Answered(p, "APPLIED", Len(log) + 1) \/ Answered(p, "ERROR", 0))
    BY <1>3, Given DEF AppendRequest
  <2> QED
    BY <1>2, <2>1, <2>2 DEF Kinds
<1>4. CASE Repeat(p)
  <2>1. PICK k \in Places(r.id) : log[k] = r /\ Answered(p, "REPLAYED", k)
    BY <1>4 DEF Repeat
  <2>2. k \in DOMAIN log /\ k \in Nat
    BY Given DEF Places
  <2>3. UNCHANGED log /\ LogGrows
    BY <1>4, LogStays DEF Repeat, ReviewInv
  <2> QED
    BY <1>2, <2>1, <2>2, <2>3 DEF Kinds
<1>5. CASE Mismatch(p) \/ Conflict(p) \/ Refuse(p)
  <2>1. UNCHANGED log /\ LogGrows
    BY <1>5, LogStays DEF Mismatch, Conflict, Refuse, ReviewInv
  <2>2. \E kind \in {"MISMATCH", "CONFLICT", "REJECTED", "ERROR"} : Answered(p, kind, 0)
    BY <1>5 DEF Mismatch, Conflict, Refuse
  <2> QED
    BY <1>2, <2>1, <2>2 DEF Kinds
<1> QED
  BY <1>3, <1>4, <1>5 DEF ExecuteCommand

-----------------------------------------------------------------------------
(* A reconciler writes only what it plans next. *)
LEMMA RoundStep ==
  ASSUME ReviewInv, NEW k \in Reconcilers, NEW r \in Rounds, rec' = [rec EXCEPT ![k] = r],
         r.write = "FINALIZE" => \A c \in r.next : Receipt(c),
         UNCHANGED <<log, reply, confirm>>, review' \in [Observations -> Reviews],
         \A o \in Observations :
           \/ review'[o].status # "CONFIRMED" \/ review'[o] = review[o]
           \/ HasCommand(o, review'[o].id)
  PROVE  ReviewInv'
<1>1. rec' \in [Reconcilers -> Rounds] /\ rec'[k] = r
      /\ \A m \in Reconcilers : m # k => rec'[m] = rec[m]
  BY Given
<1>2. LogGrows
  BY LogStays DEF ReviewInv
<1>3. ReceiptsTrue(k)'
  BY <1>1, <1>2, ReceiptKept DEF ReceiptsTrue
<1> QED
  BY <1>1, <1>2, <1>3, Given, StepIsTrue

LEMMA NoClaimsRound == NoClaims \in Rounds /\ NoClaims.write = "NONE"
BY DEF NoClaims, Rounds

LEMMA ReconcilerSteps ==
  ASSUME ReviewInv, NEW k \in Reconcilers,
         \/ ListConfirming(k) \/ EndClaim(k) \/ StopReconciler(k)
         \/ \E c \in Claims : LoadReceipt(k, c) \/ SkipClaim(k, c)
  PROVE  ReviewInv'
<1>1. rec[k] \in Rounds
  BY Given
<1>2. CASE ListConfirming(k)
  <2> DEFINE r == [rec[k] EXCEPT !.items = {c \in Claims : Confirming(c)}]
  <2>1. r \in Rounds /\ r.write = "NONE" /\ rec' = [rec EXCEPT ![k] = r]
    BY <1>1, <1>2, NoClaimsRound DEF ListConfirming, Rounds
  <2> QED
    BY <1>2, <2>1, Given, RoundStep DEF ListConfirming
<1>3. ASSUME NEW c \in Claims, LoadReceipt(k, c) PROVE ReviewInv'
  <2> DEFINE r == [rec[k] EXCEPT !.next = {c}, !.write = IF Receipt(c) THEN "FINALIZE" ELSE "RELEASE"]
  <2>1. r \in Rounds /\ r.next = {c} /\ (r.write = "FINALIZE" => Receipt(c))
    BY <1>1, <1>3 DEF Rounds
  <2>2. rec' = [rec EXCEPT ![k] = r] /\ UNCHANGED <<log, reply, review, confirm>>
    BY <1>3 DEF LoadReceipt
  <2>3. r.write = "FINALIZE" => \A x \in r.next : Receipt(x)
    BY <2>1
  <2> HIDE DEF r
  <2> QED
    BY <2>1, <2>2, <2>3, Given, RoundStep
<1>4. ASSUME NEW c \in Claims, SkipClaim(k, c) PROVE ReviewInv'
  <2> DEFINE r == [rec[k] EXCEPT !.items = @ \ {c}]
  <2>1. r \in Rounds /\ r.write = "NONE" /\ rec' = [rec EXCEPT ![k] = r]
    BY <1>1, <1>4 DEF SkipClaim, Rounds
  <2> QED
    BY <1>4, <2>1, Given, RoundStep DEF SkipClaim
<1>5. CASE EndClaim(k)
  <2> DEFINE r == [NoClaims EXCEPT !.items = rec[k].items \ rec[k].next]
  <2>1. r \in Rounds /\ r.write = "NONE" /\ rec' = [rec EXCEPT ![k] = r]
    BY <1>1, <1>5, NoClaimsRound DEF EndClaim, Rounds
  <2>2. PICK c \in rec[k].next :
          IF rec[k].write = "FINALIZE" THEN FinalizeConfirmation(c) ELSE ReleaseConfirmation(c)
    BY <1>5 DEF EndClaim
  <2>3. c \in Claims
    BY <1>1 DEF Rounds
  <2>4. (Receipt(c) /\ FinalizeConfirmation(c)) \/ ReleaseConfirmation(c)
    BY <2>2, Given DEF ReceiptsTrue
  <2> QED
    BY <1>5, <2>1, <2>3, <2>4, ClaimEndsWell, RoundStep DEF EndClaim
<1>6. CASE StopReconciler(k)
  BY <1>6, NoClaimsRound, Given, RoundStep DEF StopReconciler
<1> QED
  BY <1>2, <1>3, <1>4, <1>5, <1>6

LEMMA ReviewStarts == ReviewInit => ReviewInv
<1> SUFFICES ASSUME ReviewInit PROVE ReviewInv
  OBVIOUS
<1>1. log \in Seq(Requests) /\ reply \in [Callers -> {Reply(r, "REJECTED", 0) : r \in Requests}]
  BY DEF ReviewInit, LogInit
<1>2. \A r \in Requests : Reply(r, "REJECTED", 0) \in Replies /\ Reply(r, "REJECTED", 0).kind = "REJECTED"
  BY DEF Reply, Replies, Kinds
<1>3. Review("ABSENT", NoId) \in Reviews /\ Review("ABSENT", NoId).status = "ABSENT"
  BY DEF Review, Reviews
<1>4. ReviewTypes
  BY <1>1, <1>2, <1>3, NoClaimsRound DEF ReviewInit, ReviewTypes, Confirmations
<1>5. ConfirmedByCommand
  BY <1>3 DEF ReviewInit, ConfirmedByCommand
<1>6. \A p \in Callers : RequestOK(p) /\ AnswerTrue(p)
  BY <1>1, <1>2 DEF ReviewInit, RequestOK, AnswerTrue, NoRequest, NoConfirmation
<1>7. \A k \in Reconcilers : ReceiptsTrue(k)
  BY NoClaimsRound DEF ReviewInit, ReceiptsTrue
<1> QED
  BY <1>4, <1>5, <1>6, <1>7 DEF ReviewInv

LEMMA ReviewStep ==
  ASSUME ReviewInv, [ReviewNext]_reviewVars
  PROVE  ReviewInv'
<1>1. CASE UNCHANGED reviewVars
  BY <1>1, Given, LogStays, StepIsTrue DEF reviewVars, ReviewInv
<1>2. ASSUME NEW p \in Callers,
             \/ \E r \in Requests : OtherCommand(p, r) \/ \E o \in Observations : ReadObservation(p, o, r)
             \/ Confirms(p) \/ ExecuteCommand(p) \/ StopRequest(p)
      PROVE  ReviewInv'
  BY <1>2, OtherStep, ReadStep, ClaimStep, FinishStep, DropStep, ExecuteStep DEF Confirms
<1> QED
  BY <1>1, <1>2, ObservationSteps, ReconcilerSteps DEF ReviewNext

LEMMA ReviewHolds == ReviewSpec => []ReviewInv
<1>1. ReviewInv /\ [ReviewNext]_reviewVars => ReviewInv'
  BY ReviewStep
<1> QED
  BY <1>1, ReviewStarts, PTL DEF ReviewSpec

(* A result is confirmed only by a command that was applied for it. *)
THEOREM ConfirmedByItsCommand == ReviewSpec => []ConfirmedByCommand
<1>1. ReviewInv => ConfirmedByCommand
  BY DEF ReviewInv
<1> QED
  BY <1>1, ReviewHolds, PTL

(* A confirmed or rejected observation stays as it is, whatever requests and *)
(* reconcilers still hold of it.                                             *)
THEOREM VerdictsAreFinal == ReviewSpec => VerdictsStand
<1> DEFINE Stand == \A o \in Observations :
             review[o].status \in {"CONFIRMED", "REJECTED"} => review'[o] = review[o]
<1>1. ASSUME ReviewInv, [ReviewNext]_reviewVars PROVE Stand
  <2>1. review \in [Observations -> Reviews]
    BY <1>1, Given
  <2>2. CASE UNCHANGED review
    BY <2>2
  <2>3. ASSUME NEW c, FinalizeConfirmation(c) \/ ReleaseConfirmation(c) PROVE Stand
    BY <2>1, <2>3 DEF FinalizeConfirmation, ReleaseConfirmation, Confirming, Review
  <2>4. ASSUME NEW o \in Observations, Save(o) \/ Reject(o) PROVE Stand
    BY <2>1, <2>4 DEF Save, Reject
  <2>5. ASSUME NEW p \in Callers, ClaimConfirmation(p) PROVE Stand
    BY <2>1, <2>5 DEF ClaimConfirmation, Confirming, Review
  <2>6. ASSUME NEW p \in Callers, Finish(p) PROVE Stand
    BY <2>3, <2>6 DEF Finish
  <2>7. ASSUME NEW k \in Reconcilers, EndClaim(k) PROVE Stand
    BY <2>3, <2>7 DEF EndClaim
  <2> QED
    BY <1>1, <2>2, <2>4, <2>5, <2>6, <2>7
    DEF ReviewNext, reviewVars, Confirms, ReadObservation, OtherCommand, ClaimUnavailable,
        ExecuteCommand, StopRequest, ListConfirming, StopReconciler, LoadReceipt, SkipClaim
<1> QED
  BY <1>1, ReviewHolds, PTL DEF ReviewSpec, VerdictsStand
=============================================================================
