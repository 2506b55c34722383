------------------------------ MODULE IrcReview ------------------------------
(***************************************************************************)
(* The review of results that referees type into the chat of a match.      *)
(* Confirming an observation takes three writes that no transaction joins: *)
(* the observation is claimed for a command, the command is executed, and  *)
(* the observation is confirmed or released by how that went.  A server    *)
(* may stop between any two of them; then the reconciler of any server     *)
(* settles the claim from the command's receipt.  Requests are retried     *)
(* with the same command id, and reuse ids as they like.                   *)
(*                                                                         *)
(* The command store is taken at its word: it is the log that CommandStore *)
(* is shown to implement.  The text of an observation determines the       *)
(* command that confirms it.  Times are left out: a claim may be found     *)
(* stale at any moment, as it may have been renewed since it was listed.   *)
(***************************************************************************)
EXTENDS MatchLog

CONSTANTS
  Observations,
  Says,         \* the command body each observation calls for
  Reconcilers,
  NoId          \* an observation claimed for no command

ASSUME ReviewAssumption == Says \in [Observations -> Bodies] /\ NoId \notin Ids

VARIABLES
  review,   \* the status of each observation, and the command it is claimed for
  confirm,  \* the confirmation each caller is in the middle of
  rec       \* the claims each reconciler has listed, and what it is about to write

reviewVars == <<log, reply, review, confirm, rec>>

Review(status, id) == [status |-> status, id |-> id]

(* A claim of an observation for a command. *)
Claims == [obs : Observations, id : Ids]
Claim(o, id) == [obs |-> o, id |-> id]
Confirming(c) == review[c.obs] = Review("CONFIRMING", c.id)
Confirmed(c) == review[c.obs] = Review("CONFIRMED", c.id)

(* LoadConfirmationReceipt: the command was applied, and is the one that the *)
(* observation calls for.                                                    *)
Receipt(c) == \E k \in Places(c.id) : log[k].body = Says[c.obs]

ClaimOf(p) == Claim(confirm[p].obs, confirm[p].req.id)

NoConfirmation == [step |-> "IDLE"]
NoRequest(p) == confirm[p] = NoConfirmation
EndRequest(p) == confirm' = [confirm EXCEPT ![p] = NoConfirmation]

NoClaims == [items |-> {}, next |-> {}, write |-> "NONE"]

(* Fault: whatever the observation is claimed for now is confirmed. *)
FinalizeUnchecked(c) ==
  review' = [review EXCEPT ![c.obs] =
               IF @.status = "CONFIRMING" THEN Review("CONFIRMED", @.id) ELSE @]

(* Fault: a claim is released though it was confirmed. *)
ReleaseUnchecked(c) ==
  review' = [review EXCEPT ![c.obs] = IF @.id = c.id THEN Review("PENDING", NoId) ELSE @]

(* The two ends of a claim; both leave an observation alone that is claimed  *)
(* otherwise by now.                                                         *)
FinalizeConfirmation(c) ==
  review' = [review EXCEPT ![c.obs] = IF Confirming(c) THEN Review("CONFIRMED", c.id) ELSE @]

ReleaseConfirmation(c) ==
  review' = [review EXCEPT ![c.obs] = IF Confirming(c) THEN Review("PENDING", NoId) ELSE @]

-----------------------------------------------------------------------------
(* The reader of the connection saves what it observed; once. *)
Save(o) ==
  /\ review[o].status = "ABSENT"
  /\ review' = [review EXCEPT ![o] = Review("PENDING", NoId)]
  /\ UNCHANGED <<log, reply, confirm, rec>>

Reject(o) ==
  /\ review[o].status = "PENDING"
  /\ review' = [review EXCEPT ![o] = Review("REJECTED", NoId)]
  /\ UNCHANGED <<log, reply, confirm, rec>>

(* ConfirmIRCResult reads the observation, which must say what the request   *)
(* confirms.                                                                 *)
ReadObservation(p, o, r) ==
  /\ NoRequest(p) /\ ~Waiting(p)
  /\ review[o].status # "ABSENT" /\ r.body = Says[o]
  /\ confirm' = [confirm EXCEPT ![p] = [step |-> "CLAIM", obs |-> o, req |-> r]]
  /\ UNCHANGED <<log, reply, review, rec>>

(* The observation is claimed for the command, and the command begins.  The  *)
(* same claim may be made again, and a confirmed one is answered as before.  *)
ClaimConfirmation(p) ==
  LET c == ClaimOf(p) IN
  /\ confirm[p].step = "CLAIM"
  /\ \/ /\ review[c.obs].status = "PENDING" \/ Confirming(c)
        /\ review' = [review EXCEPT ![c.obs] = Review("CONFIRMING", c.id)]
     \/ Confirmed(c) /\ UNCHANGED review
  /\ Ask(p, confirm[p].req)
  /\ confirm' = [confirm EXCEPT ![p].step = "EXECUTE"]
  /\ UNCHANGED rec

(* The observation is rejected, or claimed for another command. *)
ClaimUnavailable(p) ==
  LET c == ClaimOf(p) IN
  /\ confirm[p].step = "CLAIM"
  /\ review[c.obs].status # "PENDING" /\ ~Confirming(c) /\ ~Confirmed(c)
  /\ EndRequest(p)
  /\ UNCHANGED <<log, reply, review, rec>>

(* The command was answered. *)
Finish(p) ==
  LET c == ClaimOf(p) IN
  /\ confirm[p].step = "EXECUTE" /\ ~Waiting(p)
  /\ IF reply[p].kind \in {"APPLIED", "REPLAYED"}
     THEN FinalizeConfirmation(c) ELSE ReleaseConfirmation(c)
  /\ EndRequest(p)
  /\ UNCHANGED <<log, reply, rec>>

(* The server stops, or cannot reach the observations; the command itself    *)
(* may still be applied.                                                     *)
StopRequest(p) ==
  /\ ~NoRequest(p)
  /\ EndRequest(p)
  /\ UNCHANGED <<log, reply, review, rec>>

(* The command store at work, for these requests and any others. *)
ExecuteCommand(p) ==
  /\ AppendRequest(p) \/ Repeat(p) \/ Mismatch(p) \/ Conflict(p) \/ Refuse(p)
  /\ UNCHANGED <<review, confirm, rec>>

OtherCommand(p, r) ==
  /\ NoRequest(p) /\ Ask(p, r)
  /\ UNCHANGED <<review, confirm, rec>>

-----------------------------------------------------------------------------
ListConfirming(k) ==
  /\ rec[k] = NoClaims
  /\ \E c \in Claims : Confirming(c)
  /\ rec' = [rec EXCEPT ![k].items = {c \in Claims : Confirming(c)}]
  /\ UNCHANGED <<log, reply, review, confirm>>

(* Fault: a claim without a receipt is left to its request. *)
LoadReceiptOnly(k, c) ==
  /\ c \in rec[k].items /\ rec[k].write = "NONE"
  /\ Receipt(c)
  /\ rec' = [rec EXCEPT ![k].next = {c}, ![k].write = "FINALIZE"]
  /\ UNCHANGED <<log, reply, review, confirm>>

(* The receipt decides how a claim ends; without one it must be stale. *)
LoadReceipt(k, c) ==
  /\ c \in rec[k].items /\ rec[k].write = "NONE"
  /\ rec' = [rec EXCEPT ![k].next = {c}, ![k].write = IF Receipt(c) THEN "FINALIZE" ELSE "RELEASE"]
  /\ UNCHANGED <<log, reply, review, confirm>>

(* The claim is young, or its receipt cannot be read. *)
SkipClaim(k, c) ==
  /\ c \in rec[k].items /\ rec[k].write = "NONE"
  /\ rec' = [rec EXCEPT ![k].items = @ \ {c}]
  /\ UNCHANGED <<log, reply, review, confirm>>

EndClaim(k) ==
  /\ rec[k].write # "NONE"
  /\ \E c \in rec[k].next :
       IF rec[k].write = "FINALIZE" THEN FinalizeConfirmation(c) ELSE ReleaseConfirmation(c)
  /\ rec' = [rec EXCEPT ![k] = [NoClaims EXCEPT !.items = rec[k].items \ rec[k].next]]
  /\ UNCHANGED <<log, reply, confirm>>

(* The server stops, or the observation cannot be written. *)
StopReconciler(k) ==
  /\ rec[k] # NoClaims
  /\ rec' = [rec EXCEPT ![k] = NoClaims]
  /\ UNCHANGED <<log, reply, review, confirm>>

-----------------------------------------------------------------------------
ReviewInit ==
  /\ LogInit
  /\ review = [o \in Observations |-> Review("ABSENT", NoId)]
  /\ confirm = [p \in Callers |-> NoConfirmation]
  /\ rec = [k \in Reconcilers |-> NoClaims]

Confirms(p) == ClaimConfirmation(p) \/ ClaimUnavailable(p) \/ Finish(p)

ReviewNext ==
  \/ \E o \in Observations : Save(o) \/ Reject(o)
  \/ \E p \in Callers :
       \/ \E r \in Requests : OtherCommand(p, r) \/ \E o \in Observations : ReadObservation(p, o, r)
       \/ Confirms(p) \/ ExecuteCommand(p) \/ StopRequest(p)
  \/ \E k \in Reconcilers :
       \/ ListConfirming(k) \/ EndClaim(k) \/ StopReconciler(k)
       \/ \E c \in Claims : LoadReceipt(k, c) \/ SkipClaim(k, c)

ReviewSpec == ReviewInit /\ [][ReviewNext]_reviewVars

(***************************************************************************)
(* The reconcilers run on a ticker.  A claim that they list again and      *)
(* again is not always young or unreadable, and their servers and the      *)
(* database do not fail before every write.  Nothing else must happen: a   *)
(* request may never finish, nor be made again.                            *)
(***************************************************************************)
FairReview ==
  /\ ReviewSpec
  /\ \A k \in Reconcilers :
       /\ WF_reviewVars(ListConfirming(k)) /\ SF_reviewVars(EndClaim(k))
       /\ \A c \in Claims : SF_reviewVars(LoadReceipt(k, c))

-----------------------------------------------------------------------------
(* Properties *)

(* A result is confirmed only by a command that was applied for it, however  *)
(* requests are retried, released, taken over by others or finished by the   *)
(* reconciler (LoadConfirmationReceipt: "a command ID alone cannot prove     *)
(* that external evidence belongs to the same piece and winner").            *)
ConfirmedByCommand ==
  \A o \in Observations :
    review[o].status = "CONFIRMED" => \E k \in Places(review[o].id) : log[k].body = Says[o]

(* A verdict is final. *)
VerdictsStand ==
  [][\A o \in Observations :
       review[o].status \in {"CONFIRMED", "REJECTED"} => review'[o] = review[o]]_reviewVars

(* No observation stays claimed for ever, though the server that claimed it  *)
(* stopped (RunOnce).                                                        *)
ClaimsEnd == \A o \in Observations : review[o].status = "CONFIRMING" ~> review[o].status # "CONFIRMING"
=============================================================================
