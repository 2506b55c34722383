----------------------------- MODULE IrcDelivery -----------------------------
(***************************************************************************)
(* The delivery of the queued IRC jobs to Bancho.  Each server runs one    *)
(* worker with its own connection.  A worker takes the earliest unsettled  *)
(* job of a channel, under a lock of the channel; checks that the room     *)
(* still uses the channel; marks the job as sent and only then sends it;   *)
(* and the reader of the connection settles it when Bancho answers.  Locks *)
(* and leases run out whether or not their holder has finished, and a      *)
(* server may stop, lose its connection or fail to reach the database      *)
(* between any two steps.                                                  *)
(*                                                                         *)
(* Times are left out: a lease, a delay or a deadline may run out at any   *)
(* moment.  So is the gate by which the servers keep one delivery of a     *)
(* channel in flight: it makes a send fail, which it may do in any case.   *)
(***************************************************************************)
EXTENDS IrcPublisher

CONSTANTS
  Workers,
  Tokens,      \* what identifies one claim of a job
  MaxAttempts  \* maxAutomaticAttempts: failures until a job is parked

ASSUME DeliveryAssumption == MaxAttempts \in Nat \ {0} /\ NoToken \notin Tokens

VARIABLES
  lock,     \* the token that locks each channel: a set of one or none
  worker,   \* what each worker is doing
  pending,  \* the deliveries each connection waits for: jobs with a token
  sent      \* the jobs Bancho was sent

workVars == <<lock, worker, pending, sent>>
deliveryVars == <<publisherVars, workVars>>

Unsettled(j) == job[j].status \in {"PENDING", "FAILED", "SENDING", "SENT"}
Settled(j) == job[j].status \in {"ACKNOWLEDGED", "CANCELLED"}
Parked(j) == job[j].status = "FAILED" /\ ~job[j].automatic

(* Fault: a failed job does not hold back those behind it. *)
IsEarliestInFlight(j) ==
  /\ Unsettled(j)
  /\ \A i \in Jobs : Before(i, j) /\ job[i].channel = job[j].channel =>
       job[i].status \notin {"PENDING", "SENDING", "SENT"}

IsEarliest(j) ==
  /\ Unsettled(j)
  /\ \A i \in Jobs : Before(i, j) /\ job[i].channel = job[j].channel => ~Unsettled(i)

Resting == [step |-> "IDLE", job |-> <<0, 0>>, token |-> NoToken, status |-> "NONE", attempts |-> 0]

At(w, step) == worker[w].step = step
ChannelOf(w) == job[worker[w].job].channel
Delivery(w) == <<worker[w].job, worker[w].token>>

(* The job is still under the claim that a token stands for. *)
ClaimedBy(j, t) == job[j].status \in {"SENDING", "SENT"} /\ job[j].token = t

UsedTokens ==
  {job[j].token : j \in Jobs} \cup {worker[w].token : w \in Workers}
    \cup {d[2] : d \in UNION {pending[w] : w \in Workers}} \cup UNION {lock[c] : c \in Channels}

(* One more attempt; past the limit they are not told apart. *)
OneMore(n) == IF n < MaxAttempts THEN n + 1 ELSE n

(* The writes with which a claim ends, and its lock with it. *)
Acknowledged(r) == [r EXCEPT !.status = "ACKNOWLEDGED", !.token = NoToken]
Rejected(r) == [r EXCEPT !.status = "FAILED", !.automatic = FALSE,
                         !.token = NoToken, !.attempts = OneMore(@)]
Failed(r) == [Rejected(r) EXCEPT !.automatic = TRUE]
Cancelled(r) == [r EXCEPT !.status = "CANCELLED", !.token = NoToken]

Unlock(c, t) == lock' = [lock EXCEPT ![c] = @ \ {t}]
Forget(w, j) == pending' = [pending EXCEPT ![w] = {d \in @ : d[1] # j}]
Rest(w) == worker' = [worker EXCEPT ![w] = Resting]
Step(w, step) == worker' = [worker EXCEPT ![w].step = step]

-----------------------------------------------------------------------------
(* Fault: a job whose worker stopped is not taken up again. *)
FindUnclaimed(w) ==
  /\ At(w, "IDLE")
  /\ \E j \in Jobs :
       /\ IsEarliest(j) /\ ~Parked(j) /\ job[j].status # "SENDING"
       /\ worker' = [worker EXCEPT ![w] = [Resting EXCEPT !.step = "LOCK", !.job = j]]
  /\ UNCHANGED <<publisherVars, lock, pending, sent>>

(* Claim: the earliest job of a channel, once its delay, lease or deadline is over. *)
FindCandidate(w) ==
  /\ At(w, "IDLE")
  /\ \E j \in Jobs :
       /\ IsEarliest(j) /\ ~Parked(j)
       /\ worker' = [worker EXCEPT ![w] = [Resting EXCEPT !.step = "LOCK", !.job = j]]
  /\ UNCHANGED <<publisherVars, lock, pending, sent>>

(* Claim: the lock of its channel, unless another claim holds it. *)
LockChannel(w) ==
  LET c == ChannelOf(w) IN
  /\ At(w, "LOCK")
  /\ \/ /\ lock[c] = {}
        /\ \E t \in Tokens \ UsedTokens :
             /\ lock' = [lock EXCEPT ![c] = {t}]
             /\ worker' = [worker EXCEPT ![w].step = "REREAD", ![w].token = t]
     \/ /\ lock[c] # {}
        /\ Rest(w) /\ UNCHANGED lock
  /\ UNCHANGED <<publisherVars, pending, sent>>

(* Claim: under the lock the job must still be the earliest. *)
Reread(w) ==
  LET j == worker[w].job IN
  /\ At(w, "REREAD")
  /\ \/ /\ IsEarliest(j)
        /\ worker' = [worker EXCEPT ![w].step = "CLAIM", ![w].status = job[j].status,
                                    ![w].attempts = job[j].attempts]
        /\ UNCHANGED lock
     \/ /\ ~IsEarliest(j)
        /\ Rest(w) /\ Unlock(ChannelOf(w), worker[w].token)
  /\ UNCHANGED <<publisherVars, pending, sent>>

(* Fault: the job is taken whatever became of it. *)
ClaimUnchecked(w) ==
  LET j == worker[w].job IN
  /\ At(w, "CLAIM")
  /\ job' = [job EXCEPT ![j].status = "SENDING", ![j].token = worker[w].token]
  /\ Step(w, "VALIDATE")
  /\ UNCHANGED <<event, link, pub, lock, pending, sent>>

(* Claim: the job is taken if its status is still the one that was read. *)
ClaimJob(w) ==
  LET j == worker[w].job  t == worker[w].token IN
  /\ At(w, "CLAIM")
  /\ \/ /\ job[j].status = worker[w].status
        /\ job' = [job EXCEPT ![j].status = "SENDING", ![j].token = t]
        /\ Step(w, "VALIDATE") /\ UNCHANGED lock
     \/ /\ job[j].status # worker[w].status
        /\ Rest(w) /\ Unlock(ChannelOf(w), t) /\ UNCHANGED job
  /\ UNCHANGED <<event, link, pub, pending, sent>>

(***************************************************************************)
(* The room must still use the job's channel.  A job that was sent before  *)
(* has waited in vain for its answer.  The reads, and the wait for the     *)
(* rate limit, may fail.                                                   *)
(***************************************************************************)
Validate(w) ==
  LET j == worker[w].job IN
  /\ At(w, "VALIDATE")
  /\ \/ /\ link # job[j].channel
        /\ Step(w, "CANCEL") /\ UNCHANGED pending
     \/ /\ link = job[j].channel /\ worker[w].status # "SENT"
        /\ Step(w, "MARK") /\ UNCHANGED pending
     \/ /\ link = job[j].channel /\ worker[w].status = "SENT"
        /\ Step(w, "FAIL") /\ Forget(w, j)
     \/ Step(w, "FAIL") /\ UNCHANGED pending
  /\ UNCHANGED <<publisherVars, lock, sent>>

(* A job of a channel the room no longer uses ends here. *)
Cancel(w) ==
  LET j == worker[w].job  t == worker[w].token IN
  /\ At(w, "CANCEL")
  /\ IF ClaimedBy(j, t) /\ job[j].status = "SENDING"
     THEN job' = [job EXCEPT ![j] = Cancelled(@)] /\ Unlock(job[j].channel, t)
     ELSE UNCHANGED <<job, lock>>
  /\ Rest(w)
  /\ UNCHANGED <<event, link, pub, pending, sent>>

(* The job is marked before it is sent, if it is still this worker's. *)
MarkSent(w) ==
  LET j == worker[w].job IN
  /\ At(w, "MARK")
  /\ \/ /\ ClaimedBy(j, worker[w].token) /\ job[j].status = "SENDING"
        /\ job' = [job EXCEPT ![j].status = "SENT"]
        /\ Step(w, "SEND")
     \/ Step(w, "FAIL") /\ UNCHANGED job
  /\ UNCHANGED <<event, link, pub, lock, pending, sent>>

(* The connection waits for no other job of the channel. *)
MaySend(w) ==
  \A d \in pending[w] : job[d[1]].channel = ChannelOf(w) => d[1] = worker[w].job

(* The command is sent, and the connection waits for the answer. *)
Send(w) ==
  /\ At(w, "SEND") /\ MaySend(w)
  /\ pending' = [pending EXCEPT ![w] = {d \in @ : d[1] # worker[w].job} \cup {Delivery(w)}]
  /\ sent' = sent \cup {worker[w].job}
  /\ Rest(w)
  /\ UNCHANGED <<publisherVars, lock>>

(* The channel is busy, or a write fails: what was sent of it is not known.  *)
(* CancelDelivery forgets the job.                                           *)
SendError(w) ==
  /\ At(w, "SEND")
  /\ sent' = sent \/ (MaySend(w) /\ sent' = sent \cup {worker[w].job})
  /\ Forget(w, worker[w].job)
  /\ Step(w, "FAIL")
  /\ UNCHANGED <<publisherVars, lock>>

(* fail: another try after a delay, or at the limit the job is parked. *)
Fail(w) ==
  LET j == worker[w].job  t == worker[w].token IN
  /\ At(w, "FAIL")
  /\ IF ClaimedBy(j, t)
     THEN /\ job' = [job EXCEPT ![j] =
                       IF worker[w].attempts + 1 >= MaxAttempts THEN Rejected(@) ELSE Failed(@)]
          /\ Unlock(job[j].channel, t)
     ELSE UNCHANGED <<job, lock>>
  /\ Rest(w)
  /\ UNCHANGED <<event, link, pub, pending, sent>>

(***************************************************************************)
(* Bancho answers a delivery of the connection.  The answer is lost when   *)
(* the job has moved on, or the database fails.                            *)
(***************************************************************************)
HandleReceipt(w, d, answer) ==
  LET c == job[d[1]].channel IN
  /\ d \in pending[w]
  /\ pending' = [pending EXCEPT ![w] = @ \ {d}]
  /\ IF ClaimedBy(d[1], d[2]) /\ answer # "LOST"
     THEN /\ job' = [job EXCEPT ![d[1]] = IF answer = "OK" THEN Acknowledged(@) ELSE Rejected(@)]
          /\ Unlock(c, d[2])
     ELSE UNCHANGED <<job, lock>>
  /\ UNCHANGED <<event, link, pub, worker, sent>>

(* The connection breaks, or the server stops. *)
Disconnect(w) ==
  /\ pending[w] # {}
  /\ pending' = [pending EXCEPT ![w] = {}]
  /\ UNCHANGED <<publisherVars, lock, worker, sent>>

(* A database error ends the round of a worker, or the server stops. *)
Abandon(w) ==
  /\ ~At(w, "IDLE")
  /\ Rest(w)
  /\ UNCHANGED <<publisherVars, lock, pending, sent>>

LockLapses(c) ==
  /\ lock[c] # {}
  /\ lock' = [lock EXCEPT ![c] = {}]
  /\ UNCHANGED <<publisherVars, worker, pending, sent>>

(* A referee retries a failed job of the room's current channel. *)
Retry(j) ==
  /\ job[j].status = "FAILED" /\ job[j].channel = link
  /\ job' = [job EXCEPT ![j].status = "PENDING", ![j].automatic = TRUE]
  /\ UNCHANGED <<event, link, pub, workVars>>

-----------------------------------------------------------------------------
WorkersInit ==
  /\ lock = [c \in Channels |-> {}]
  /\ worker = [w \in Workers |-> Resting]
  /\ pending = [w \in Workers |-> {}]
  /\ sent = {}

DeliveryInit == PublisherInit /\ WorkersInit

Works(w) ==
  \/ FindCandidate(w) \/ LockChannel(w) \/ Reread(w) \/ ClaimJob(w)
  \/ Validate(w) \/ Cancel(w) \/ MarkSent(w) \/ Send(w) \/ SendError(w) \/ Fail(w)

Answers(w) ==
  \E d \in pending[w] : \E answer \in {"OK", "REJECTED", "LOST"} : HandleReceipt(w, d, answer)

DeliveryNext ==
  \/ PublisherNext /\ UNCHANGED workVars
  \/ \E w \in Workers : Works(w) \/ Answers(w) \/ Disconnect(w) \/ Abandon(w)
  \/ \E c \in Channels : LockLapses(c)
  \/ \E j \in Jobs : Retry(j)

DeliverySpec == DeliveryInit /\ [][DeliveryNext]_deliveryVars

(***************************************************************************)
(* Publishers and workers run on tickers of their own, and the leases of   *)
(* locks end.  Nothing else must happen: Bancho may never answer, and the  *)
(* referee may never retry.  The servers and the database are taken to     *)
(* fail finitely often: a publisher or worker that gives up does so, in    *)
(* the end, only where its own round ends so.                              *)
(***************************************************************************)
FairDelivery ==
  /\ DeliverySpec
  /\ \A p \in Publishers :
       /\ WF_deliveryVars(ListUnpublishedEvents(p) /\ UNCHANGED workVars)
       /\ WF_deliveryVars(Publishes(p) /\ UNCHANGED workVars)
  /\ \A w \in Workers : WF_deliveryVars(Works(w))
  /\ \A c \in Channels : WF_deliveryVars(LockLapses(c))
  /\ <>[][\A p \in Publishers : StopPublisher(p) => Publishes(p)]_deliveryVars
  /\ <>[][\A w \in Workers : Abandon(w) => Works(w)]_deliveryVars

-----------------------------------------------------------------------------
(* Properties *)

JobRecords ==
  [status : {"NONE", "PENDING", "SENDING", "SENT", "FAILED", "ACKNOWLEDGED", "CANCELLED"},
   channel : Channels \cup {NoChannel}, attempts : 0..MaxAttempts,
   automatic : BOOLEAN, token : Tokens \cup {NoToken}]

WorkerStates ==
  [step : {"IDLE", "LOCK", "REREAD", "CLAIM", "VALIDATE", "CANCEL", "MARK", "SEND", "FAIL"},
   job : {<<0, 0>>} \cup Jobs, token : Tokens \cup {NoToken},
   status : {"NONE", "PENDING", "SENDING", "SENT", "FAILED"}, attempts : 0..MaxAttempts]

(* Types; a job carries the token of a claim just as long as it is claimed.  *)
DeliveryTypeOK ==
  /\ PublisherTypeOK
  /\ job \in [Jobs -> JobRecords]
  /\ \A j \in Jobs : job[j].token \in Tokens <=> job[j].status \in {"SENDING", "SENT"}
  /\ lock \in [Channels -> SUBSET Tokens]
  /\ worker \in [Workers -> WorkerStates]
  /\ pending \in [Workers -> SUBSET (Jobs \X Tokens)]
  /\ sent \subseteq Jobs

(* A channel has one command under way at a time, however many workers claim *)
(* from it and however their locks and leases run out (Claim).               *)
OneOutstanding ==
  \A i, j \in Jobs :
    {job[i].status, job[j].status} \subseteq {"SENDING", "SENT"} /\ job[i].channel = job[j].channel
      => i = j

(* The queue keeps the order of the match: OrderedDelivery is what the       *)
(* comments of ListUnpublishedEvents and Claim promise.                      *)
Promise == INSTANCE OrderedDelivery WITH
  Order <- {ij \in Jobs \X Jobs : Before(ij[1], ij[2])},
  lane <- [j \in Jobs |-> job[j].channel],
  outcome <- [j \in Jobs |-> IF Settled(j) THEN job[j].status ELSE "OPEN"]

KeepsOrder == Promise!OrderedSpec

(* Someone must be called: an event failed, or a job is parked. *)
NeedsReferee == (\E e \in Events : event[e] = "FAILED") \/ (\E j \in Jobs : Parked(j))

(* Every committed event gets its commands to Bancho, or the match is shown  *)
(* to need a referee; no lock, lease or lost answer holds it back for ever.  *)
EventsAreDelivered ==
  \A e \in Events :
    event[e] # "ABSENT" ~>
      NeedsReferee \/ (event[e] = "PUBLISHED" /\ \A j \in Jobs : j[1] = e => Settled(j))
=============================================================================
