-------------------------------- MODULE MCIrc --------------------------------
(***************************************************************************)
(* From the outbox to Bancho.  In StagedSpec two publishers fill the queue *)
(* before two workers empty it; in the specification of IrcDelivery, which *)
(* is checked with one of each, they run side by side.                     *)
(***************************************************************************)
EXTENDS IrcDelivery, TLC

CONSTANTS p1, p2, w1, w2, c1, c2, t1, t2, t3

OneEach == <<1, 1>>
NoneThenTwo == <<0, 2>>

Queued ==
  /\ \A e \in Events : event[e] = "PUBLISHED"
  /\ \A p \in Publishers : pub[p].step = "IDLE"

(* A worker that has taken up no job has nothing else to do. *)
StagedNext ==
  \/ PublisherNext /\ UNCHANGED workVars
  \/ \E w \in Workers :
       \/ Queued /\ FindCandidate(w)
       \/ LockChannel(w) \/ Reread(w) \/ ClaimJob(w) \/ Validate(w) \/ Cancel(w)
       \/ MarkSent(w) \/ Send(w) \/ SendError(w) \/ Fail(w)
       \/ Answers(w) \/ Disconnect(w) \/ Abandon(w)
  \/ \E c \in Channels : LockLapses(c)
  \/ \E j \in Jobs : Retry(j)

StagedSpec == DeliveryInit /\ [][StagedNext]_deliveryVars

Alike == Permutations(Publishers) \cup Permutations(Workers) \cup Permutations(Tokens)
=============================================================================
