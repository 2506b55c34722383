-------------------------- MODULE IrcDeliveryProofs --------------------------
(***************************************************************************)
(* For any match, any number of publishers and workers, and any lapse of   *)
(* leases: commands are enqueued in the order of the match and delivered   *)
(* in the order in which they were enqueued.                               *)
(*                                                                         *)
(* The order of the queue rests on what a publisher knows at each step     *)
(* (PublisherOK), the order of delivery on EarlierSettled: once a job was  *)
(* taken up, all the jobs before it on its channel have ended for good.    *)
(* The lock of the channel takes no part in this; it only spares work.     *)
(***************************************************************************)
EXTENDS IrcDelivery, TLAPS

(* What a publisher has made sure of before its next step. *)
PublisherOK(p) ==
  LET e == pub[p].event IN
  pub[p].step # "IDLE" =>
    /\ e \in Events /\ event[e] # "ABSENT"
    /\ \A earlier \in 1..(e - 1) : event[earlier] = "PUBLISHED"
    /\ pub[p].step = "ENQUEUE" =>
         /\ pub[p].channel \in Channels /\ pub[p].place \in 1..JobCount[e]
         /\ \A k \in 1..(pub[p].place - 1) :
              Exists(<<e, k>>) /\ job[<<e, k>>].channel = pub[p].channel
    /\ pub[p].step = "PUBLISH" => \A k \in 1..JobCount[e] : Exists(<<e, k>>)

QueueInv ==
  /\ PublisherTypeOK
  /\ PublishedInOrder
  /\ OneChannelPerEvent
  /\ \A p \in Publishers : PublisherOK(p)

(* Jobs are not lost, moved or reopened. *)
JobsKept ==
  /\ job' = [j \in Jobs |-> job'[j]]
  /\ \A j \in Jobs :
       /\ Exists(j)' <=> Exists(j)
       /\ job'[j].channel = job[j].channel
       /\ ~Exists(j) => job'[j] = job[j]

-----------------------------------------------------------------------------
(* A job is the number of an event and a place among its jobs. *)
LEMMA JobShape ==
  ASSUME NEW j \in Jobs
  PROVE  /\ j = <<j[1], j[2]>> /\ j[1] \in Events /\ j[2] \in 1..JobCount[j[1]]
         /\ j[1] \in Nat /\ j[2] \in Nat /\ j[1] >= 1
BY PublisherAssumption DEF Jobs, Events

LEMMA JobMember ==
  ASSUME NEW e \in Events, NEW k \in 1..JobCount[e]
  PROVE  <<e, k>> \in Jobs /\ <<e, k>>[1] = e /\ <<e, k>>[2] = k
BY DEF Jobs

(* The queue begins empty. *)
LEMMA QueueStarts == PublisherInit => QueueInv
<1> SUFFICES ASSUME PublisherInit PROVE QueueInv
  OBVIOUS
<1>1. \A j \in Jobs : job[j] = NoJob /\ ~Exists(j)
  BY DEF PublisherInit, Exists, NoJob, Untried
<1>2. \A p \in Publishers : pub[p] = Idle /\ pub[p].step = "IDLE"
  BY DEF PublisherInit, Idle
<1>3. PublisherTypeOK
  BY <1>1 DEF PublisherTypeOK, PublisherStates, PublisherInit, Idle, Events
<1>4. PublishedInOrder
  <2>1. \A j \in Jobs : event[j[1]] # "PUBLISHED"
    BY JobShape DEF PublisherInit
  <2> QED
    BY <1>1, <2>1 DEF PublishedInOrder
<1> QED
  BY <1>1, <1>2, <1>3, <1>4 DEF QueueInv, OneChannelPerEvent, PublisherOK

(* A step that keeps the jobs and the publishers' part keeps the queue right. *)
LEMMA QueueKept ==
  ASSUME QueueInv, JobsKept, UNCHANGED <<event, link, pub>>
  PROVE  QueueInv'
<1>1. PublisherTypeOK'
  BY DEF QueueInv, PublisherTypeOK, JobsKept
<1>2. PublishedInOrder'
  BY DEF QueueInv, PublishedInOrder, JobsKept, Exists
<1>3. OneChannelPerEvent'
  BY DEF QueueInv, OneChannelPerEvent, JobsKept
<1>4. ASSUME NEW p \in Publishers PROVE PublisherOK(p)'
  <2> DEFINE e == pub[p].event
  <2>1. PublisherOK(p)
    BY DEF QueueInv
  <2>2. CASE pub[p].step = "IDLE"
    BY <2>2 DEF PublisherOK
  <2>3. CASE pub[p].step # "IDLE"
    <3>1. e \in Events /\ PublisherTypeOK
      BY <2>1, <2>3 DEF PublisherOK, QueueInv
    <3>2. \A k \in 1..JobCount[e] : <<e, k>> \in Jobs
      BY <3>1, JobMember
    <3>3. \A k \in 1..JobCount[e] :
            /\ Exists(<<e, k>>)' <=> Exists(<<e, k>>)
            /\ job'[<<e, k>>].channel = job[<<e, k>>].channel
      BY <3>2 DEF JobsKept
    <3>4. pub[p].place \in Nat /\ JobCount[e] \in Nat
      BY <3>1, PublisherAssumption DEF PublisherTypeOK, PublisherStates
    <3> QED
      BY <2>1, <2>3, <3>1, <3>3, <3>4 DEF PublisherOK
  <2> QED
    BY <2>2, <2>3
<1> QED
  BY <1>1, <1>2, <1>3, <1>4 DEF QueueInv

-----------------------------------------------------------------------------
(* What is known of the jobs of an event whose earlier events are published. *)
LEMMA NoLaterJob ==
  ASSUME QueueInv, NEW j \in Jobs, NEW i \in Jobs, ~Exists(j), Before(j, i)
  PROVE  ~Exists(i)
BY DEF QueueInv, PublishedInOrder

(* The steps of publishers and of the outbox that leave the jobs alone. *)
LEMMA EventStep ==
  ASSUME QueueInv, UNCHANGED job, link' \in Channels \cup {NoChannel},
         event' \in [Events -> {"ABSENT", "PENDING", "PUBLISHED", "FAILED"}],
         \A e \in Events : /\ event[e] = "PUBLISHED" => event'[e] = "PUBLISHED"
                           /\ event[e] # "ABSENT" => event'[e] # "ABSENT",
         \A e \in Events : event'[e] = "PUBLISHED" /\ event[e] # "PUBLISHED" =>
                             \A k \in 1..JobCount[e] : Exists(<<e, k>>),
         pub' \in [Publishers -> PublisherStates],
         \A p \in Publishers : pub'[p] = pub[p] \/ PublisherOK(p)'
  PROVE  QueueInv'
<1>1. PublisherTypeOK'
  BY DEF QueueInv, PublisherTypeOK, Exists
<1>2. PublishedInOrder'
  <2>1. \A j \in Jobs : event'[j[1]] = "PUBLISHED" => Exists(j)'
    BY JobShape DEF QueueInv, PublishedInOrder, Exists
  <2>2. \A j \in Jobs : \A e \in 1..(j[1] - 1) : e \in Events
    BY JobShape, PublisherAssumption DEF Events
  <2>3. \A j \in Jobs : Exists(j)' => \A e \in 1..(j[1] - 1) : event'[e] = "PUBLISHED"
    BY <2>2 DEF QueueInv, PublishedInOrder, Exists
  <2>4. \A j \in Jobs : Exists(j)' => \A i \in Jobs : Before(i, j) => Exists(i)'
    BY DEF QueueInv, PublishedInOrder, Exists
  <2> QED
    BY <2>1, <2>3, <2>4 DEF PublishedInOrder
<1>3. OneChannelPerEvent'
  BY DEF QueueInv, OneChannelPerEvent, Exists
<1>4. ASSUME NEW p \in Publishers PROVE PublisherOK(p)'
  <2>1. PublisherOK(p)
    BY DEF QueueInv
  <2>2. CASE pub'[p] = pub[p]
    <3>1. CASE pub[p].step = "IDLE"
      BY <2>2, <3>1 DEF PublisherOK
    <3>2. CASE pub[p].step # "IDLE"
      <4> DEFINE e == pub[p].event
      <4>1. e \in Events /\ event[e] # "ABSENT" /\ \A n \in 1..(e - 1) : event[n] = "PUBLISHED"
        BY <2>1, <3>2 DEF PublisherOK
      <4>2. \A n \in 1..(e - 1) : n \in Events
        BY <4>1, PublisherAssumption DEF Events
      <4>3. event'[e] # "ABSENT" /\ \A n \in 1..(e - 1) : event'[n] = "PUBLISHED"
        BY <4>1, <4>2
      <4> QED
        BY <2>1, <2>2, <3>2, <4>1, <4>3 DEF PublisherOK, Exists
    <3> QED
      BY <3>1, <3>2
  <2>3. CASE PublisherOK(p)'
    BY <2>3
  <2> QED
    BY <2>2, <2>3
<1> QED
  BY <1>1, <1>2, <1>3, <1>4 DEF QueueInv

LEMMA NewJobFields ==
  ASSUME NEW c
  PROVE  NewJob(c) = [status |-> "PENDING", channel |-> c, attempts |-> 0,
                      automatic |-> TRUE, token |-> NoToken]
BY DEF NewJob, Untried

(* A job is inserted in its place, and the publisher goes on. *)
LEMMA InsertStep ==
  ASSUME QueueInv, NEW p \in Publishers, pub[p].step = "ENQUEUE",
         ~Exists(NextJob(p)), job' = [job EXCEPT ![NextJob(p)] = NewJob(pub[p].channel)]
  PROVE  /\ NextJob(p) \in Jobs /\ NextJob(p)[1] = pub[p].event /\ NextJob(p)[2] = pub[p].place
         /\ job' = [j \in Jobs |-> job'[j]]
         /\ \A j \in Jobs : Exists(j)' <=> Exists(j) \/ j = NextJob(p)
         /\ \A j \in Jobs : IF Exists(j)' THEN job'[j].channel \in Channels ELSE job'[j] = NoJob
         /\ \A j \in Jobs : Exists(j) => job'[j] = job[j]
         /\ job'[NextJob(p)].channel = pub[p].channel
         /\ PublishedInOrder' \/ event' # event
         /\ OneChannelPerEvent'
<1> DEFINE n == NextJob(p)
           e == pub[p].event
<1>1. /\ e \in Events /\ pub[p].channel \in Channels /\ pub[p].place \in 1..JobCount[e]
      /\ \A earlier \in 1..(e - 1) : event[earlier] = "PUBLISHED"
      /\ \A k \in 1..(pub[p].place - 1) : Exists(<<e, k>>) /\ job[<<e, k>>].channel = pub[p].channel
  BY DEF QueueInv, PublisherOK
<1>2. n \in Jobs /\ n[1] = e /\ n[2] = pub[p].place
  BY <1>1, JobMember DEF NextJob
<1>3. job = [j \in Jobs |-> job[j]] /\ PublisherTypeOK
  BY DEF QueueInv, PublisherTypeOK
<1>4. job' = [j \in Jobs |-> job'[j]] /\ job'[n] = NewJob(pub[p].channel) /\ \A j \in Jobs : j # n => job'[j] = job[j]
  BY <1>2, <1>3
<1>5. job'[n].status = "PENDING" /\ job'[n].channel = pub[p].channel
  BY <1>4, NewJobFields
<1>6. \A j \in Jobs : Exists(j)' <=> Exists(j) \/ j = n
  BY <1>4, <1>5 DEF Exists
<1>7. \A j \in Jobs : IF Exists(j)' THEN job'[j].channel \in Channels ELSE job'[j] = NoJob
  BY <1>1, <1>3, <1>4, <1>5, <1>6 DEF PublisherTypeOK
<1>8. \A j \in Jobs : Exists(j) => job'[j] = job[j]
  BY <1>4
<1>9. ASSUME event' = event PROVE PublishedInOrder'
  <2>1. \A j \in Jobs : event'[j[1]] = "PUBLISHED" => Exists(j)'
    BY <1>6, <1>9 DEF QueueInv, PublishedInOrder
  <2>2. \A j \in Jobs : Exists(j)' => \A m \in 1..(j[1] - 1) : event'[m] = "PUBLISHED"
    BY <1>1, <1>2, <1>6, <1>9 DEF QueueInv, PublishedInOrder
  <2>3. ASSUME NEW i \in Jobs, Before(i, n) PROVE Exists(i)
    <3>1. CASE i[1] < e
      <4>1. i[1] \in 1..(e - 1)
        BY <3>1, <1>1, JobShape, PublisherAssumption DEF Events
      <4> QED
        BY <4>1, <1>1 DEF QueueInv, PublishedInOrder
    <3>2. CASE i[1] = e /\ i[2] < pub[p].place
      <4>1. i[2] \in 1..(pub[p].place - 1)
        BY <3>2, <1>1, JobShape, PublisherAssumption
      <4>2. i = <<e, i[2]>>
        BY <3>2, JobShape
      <4> QED
        BY <4>1, <4>2, <1>1
    <3> QED
      BY <2>3, <3>1, <3>2, <1>2 DEF Before
  <2>4. \A j \in Jobs : Exists(j)' => \A i \in Jobs : Before(i, j) => Exists(i)'
    BY <1>6, <2>3 DEF QueueInv, PublishedInOrder
  <2> QED
    BY <2>1, <2>2, <2>4 DEF PublishedInOrder
<1>10. OneChannelPerEvent'
  <2>1. ASSUME NEW i \in Jobs, Exists(i), i[1] = e PROVE job[i].channel = pub[p].channel
    <3>1. i = <<e, i[2]>> /\ i[2] \in 1..JobCount[e]
      BY <2>1, JobShape
    <3>2. i # n
      BY <2>1
    <3>3. ~Before(n, i)
      BY <2>1, <1>2, NoLaterJob
    <3>4. i[2] \in 1..(pub[p].place - 1)
      BY <3>1, <3>2, <3>3, <1>1, <1>2, <2>1, PublisherAssumption DEF Before, NextJob
    <3> QED
      BY <3>1, <3>4, <1>1
  <2>2. \A j \in Jobs : j[1] = e /\ Exists(j)' => job'[j].channel = pub[p].channel
    BY <2>1, <1>4, <1>5, <1>6
  <2>3. \A i, j \in Jobs : i[1] = j[1] /\ i[1] # e /\ Exists(i)' /\ Exists(j)' =>
          job'[i].channel = job'[j].channel
    BY <1>2, <1>6, <1>8 DEF QueueInv, OneChannelPerEvent
  <2> QED
    BY <2>2, <2>3 DEF OneChannelPerEvent
<1> QED
  BY <1>1, <1>2, <1>4, <1>5, <1>6, <1>7, <1>8, <1>9, <1>10

(* What a publisher has made sure of stays so while jobs are added. *)
LEMMA OthersKept ==
  ASSUME QueueInv, UNCHANGED event, NEW q \in Publishers, pub'[q] = pub[q],
         \A j \in Jobs : Exists(j) => Exists(j)' /\ job'[j].channel = job[j].channel
  PROVE  PublisherOK(q)'
<1> DEFINE e == pub[q].event
<1>1. PublisherOK(q)
  BY DEF QueueInv
<1>2. CASE pub[q].step = "IDLE"
  BY <1>2 DEF PublisherOK
<1>3. CASE pub[q].step # "IDLE"
  <2>1. e \in Events
    BY <1>1, <1>3 DEF PublisherOK
  <2>2. \A k \in 1..JobCount[e] : <<e, k>> \in Jobs
    BY <2>1, JobMember
  <2>3. JobCount[e] \in Nat /\ pub[q].place \in Nat
    BY <2>1, PublisherAssumption DEF QueueInv, PublisherTypeOK, PublisherStates
  <2> QED
    BY <1>1, <1>3, <2>1, <2>2, <2>3 DEF PublisherOK
<1> QED
  BY <1>2, <1>3

(* Enqueue, whether it inserts the job or finds it. *)
LEMMA EnqueueQueue ==
  ASSUME QueueInv, NEW p \in Publishers, Enqueue(p)
  PROVE  QueueInv'
<1> DEFINE n == NextJob(p)
           e == pub[p].event
<1>1. /\ e \in Events /\ event[e] # "ABSENT" /\ pub[p].place \in 1..JobCount[e]
      /\ pub[p].channel \in Channels
      /\ \A earlier \in 1..(e - 1) : event[earlier] = "PUBLISHED"
      /\ \A k \in 1..(pub[p].place - 1) : Exists(<<e, k>>) /\ job[<<e, k>>].channel = pub[p].channel
  BY DEF QueueInv, PublisherOK, Enqueue
<1>2. n \in Jobs /\ n[1] = e /\ n[2] = pub[p].place /\ n = <<e, pub[p].place>>
  BY <1>1, JobMember DEF NextJob
<1>3. PublisherTypeOK /\ JobCount[e] \in Nat /\ pub[p].place \in Nat
  BY <1>1, PublisherAssumption DEF QueueInv, PublisherTypeOK, PublisherStates
<1>4. /\ pub' \in [Publishers -> PublisherStates]
      /\ pub'[p].event = e /\ pub'[p].channel = pub[p].channel /\ pub'[p].place = pub[p].place + 1
      /\ pub'[p].step = IF pub[p].place = JobCount[e] THEN "PUBLISH" ELSE "ENQUEUE"
      /\ \A q \in Publishers \ {p} : pub'[q] = pub[q]
  <2>1. pub' = [pub EXCEPT ![p].place = @ + 1,
                           ![p].step = IF pub[p].place = JobCount[e] THEN "PUBLISH" ELSE "ENQUEUE"]
    BY <1>2 DEF Enqueue
  <2>2. pub[p] \in PublisherStates
    BY <1>3 DEF PublisherTypeOK
  <2>3. pub'[p] = [pub[p] EXCEPT !.place = @ + 1,
                                 !.step = IF pub[p].place = JobCount[e] THEN "PUBLISH" ELSE "ENQUEUE"]
    BY <2>1, <1>3 DEF PublisherTypeOK, PublisherStates
  <2>4. /\ pub'[p].event = e /\ pub'[p].channel = pub[p].channel /\ pub'[p].place = pub[p].place + 1
        /\ pub'[p].step = IF pub[p].place = JobCount[e] THEN "PUBLISH" ELSE "ENQUEUE"
    BY <2>2, <2>3
  <2>5. pub'[p] \in PublisherStates
    <3>1. pub'[p] = [step |-> pub'[p].step, event |-> e, channel |-> pub[p].channel,
                     place |-> pub[p].place + 1]
      BY <2>2, <2>3 DEF PublisherStates
    <3>2. pub'[p].step \in {"IDLE", "PLAN", "ENQUEUE", "PUBLISH", "FAIL"} /\ pub[p].place + 1 \in Nat
      BY <2>4, <1>3
    <3> QED
      BY <3>1, <3>2, <2>2 DEF PublisherStates
  <2>6. \A q \in Publishers \ {p} : pub'[q] = pub[q]
    BY <2>1, <1>3 DEF PublisherTypeOK
  <2>7. pub' = [q \in Publishers |-> pub'[q]]
    BY <2>1, <1>3 DEF PublisherTypeOK, PublisherStates
  <2>8. \A q \in Publishers : pub'[q] \in PublisherStates
    BY <2>5, <2>6, <1>3 DEF PublisherTypeOK
  <2> QED
    BY <2>4, <2>6, <2>7, <2>8
<1>5. /\ job' = [j \in Jobs |-> job'[j]]
      /\ \A j \in Jobs : Exists(j)' <=> Exists(j) \/ j = n
      /\ \A j \in Jobs : IF Exists(j)' THEN job'[j].channel \in Channels ELSE job'[j] = NoJob
      /\ \A j \in Jobs : Exists(j) => job'[j] = job[j]
      /\ job'[n].channel = pub[p].channel
      /\ PublishedInOrder' /\ OneChannelPerEvent'
  <2>1. CASE Exists(n)
    <3>1. job' = job
      BY <2>1, <1>2, <1>3 DEF Enqueue, PublisherTypeOK, PublisherStates
    <3>2. event' = event /\ job[n].channel = pub[p].channel
      BY <2>1 DEF Enqueue
    <3> QED
      BY <2>1, <3>1, <3>2, <1>2, <1>3 DEF Exists, QueueInv, PublisherTypeOK, PublishedInOrder, OneChannelPerEvent
  <2>2. CASE ~Exists(n)
    <3>1. job' = [job EXCEPT ![n] = NewJob(pub[p].channel)] /\ event' = event
      BY <2>2 DEF Enqueue
    <3> QED
      BY <2>2, <3>1, InsertStep DEF Enqueue
  <2> QED
    BY <2>1, <2>2
<1>6. PublisherOK(p)'
  <2>1. \A k \in 1..pub[p].place :
          job'[<<e, k>>].status # "NONE" /\ job'[<<e, k>>].channel = pub[p].channel
    <3> TAKE k \in 1..pub[p].place
    <3>1. k \in 1..JobCount[e] /\ <<e, k>> \in Jobs
      BY <1>1, <1>3, JobMember
    <3>2. CASE k = pub[p].place
      BY <3>1, <3>2, <1>2, <1>5 DEF Exists
    <3>3. CASE k # pub[p].place
      BY <3>1, <3>3, <1>1, <1>3, <1>5 DEF Exists
    <3> QED
      BY <3>2, <3>3
  <2>2. event' = event
    BY DEF Enqueue
  <2> QED
    BY <1>1, <1>3, <1>4, <2>1, <2>2 DEF PublisherOK, Exists
<1>7. \A q \in Publishers : PublisherOK(q)'
  BY <1>4, <1>5, <1>6, OthersKept DEF Enqueue
<1>8. PublisherTypeOK'
  BY <1>3, <1>4, <1>5 DEF PublisherTypeOK, Enqueue
<1> QED
  BY <1>5, <1>7, <1>8 DEF QueueInv

(* The database fails after it inserted the job. *)
LEMMA EnqueueErrorQueue ==
  ASSUME QueueInv, NEW p \in Publishers, EnqueueError(p), job' # job
  PROVE  QueueInv'
<1>1. PublisherTypeOK /\ PublisherOK(p) /\ pub[p].step = "ENQUEUE"
  BY DEF QueueInv, EnqueueError
<1>2. ~Exists(NextJob(p)) /\ job' = [job EXCEPT ![NextJob(p)] = NewJob(pub[p].channel)]
  BY DEF EnqueueError
<1>3. /\ job' = [j \in Jobs |-> job'[j]]
      /\ \A j \in Jobs : Exists(j)' <=> Exists(j) \/ j = NextJob(p)
      /\ \A j \in Jobs : IF Exists(j)' THEN job'[j].channel \in Channels ELSE job'[j] = NoJob
      /\ \A j \in Jobs : Exists(j) => job'[j] = job[j]
      /\ PublishedInOrder' /\ OneChannelPerEvent'
  BY <1>1, <1>2, InsertStep DEF EnqueueError
<1>4. /\ pub' \in [Publishers -> PublisherStates]
      /\ pub'[p].event = pub[p].event /\ pub'[p].step = "FAIL"
      /\ \A q \in Publishers \ {p} : pub'[q] = pub[q]
      /\ event' = event /\ link' = link
  BY <1>1 DEF EnqueueError, PublisherTypeOK, PublisherStates
<1>5. PublisherOK(p)'
  BY <1>1, <1>4 DEF PublisherOK
<1>6. \A q \in Publishers : PublisherOK(q)'
  BY <1>3, <1>4, <1>5, OthersKept
<1>7. PublisherTypeOK'
  BY <1>1, <1>3, <1>4 DEF PublisherTypeOK
<1> QED
  BY <1>3, <1>6, <1>7 DEF QueueInv

(* Every step of the publishers keeps the queue in order. *)
LEMMA QueueStep ==
  ASSUME QueueInv, PublisherNext
  PROVE  QueueInv'
<1>1. PublisherTypeOK
  BY DEF QueueInv
<1>2. ASSUME NEW e \in Events, Commit(e) PROVE QueueInv'
  BY <1>1, <1>2, EventStep DEF Commit, PublisherTypeOK
<1>3. ASSUME NEW e \in Events, RetryFailedEvent(e) PROVE QueueInv'
  BY <1>1, <1>3, EventStep DEF RetryFailedEvent, PublisherTypeOK
<1>4. ASSUME NEW c \in Channels, SetMPLink(c) PROVE QueueInv'
  BY <1>1, <1>4, EventStep DEF SetMPLink, PublisherTypeOK
<1>5. ASSUME NEW p \in Publishers, ListUnpublishedEvents(p) PROVE QueueInv'
  <2>1. PICK e \in Events : /\ event[e] = "PENDING" /\ \A earlier \in 1..(e - 1) : event[earlier] = "PUBLISHED"
                            /\ pub' = [pub EXCEPT ![p] = [Idle EXCEPT !.step = "PLAN", !.event = e]]
    BY <1>5 DEF ListUnpublishedEvents
  <2>2. pub' \in [Publishers -> PublisherStates]
    BY <2>1, <1>1 DEF PublisherTypeOK, PublisherStates, Idle
  <2>3. pub'[p].step = "PLAN" /\ pub'[p].event = e /\ \A q \in Publishers \ {p} : pub'[q] = pub[q]
    BY <2>1, <1>1 DEF PublisherTypeOK, PublisherStates, Idle
  <2>4. UNCHANGED <<event, job, link>>
    BY <1>5 DEF ListUnpublishedEvents
  <2>5. PublisherOK(p)'
    BY <2>1, <2>3, <2>4 DEF PublisherOK
  <2> QED
    BY <1>1, <2>2, <2>3, <2>4, <2>5, EventStep DEF PublisherTypeOK
<1>6. ASSUME NEW p \in Publishers, Plan(p) PROVE QueueInv'
  <2>1. PublisherOK(p)
    BY DEF QueueInv
  <2>2. pub[p].event \in Events /\ JobCount[pub[p].event] \in Nat
    BY <1>6, <2>1, PublisherAssumption DEF Plan, PublisherOK
  <2>3. pub' \in [Publishers -> PublisherStates] /\ \A q \in Publishers \ {p} : pub'[q] = pub[q]
    BY <1>1, <1>6 DEF Plan, PublisherTypeOK, PublisherStates
  <2>4. PublisherOK(p)'
    BY <1>1, <1>6, <2>1, <2>2 DEF Plan, PublisherTypeOK, PublisherStates, PublisherOK
  <2>5. UNCHANGED <<event, job, link>>
    BY <1>6 DEF Plan
  <2> QED
    BY <1>1, <2>3, <2>4, <2>5, EventStep DEF PublisherTypeOK
<1>7. ASSUME NEW p \in Publishers, Enqueue(p) PROVE QueueInv'
  BY <1>7, EnqueueQueue
<1>8. ASSUME NEW p \in Publishers, EnqueueMismatch(p) \/ (EnqueueError(p) /\ job' = job) PROVE QueueInv'
  <2>1. PublisherOK(p) /\ pub[p].step = "ENQUEUE"
    BY <1>8 DEF QueueInv, EnqueueMismatch, EnqueueError
  <2>2. pub' = [pub EXCEPT ![p].step = "FAIL"] /\ UNCHANGED <<event, job, link>>
    BY <1>8 DEF EnqueueMismatch, EnqueueError
  <2>3. pub' \in [Publishers -> PublisherStates] /\ \A q \in Publishers \ {p} : pub'[q] = pub[q]
    BY <1>1, <2>2 DEF PublisherTypeOK, PublisherStates
  <2>4. PublisherOK(p)'
    BY <1>1, <2>1, <2>2 DEF PublisherTypeOK, PublisherStates, PublisherOK
  <2> QED
    BY <1>1, <2>2, <2>3, <2>4, EventStep DEF PublisherTypeOK
<1>9. ASSUME NEW p \in Publishers, EnqueueError(p), job' # job PROVE QueueInv'
  BY <1>9, EnqueueErrorQueue
<1>10. ASSUME NEW p \in Publishers, MarkEventPublished(p) \/ MarkEventFailed(p) \/ StopPublisher(p) PROVE QueueInv'
  <2> DEFINE e == pub[p].event
  <2>1. pub' = [pub EXCEPT ![p] = Idle] /\ UNCHANGED <<job, link>>
    BY <1>10 DEF MarkEventPublished, MarkEventFailed, StopPublisher
  <2>2. pub' \in [Publishers -> PublisherStates] /\ \A q \in Publishers \ {p} : pub'[q] = pub[q]
    BY <1>1, <2>1 DEF PublisherTypeOK, PublisherStates, Idle
  <2>3. PublisherOK(p)'
    BY <1>1, <2>1 DEF PublisherTypeOK, PublisherStates, PublisherOK, Idle
  <2>4. PublisherOK(p)
    BY DEF QueueInv
  <2>5. /\ event' \in [Events -> {"ABSENT", "PENDING", "PUBLISHED", "FAILED"}]
        /\ \A n \in Events : /\ event[n] = "PUBLISHED" => event'[n] = "PUBLISHED"
                             /\ event[n] # "ABSENT" => event'[n] # "ABSENT"
    BY <1>1, <1>10, <2>4 DEF MarkEventPublished, MarkEventFailed, StopPublisher, PublisherTypeOK, PublisherStates, PublisherOK
  <2>6. \A n \in Events : event'[n] = "PUBLISHED" /\ event[n] # "PUBLISHED" =>
          \A k \in 1..JobCount[n] : Exists(<<n, k>>)
    BY <1>1, <1>10, <2>4 DEF MarkEventPublished, MarkEventFailed, StopPublisher, PublisherTypeOK, PublisherStates, PublisherOK
  <2> QED
    BY <1>1, <2>1, <2>2, <2>3, <2>5, <2>6, EventStep DEF PublisherTypeOK
<1> QED
  BY <1>2, <1>3, <1>4, <1>5, <1>6, <1>7, <1>8, <1>9, <1>10 DEF PublisherNext, Publishes

(* The publishers alone. *)
LEMMA PublisherInvariant == PublisherSpec => []QueueInv
<1>1. QueueInv /\ [PublisherNext]_publisherVars => QueueInv'
  <2> SUFFICES ASSUME QueueInv, [PublisherNext]_publisherVars PROVE QueueInv'
    OBVIOUS
  <2>1. CASE PublisherNext
    BY <2>1, QueueStep
  <2>2. CASE UNCHANGED publisherVars
    BY <2>2 DEF publisherVars, QueueInv, PublisherTypeOK, PublishedInOrder, OneChannelPerEvent,
                PublisherOK, Exists
  <2> QED
    BY <2>1, <2>2
<1> QED
  BY <1>1, QueueStarts, PTL DEF PublisherSpec

(* An event is published when its jobs are queued, and jobs are queued in    *)
(* the order of the match, by any number of publishers.                      *)
THEOREM EnqueuedInOrder == PublisherSpec => []PublishedInOrder
<1>1. QueueInv => PublishedInOrder
  BY DEF QueueInv
<1> QED
  BY <1>1, PublisherInvariant, PTL

(* The jobs of one event are all queued for one channel.                     *)
THEOREM EventKeepsChannel == PublisherSpec => []OneChannelPerEvent
<1>1. QueueInv => OneChannelPerEvent
  BY DEF QueueInv
<1> QED
  BY <1>1, PublisherInvariant, PTL

-----------------------------------------------------------------------------
(* Delivery: all that came before a job on its channel has ended. *)
EarlierSettled(j) ==
  \A i \in Jobs : Before(i, j) /\ job[i].channel = job[j].channel => Settled(i)

(* What is known of the job a worker is at, by how far it has come. *)
WorkerFits(r) ==
  /\ r.step # "IDLE" => r.job \in Jobs /\ Exists(r.job)
  /\ r.step \notin {"IDLE", "LOCK"} => r.token \in Tokens
  /\ r.step = "CLAIM" => r.status # "NONE"
  /\ r.step \notin {"IDLE", "LOCK", "REREAD"} => EarlierSettled(r.job)

StartedInTurn == \A j \in Jobs : job[j].status \notin {"NONE", "PENDING"} => EarlierSettled(j)
SentInTurn == \A j \in sent : Exists(j) /\ EarlierSettled(j)
PendingWasSent == \A w \in Workers : \A d \in pending[w] : d[1] \in sent

DeliveryInv ==
  /\ QueueInv
  /\ DeliveryTypeOK
  /\ StartedInTurn
  /\ SentInTurn
  /\ PendingWasSent
  /\ \A w \in Workers : WorkerFits(worker[w])

(* Jobs stay where they are, and those that ended have ended. *)
JobsAdvance ==
  \A j \in Jobs : Exists(j) =>
    /\ Exists(j)' /\ job'[j].channel = job[j].channel
    /\ Settled(j) => job'[j].status = job[j].status

(* What has ended stays so, for all the jobs before one that exists. *)
LEMMA EarlierKept ==
  ASSUME QueueInv, JobsAdvance, NEW j \in Jobs, Exists(j), EarlierSettled(j)
  PROVE  EarlierSettled(j)'
BY DEF QueueInv, PublishedInOrder, JobsAdvance, EarlierSettled, Settled

LEMMA FitsKept ==
  ASSUME QueueInv, JobsAdvance, NEW r, WorkerFits(r)
  PROVE  WorkerFits(r)'
BY EarlierKept DEF WorkerFits, JobsAdvance

(* A step is right if its parts are, seen from the state it starts in. *)
LEMMA StepInTurn ==
  ASSUME DeliveryInv, JobsAdvance, QueueInv', job' \in [Jobs -> JobRecords],
         \A j \in Jobs : job'[j].token \in Tokens <=> job'[j].status \in {"SENDING", "SENT"},
         \A j \in Jobs : job'[j].status \notin {"NONE", "PENDING"} => Exists(j) /\ EarlierSettled(j),
         lock' \in [Channels -> SUBSET Tokens],
         worker' \in [Workers -> WorkerStates],
         \A w \in Workers : WorkerFits(worker'[w]),
         pending' \in [Workers -> SUBSET (Jobs \X Tokens)],
         \A w \in Workers : \A d \in pending'[w] : d[1] \in sent',
         sent' \subseteq Jobs, \A j \in sent' : Exists(j) /\ EarlierSettled(j)
  PROVE  DeliveryInv'
<1>1. QueueInv
  BY DEF DeliveryInv
<1>2. DeliveryTypeOK'
  BY DEF DeliveryTypeOK, QueueInv
<1>3. StartedInTurn'
  BY <1>1, EarlierKept DEF StartedInTurn
<1>4. SentInTurn'
  BY <1>1, EarlierKept DEF SentInTurn, JobsAdvance
<1>5. ASSUME NEW w \in Workers PROVE WorkerFits(worker[w])'
  <2>1. \A r : WorkerFits(r) => WorkerFits(r)'
    BY <1>1, FitsKept
  <2> QED
    BY <2>1
<1> QED
  BY <1>2, <1>3, <1>4, <1>5 DEF DeliveryInv, PendingWasSent

(* The step writes one job that exists and has not ended. *)
LEMMA OneJobWritten ==
  ASSUME DeliveryInv, NEW j \in Jobs, Exists(j), ~Settled(j),
         NEW r \in JobRecords, r.channel = job[j].channel, r.status # "NONE",
         r.token \in Tokens <=> r.status \in {"SENDING", "SENT"},
         r.status # "PENDING" => EarlierSettled(j),
         job' = [job EXCEPT ![j] = r], UNCHANGED <<event, link, pub>>
  PROVE  /\ JobsAdvance /\ QueueInv'
         /\ job' \in [Jobs -> JobRecords]
         /\ \A i \in Jobs : job'[i].token \in Tokens <=> job'[i].status \in {"SENDING", "SENT"}
         /\ \A i \in Jobs : job'[i].status \notin {"NONE", "PENDING"} => Exists(i) /\ EarlierSettled(i)
<1>1. job \in [Jobs -> JobRecords] /\ QueueInv
  BY DEF DeliveryInv, DeliveryTypeOK
<1>2. job'[j] = r /\ \A i \in Jobs : i # j => job'[i] = job[i]
  BY <1>1
<1>3. job' \in [Jobs -> JobRecords]
  BY <1>1
<1>4. JobsAdvance
  BY <1>2 DEF JobsAdvance, Exists
<1>5. JobsKept
  BY <1>2, <1>3 DEF JobsKept, Exists
<1>6. QueueInv'
  BY <1>1, <1>5, QueueKept
<1>7. \A i \in Jobs : job'[i].token \in Tokens <=> job'[i].status \in {"SENDING", "SENT"}
  BY <1>2 DEF DeliveryInv, DeliveryTypeOK
<1>8. \A i \in Jobs : job'[i].status \notin {"NONE", "PENDING"} => Exists(i) /\ EarlierSettled(i)
  BY <1>2 DEF DeliveryInv, StartedInTurn, Exists
<1> QED
  BY <1>3, <1>4, <1>6, <1>7, <1>8

(* The step leaves the jobs alone. *)
LEMMA NoJobWritten ==
  ASSUME DeliveryInv, UNCHANGED publisherVars
  PROVE  /\ JobsAdvance /\ QueueInv'
         /\ job' \in [Jobs -> JobRecords]
         /\ \A i \in Jobs : job'[i].token \in Tokens <=> job'[i].status \in {"SENDING", "SENT"}
         /\ \A i \in Jobs : job'[i].status \notin {"NONE", "PENDING"} => Exists(i) /\ EarlierSettled(i)
<1>1. job' = job /\ UNCHANGED <<event, link, pub>>
  BY DEF publisherVars
<1>2. QueueInv /\ job \in [Jobs -> JobRecords] /\ job = [j \in Jobs |-> job[j]]
  BY DEF DeliveryInv, DeliveryTypeOK
<1>3. JobsKept /\ JobsAdvance
  BY <1>1, <1>2 DEF JobsKept, JobsAdvance, Exists
<1>4. QueueInv'
  BY <1>1, <1>2, <1>3, QueueKept
<1> QED
  BY <1>1, <1>2, <1>3, <1>4 DEF DeliveryInv, DeliveryTypeOK, StartedInTurn, Exists

(* The step of a worker that changes only what the worker is at. *)
LEMMA WorkerMoves ==
  ASSUME DeliveryInv, NEW w \in Workers, NEW r \in WorkerStates, WorkerFits(r),
         worker' = [worker EXCEPT ![w] = r]
  PROVE  worker' \in [Workers -> WorkerStates] /\ \A v \in Workers : WorkerFits(worker'[v])
<1>1. worker \in [Workers -> WorkerStates] /\ \A v \in Workers : WorkerFits(worker[v])
  BY DEF DeliveryInv, DeliveryTypeOK
<1>2. \A v \in Workers : worker'[v] = IF v = w THEN r ELSE worker[v]
  BY <1>1
<1> QED
  BY <1>1, <1>2

LEMMA RestFits == Resting \in WorkerStates /\ WorkerFits(Resting)
BY DeliveryAssumption DEF Resting, WorkerStates, WorkerFits

(* A worker goes on to another step that asks no more of it. *)
LEMMA NextStepFits ==
  ASSUME DeliveryInv, NEW w \in Workers, worker[w].step \notin {"IDLE", "LOCK", "REREAD"},
         NEW step \in {"VALIDATE", "CANCEL", "MARK", "SEND", "FAIL"}, Step(w, step)
  PROVE  worker' \in [Workers -> WorkerStates] /\ \A v \in Workers : WorkerFits(worker'[v])
<1> DEFINE r == [worker[w] EXCEPT !.step = step]
<1>1. worker[w] \in WorkerStates /\ WorkerFits(worker[w])
  BY DEF DeliveryInv, DeliveryTypeOK
<1>2. r \in WorkerStates /\ r.step = step /\ r.job = worker[w].job /\ r.token = worker[w].token
  BY <1>1 DEF WorkerStates
<1>3. WorkerFits(r)
  BY <1>1, <1>2 DEF WorkerFits
<1> QED
  BY <1>2, <1>3, WorkerMoves DEF Step

(* What is known of a worker that holds a job. *)
LEMMA Holds ==
  ASSUME DeliveryInv, NEW w \in Workers, worker[w].step # "IDLE"
  PROVE  /\ worker[w].job \in Jobs /\ Exists(worker[w].job)
         /\ job[worker[w].job] \in JobRecords /\ ChannelOf(w) \in Channels
         /\ worker[w] \in WorkerStates /\ WorkerFits(worker[w])
BY DEF DeliveryInv, DeliveryTypeOK, WorkerFits, ChannelOf, QueueInv, PublisherTypeOK

(* Dropping a token, forgetting a job: the types stay. *)
LEMMA UnlockType ==
  ASSUME DeliveryInv, NEW c \in Channels, NEW t, Unlock(c, t)
  PROVE  lock' \in [Channels -> SUBSET Tokens]
BY DEF DeliveryInv, DeliveryTypeOK, Unlock

LEMMA ForgetType ==
  ASSUME DeliveryInv, NEW w \in Workers, NEW j, Forget(w, j)
  PROVE  /\ pending' \in [Workers -> SUBSET (Jobs \X Tokens)]
         /\ \A v \in Workers : pending'[v] \subseteq pending[v]
BY DEF DeliveryInv, DeliveryTypeOK, Forget

(* The parts that a step leaves alone. *)
LEMMA Unmoved ==
  ASSUME DeliveryInv
  PROVE  /\ lock \in [Channels -> SUBSET Tokens]
         /\ worker \in [Workers -> WorkerStates] /\ \A v \in Workers : WorkerFits(worker[v])
         /\ pending \in [Workers -> SUBSET (Jobs \X Tokens)]
         /\ \A v \in Workers : \A d \in pending[v] : d[1] \in sent
         /\ sent \subseteq Jobs /\ \A j \in sent : Exists(j) /\ EarlierSettled(j)
BY DEF DeliveryInv, DeliveryTypeOK, SentInTurn, PendingWasSent

-----------------------------------------------------------------------------
(* The steps of a worker, one by one. *)
LEMMA FindInv ==
  ASSUME DeliveryInv, NEW w \in Workers, FindCandidate(w)
  PROVE  DeliveryInv'
<1>1. PICK j \in Jobs : /\ IsEarliest(j)
                        /\ worker' = [worker EXCEPT ![w] = [Resting EXCEPT !.step = "LOCK", !.job = j]]
  BY DEF FindCandidate
<1> DEFINE r == [Resting EXCEPT !.step = "LOCK", !.job = j]
<1>2. r.step = "LOCK" /\ r.job = j
  BY DEF Resting
<1>3. r \in WorkerStates
  BY RestFits DEF WorkerStates
<1>4. Exists(j)
  BY <1>1 DEF IsEarliest, Unsettled, Exists
<1>5. WorkerFits(r)
  BY <1>2, <1>4 DEF WorkerFits
<1>6. worker' \in [Workers -> WorkerStates] /\ \A v \in Workers : WorkerFits(worker'[v])
  BY <1>1, <1>3, <1>5, WorkerMoves
<1>7. UNCHANGED <<publisherVars, lock, pending, sent>>
  BY DEF FindCandidate
<1> QED
  BY <1>6, <1>7, NoJobWritten, Unmoved, StepInTurn

LEMMA LockInv ==
  ASSUME DeliveryInv, NEW w \in Workers, LockChannel(w)
  PROVE  DeliveryInv'
<1>1. worker[w].step = "LOCK" /\ UNCHANGED <<publisherVars, pending, sent>>
  BY DEF LockChannel, At
<1>2. ChannelOf(w) \in Channels /\ worker[w] \in WorkerStates /\ WorkerFits(worker[w])
  BY <1>1, Holds
<1>3. lock' \in [Channels -> SUBSET Tokens] /\ worker' \in [Workers -> WorkerStates]
      /\ \A v \in Workers : WorkerFits(worker'[v])
  <2>1. CASE Rest(w) /\ UNCHANGED lock
    BY <2>1, RestFits, WorkerMoves, Unmoved DEF Rest
  <2>2. ASSUME NEW t \in Tokens, lock' = [lock EXCEPT ![ChannelOf(w)] = {t}],
               worker' = [worker EXCEPT ![w].step = "REREAD", ![w].token = t]
        PROVE  lock' \in [Channels -> SUBSET Tokens] /\ worker' \in [Workers -> WorkerStates]
               /\ \A v \in Workers : WorkerFits(worker'[v])
    <3> DEFINE r == [worker[w] EXCEPT !.step = "REREAD", !.token = t]
    <3>1. r.step = "REREAD" /\ r.job = worker[w].job /\ r.token = t
      BY <1>2 DEF WorkerStates
    <3>2. r \in WorkerStates
      BY <1>2 DEF WorkerStates
    <3>3. WorkerFits(r)
      BY <1>1, <1>2, <3>1 DEF WorkerFits
    <3>4. worker' = [worker EXCEPT ![w] = r]
      BY <2>2
    <3>5. lock' \in [Channels -> SUBSET Tokens]
      BY <2>2, Unmoved
    <3> QED
      BY <3>2, <3>3, <3>4, <3>5, WorkerMoves
  <2> QED
    BY <2>1, <2>2 DEF LockChannel
<1> QED
  BY <1>1, <1>3, NoJobWritten, Unmoved, StepInTurn

(* What is before an earliest job exists, so it has ended. *)
LEMMA EarliestInTurn ==
  ASSUME DeliveryInv, NEW j \in Jobs, IsEarliest(j)
  PROVE  EarlierSettled(j)
<1>1. Exists(j) /\ PublishedInOrder /\ \A i \in Jobs : job[i] \in JobRecords
  BY DEF IsEarliest, Unsettled, Exists, DeliveryInv, QueueInv, DeliveryTypeOK
<1>2. \A i \in Jobs : Before(i, j) => Exists(i)
  BY <1>1 DEF PublishedInOrder
<1>3. \A i \in Jobs : Exists(i) /\ ~Unsettled(i) => Settled(i)
  BY <1>1 DEF Exists, Unsettled, Settled, JobRecords
<1> QED
  BY <1>2, <1>3 DEF IsEarliest, EarlierSettled

LEMMA RereadInv ==
  ASSUME DeliveryInv, NEW w \in Workers, Reread(w)
  PROVE  DeliveryInv'
<1> DEFINE j == worker[w].job
<1>1. worker[w].step = "REREAD" /\ UNCHANGED <<publisherVars, pending, sent>>
  BY DEF Reread, At
<1>2. /\ j \in Jobs /\ Exists(j) /\ job[j] \in JobRecords /\ ChannelOf(w) \in Channels
      /\ worker[w] \in WorkerStates /\ WorkerFits(worker[w])
  BY <1>1, Holds
<1>3. lock' \in [Channels -> SUBSET Tokens] /\ worker' \in [Workers -> WorkerStates]
      /\ \A v \in Workers : WorkerFits(worker'[v])
  <2>1. CASE Rest(w) /\ Unlock(ChannelOf(w), worker[w].token)
    BY <2>1, <1>2, RestFits, WorkerMoves, UnlockType DEF Rest
  <2>2. CASE /\ IsEarliest(j) /\ UNCHANGED lock
             /\ worker' = [worker EXCEPT ![w].step = "CLAIM", ![w].status = job[j].status,
                                         ![w].attempts = job[j].attempts]
    <3> DEFINE r == [worker[w] EXCEPT !.step = "CLAIM", !.status = job[j].status,
                                      !.attempts = job[j].attempts]
    <3>1. r.step = "CLAIM" /\ r.job = j /\ r.token = worker[w].token /\ r.status = job[j].status
      BY <1>2 DEF WorkerStates
    <3>2. job[j].status \in {"PENDING", "SENDING", "SENT", "FAILED"}
      BY <2>2 DEF IsEarliest, Unsettled
    <3>3. r \in WorkerStates
      BY <1>2, <3>2 DEF WorkerStates, JobRecords
    <3>4. EarlierSettled(j)
      BY <2>2, <1>2, EarliestInTurn
    <3>5. WorkerFits(r)
      BY <1>1, <1>2, <3>1, <3>2, <3>4 DEF WorkerFits
    <3>6. worker' = [worker EXCEPT ![w] = r]
      BY <2>2
    <3> QED
      BY <2>2, <3>3, <3>5, <3>6, WorkerMoves, Unmoved
  <2> QED
    BY <2>1, <2>2 DEF Reread
<1> QED
  BY <1>1, <1>3, NoJobWritten, Unmoved, StepInTurn

LEMMA ClaimInv ==
  ASSUME DeliveryInv, NEW w \in Workers, ClaimJob(w)
  PROVE  DeliveryInv'
<1> DEFINE j == worker[w].job
           t == worker[w].token
<1>1. worker[w].step = "CLAIM" /\ UNCHANGED <<event, link, pub, pending, sent>>
  BY DEF ClaimJob, At
<1>2. /\ j \in Jobs /\ Exists(j) /\ job[j] \in JobRecords /\ ChannelOf(w) \in Channels
      /\ worker[w] \in WorkerStates /\ WorkerFits(worker[w])
  BY <1>1, Holds
<1>3. t \in Tokens /\ worker[w].status # "NONE" /\ EarlierSettled(j)
  BY <1>1, <1>2 DEF WorkerFits
<1>4. CASE /\ job[j].status = worker[w].status
           /\ job' = [job EXCEPT ![j].status = "SENDING", ![j].token = t]
           /\ Step(w, "VALIDATE") /\ UNCHANGED lock
  <2> DEFINE r == [job[j] EXCEPT !.status = "SENDING", !.token = t]
  <2>1. r.status = "SENDING" /\ r.channel = job[j].channel /\ r.token = t
    BY <1>2 DEF JobRecords
  <2>2. r \in JobRecords
    BY <1>2, <1>3 DEF JobRecords
  <2>3. ~Settled(j)
    BY <1>2, <1>4 DEF Settled, WorkerStates
  <2>4. job' = [job EXCEPT ![j] = r]
    BY <1>4
  <2>5. worker' \in [Workers -> WorkerStates] /\ \A v \in Workers : WorkerFits(worker'[v])
    BY <1>1, <1>4, NextStepFits
  <2>6. /\ JobsAdvance /\ QueueInv' /\ job' \in [Jobs -> JobRecords]
        /\ \A i \in Jobs : job'[i].token \in Tokens <=> job'[i].status \in {"SENDING", "SENT"}
        /\ \A i \in Jobs : job'[i].status \notin {"NONE", "PENDING"} => Exists(i) /\ EarlierSettled(i)
    BY <1>1, <1>2, <1>3, <2>1, <2>2, <2>3, <2>4, OneJobWritten
  <2> QED
    BY <1>1, <1>4, <2>5, <2>6, Unmoved, StepInTurn
<1>5. CASE Rest(w) /\ Unlock(ChannelOf(w), t) /\ UNCHANGED job
  <2>1. UNCHANGED publisherVars
    BY <1>1, <1>5 DEF publisherVars
  <2>2. worker' \in [Workers -> WorkerStates] /\ \A v \in Workers : WorkerFits(worker'[v])
    BY <1>5, RestFits, WorkerMoves DEF Rest
  <2>3. lock' \in [Channels -> SUBSET Tokens]
    BY <1>2, <1>5, UnlockType
  <2> QED
    BY <1>1, <2>1, <2>2, <2>3, NoJobWritten, Unmoved, StepInTurn
<1> QED
  BY <1>4, <1>5 DEF ClaimJob

(* The writes with which a claim ends. *)
LEMMA EndFields ==
  ASSUME NEW x \in JobRecords, NEW r \in {Acknowledged(x), Rejected(x), Failed(x), Cancelled(x)}
  PROVE  /\ r \in JobRecords /\ r.channel = x.channel /\ r.token = NoToken
         /\ r.status \in {"ACKNOWLEDGED", "FAILED", "CANCELLED"}
<1>1. OneMore(x.attempts) \in 0..MaxAttempts
  BY DeliveryAssumption DEF JobRecords, OneMore
<1>2. CASE r = Acknowledged(x)
  BY <1>2 DEF Acknowledged, JobRecords
<1>3. CASE r = Rejected(x)
  BY <1>1, <1>3 DEF Rejected, JobRecords
<1>4. CASE r = Failed(x)
  BY <1>1, <1>4 DEF Failed, Rejected, JobRecords
<1>5. CASE r = Cancelled(x)
  BY <1>5 DEF Cancelled, JobRecords
<1> QED
  BY <1>2, <1>3, <1>4, <1>5

LEMMA ClaimEnds ==
  ASSUME DeliveryInv, NEW j \in Jobs, NEW t, ClaimedBy(j, t),
         NEW r \in {Acknowledged(job[j]), Rejected(job[j]), Failed(job[j]), Cancelled(job[j])},
         job' = [job EXCEPT ![j] = r], UNCHANGED <<event, link, pub>>
  PROVE  /\ JobsAdvance /\ QueueInv'
         /\ job' \in [Jobs -> JobRecords]
         /\ \A i \in Jobs : job'[i].token \in Tokens <=> job'[i].status \in {"SENDING", "SENT"}
         /\ \A i \in Jobs : job'[i].status \notin {"NONE", "PENDING"} => Exists(i) /\ EarlierSettled(i)
<1>1. job[j] \in JobRecords /\ Exists(j) /\ ~Settled(j) /\ EarlierSettled(j)
  BY DEF DeliveryInv, DeliveryTypeOK, StartedInTurn, ClaimedBy, Exists, Settled
<1>2. /\ r \in JobRecords /\ r.channel = job[j].channel /\ r.token = NoToken
      /\ r.status \in {"ACKNOWLEDGED", "FAILED", "CANCELLED"}
  BY <1>1, EndFields
<1>3. r.token \in Tokens <=> r.status \in {"SENDING", "SENT"}
  BY <1>2, DeliveryAssumption
<1>4. r.status # "NONE" /\ (r.status # "PENDING" => EarlierSettled(j))
  BY <1>1, <1>2
<1> QED
  BY <1>1, <1>2, <1>3, <1>4, OneJobWritten

LEMMA ValidateInv ==
  ASSUME DeliveryInv, NEW w \in Workers, Validate(w)
  PROVE  DeliveryInv'
<1>1. worker[w].step = "VALIDATE" /\ UNCHANGED <<publisherVars, lock, sent>>
  BY DEF Validate, At
<1>2. worker' \in [Workers -> WorkerStates] /\ \A v \in Workers : WorkerFits(worker'[v])
  <2>1. PICK step \in {"VALIDATE", "CANCEL", "MARK", "SEND", "FAIL"} : Step(w, step)
    BY DEF Validate
  <2> QED
    BY <1>1, <2>1, NextStepFits
<1>3. /\ pending' \in [Workers -> SUBSET (Jobs \X Tokens)]
      /\ \A v \in Workers : pending'[v] \subseteq pending[v]
  <2>1. CASE Forget(w, worker[w].job)
    BY <2>1, ForgetType
  <2>2. CASE UNCHANGED pending
    BY <2>2, Unmoved
  <2> QED
    BY <2>1, <2>2 DEF Validate
<1>4. \A v \in Workers : \A d \in pending'[v] : d[1] \in sent'
  BY <1>1, <1>3, Unmoved
<1> QED
  BY <1>1, <1>2, <1>3, <1>4, NoJobWritten, Unmoved, StepInTurn

(* The end of a round in which the worker may have ended its claim. *)
LEMMA RoundEnds ==
  ASSUME DeliveryInv, NEW w \in Workers, worker[w].step # "IDLE", Rest(w),
         UNCHANGED <<event, link, pub, pending, sent>>,
         \/ /\ ClaimedBy(worker[w].job, worker[w].token)
            /\ \E r \in {Acknowledged(job[worker[w].job]), Rejected(job[worker[w].job]),
                         Failed(job[worker[w].job]), Cancelled(job[worker[w].job])} :
                 job' = [job EXCEPT ![worker[w].job] = r]
            /\ Unlock(job[worker[w].job].channel, worker[w].token)
         \/ UNCHANGED <<job, lock>>
  PROVE  DeliveryInv'
<1> DEFINE j == worker[w].job
<1>1. j \in Jobs /\ job[j].channel \in Channels
  BY Holds DEF ChannelOf
<1>2. worker' \in [Workers -> WorkerStates] /\ \A v \in Workers : WorkerFits(worker'[v])
  BY RestFits, WorkerMoves DEF Rest
<1>3. CASE UNCHANGED <<job, lock>>
  <2>1. UNCHANGED publisherVars
    BY <1>3 DEF publisherVars
  <2> QED
    BY <1>2, <1>3, <2>1, NoJobWritten, Unmoved, StepInTurn
<1>4. ASSUME ClaimedBy(j, worker[w].token),
             NEW r \in {Acknowledged(job[j]), Rejected(job[j]), Failed(job[j]), Cancelled(job[j])},
             job' = [job EXCEPT ![j] = r], Unlock(job[j].channel, worker[w].token)
      PROVE  DeliveryInv'
  <2>1. lock' \in [Channels -> SUBSET Tokens]
    BY <1>1, <1>4, UnlockType
  <2>2. /\ JobsAdvance /\ QueueInv' /\ job' \in [Jobs -> JobRecords]
        /\ \A i \in Jobs : job'[i].token \in Tokens <=> job'[i].status \in {"SENDING", "SENT"}
        /\ \A i \in Jobs : job'[i].status \notin {"NONE", "PENDING"} => Exists(i) /\ EarlierSettled(i)
    BY <1>1, <1>4, ClaimEnds
  <2> QED
    BY <1>2, <2>1, <2>2, Unmoved, StepInTurn
<1> QED
  BY <1>3, <1>4

LEMMA CancelInv ==
  ASSUME DeliveryInv, NEW w \in Workers, Cancel(w)
  PROVE  DeliveryInv'
<1>1. worker[w].step # "IDLE" /\ Rest(w) /\ UNCHANGED <<event, link, pub, pending, sent>>
  BY DEF Cancel, At
<1> QED
  BY <1>1, RoundEnds DEF Cancel

LEMMA FailInv ==
  ASSUME DeliveryInv, NEW w \in Workers, Fail(w)
  PROVE  DeliveryInv'
<1>1. worker[w].step # "IDLE" /\ Rest(w) /\ UNCHANGED <<event, link, pub, pending, sent>>
  BY DEF Fail, At
<1>2. CASE worker[w].attempts + 1 >= MaxAttempts
  BY <1>1, <1>2, RoundEnds DEF Fail
<1>3. CASE ~(worker[w].attempts + 1 >= MaxAttempts)
  BY <1>1, <1>3, RoundEnds DEF Fail
<1> QED
  BY <1>2, <1>3

LEMMA MarkSentInv ==
  ASSUME DeliveryInv, NEW w \in Workers, MarkSent(w)
  PROVE  DeliveryInv'
<1> DEFINE j == worker[w].job
<1>1. worker[w].step = "MARK" /\ UNCHANGED <<event, link, pub, lock, pending, sent>>
  BY DEF MarkSent, At
<1>2. /\ j \in Jobs /\ Exists(j) /\ job[j] \in JobRecords /\ EarlierSettled(j)
      /\ worker[w].token \in Tokens
  BY <1>1, Holds DEF WorkerFits
<1>3. worker' \in [Workers -> WorkerStates] /\ \A v \in Workers : WorkerFits(worker'[v])
  BY <1>1, NextStepFits DEF MarkSent
<1>4. CASE UNCHANGED job
  <2>1. UNCHANGED publisherVars
    BY <1>1, <1>4 DEF publisherVars
  <2> QED
    BY <1>1, <1>3, <2>1, NoJobWritten, Unmoved, StepInTurn
<1>5. CASE /\ ClaimedBy(j, worker[w].token) /\ job[j].status = "SENDING"
           /\ job' = [job EXCEPT ![j].status = "SENT"]
  <2> DEFINE r == [job[j] EXCEPT !.status = "SENT"]
  <2>1. /\ r \in JobRecords /\ r.status = "SENT" /\ r.channel = job[j].channel
        /\ r.token \in Tokens
    BY <1>2, <1>5 DEF JobRecords, ClaimedBy
  <2>2. job' = [job EXCEPT ![j] = r] /\ ~Settled(j)
    BY <1>5 DEF Settled
  <2>3. /\ JobsAdvance /\ QueueInv' /\ job' \in [Jobs -> JobRecords]
        /\ \A i \in Jobs : job'[i].token \in Tokens <=> job'[i].status \in {"SENDING", "SENT"}
        /\ \A i \in Jobs : job'[i].status \notin {"NONE", "PENDING"} => Exists(i) /\ EarlierSettled(i)
    BY <1>1, <1>2, <2>1, <2>2, OneJobWritten
  <2> QED
    BY <1>1, <1>3, <2>3, Unmoved, StepInTurn
<1> QED
  BY <1>4, <1>5 DEF MarkSent

(* What a worker that sends may send. *)
LEMMA SentGrows ==
  ASSUME DeliveryInv, NEW w \in Workers, worker[w].step = "SEND",
         sent' \in {sent, sent \cup {worker[w].job}}
  PROVE  sent' \subseteq Jobs /\ \A j \in sent' : Exists(j) /\ EarlierSettled(j)
BY Holds, Unmoved DEF WorkerFits

LEMMA SendInv ==
  ASSUME DeliveryInv, NEW w \in Workers, Send(w)
  PROVE  DeliveryInv'
<1>1. worker[w].step = "SEND" /\ Rest(w) /\ UNCHANGED <<publisherVars, lock>>
  BY DEF Send, At
<1>2. worker[w].job \in Jobs /\ worker[w].token \in Tokens
  BY <1>1, Holds DEF WorkerFits
<1>3. sent' = sent \cup {worker[w].job}
      /\ pending' = [pending EXCEPT ![w] =
                       {d \in @ : d[1] # worker[w].job} \cup {<<worker[w].job, worker[w].token>>}]
  BY DEF Send, Delivery
<1>4. /\ pending' \in [Workers -> SUBSET (Jobs \X Tokens)]
      /\ \A v \in Workers : \A d \in pending'[v] : d[1] \in sent'
  BY <1>2, <1>3, Unmoved
<1>5. worker' \in [Workers -> WorkerStates] /\ \A v \in Workers : WorkerFits(worker'[v])
  BY <1>1, RestFits, WorkerMoves DEF Rest
<1>6. sent' \subseteq Jobs /\ \A j \in sent' : Exists(j) /\ EarlierSettled(j)
  BY <1>1, <1>3, SentGrows
<1> QED
  BY <1>1, <1>4, <1>5, <1>6, NoJobWritten, Unmoved, StepInTurn

LEMMA SendErrorInv ==
  ASSUME DeliveryInv, NEW w \in Workers, SendError(w)
  PROVE  DeliveryInv'
<1>1. worker[w].step = "SEND" /\ Step(w, "FAIL") /\ UNCHANGED <<publisherVars, lock>>
      /\ Forget(w, worker[w].job) /\ sent' \in {sent, sent \cup {worker[w].job}}
  BY DEF SendError, At
<1>2. worker' \in [Workers -> WorkerStates] /\ \A v \in Workers : WorkerFits(worker'[v])
  BY <1>1, NextStepFits
<1>3. sent' \subseteq Jobs /\ \A j \in sent' : Exists(j) /\ EarlierSettled(j)
  BY <1>1, SentGrows
<1>4. /\ pending' \in [Workers -> SUBSET (Jobs \X Tokens)]
      /\ \A v \in Workers : pending'[v] \subseteq pending[v]
  BY <1>1, ForgetType
<1>5. \A v \in Workers : \A d \in pending'[v] : d[1] \in sent'
  BY <1>1, <1>4, Unmoved
<1> QED
  BY <1>1, <1>2, <1>3, <1>4, <1>5, NoJobWritten, Unmoved, StepInTurn

LEMMA AbandonInv ==
  ASSUME DeliveryInv, NEW w \in Workers, Abandon(w)
  PROVE  DeliveryInv'
<1>1. Rest(w) /\ UNCHANGED <<publisherVars, lock, pending, sent>>
  BY DEF Abandon
<1>2. worker' \in [Workers -> WorkerStates] /\ \A v \in Workers : WorkerFits(worker'[v])
  BY <1>1, RestFits, WorkerMoves DEF Rest
<1> QED
  BY <1>1, <1>2, NoJobWritten, Unmoved, StepInTurn

-----------------------------------------------------------------------------
(* The steps that are no worker's. *)
LEMMA HandleReceiptInv ==
  ASSUME DeliveryInv, NEW w \in Workers, NEW d, NEW answer, HandleReceipt(w, d, answer)
  PROVE  DeliveryInv'
<1>1. /\ d \in pending[w] /\ pending' = [pending EXCEPT ![w] = @ \ {d}]
      /\ UNCHANGED <<event, link, pub, worker, sent>>
  BY DEF HandleReceipt
<1>2. d[1] \in Jobs /\ d[2] \in Tokens
  BY <1>1, Unmoved
<1>3. /\ pending' \in [Workers -> SUBSET (Jobs \X Tokens)]
      /\ \A v \in Workers : \A e \in pending'[v] : e[1] \in sent'
  BY <1>1, Unmoved
<1>4. CASE UNCHANGED <<job, lock>>
  <2>1. UNCHANGED publisherVars
    BY <1>1, <1>4 DEF publisherVars
  <2> QED
    BY <1>1, <1>3, <1>4, <2>1, NoJobWritten, Unmoved, StepInTurn
<1>5. ASSUME ClaimedBy(d[1], d[2]), Unlock(job[d[1]].channel, d[2]),
             NEW r \in {Acknowledged(job[d[1]]), Rejected(job[d[1]])},
             job' = [job EXCEPT ![d[1]] = r]
      PROVE  DeliveryInv'
  <2>1. job[d[1]].channel \in Channels
    BY <1>2, <1>5 DEF DeliveryInv, QueueInv, PublisherTypeOK, ClaimedBy, Exists
  <2>2. lock' \in [Channels -> SUBSET Tokens]
    BY <1>5, <2>1, UnlockType
  <2>3. /\ JobsAdvance /\ QueueInv' /\ job' \in [Jobs -> JobRecords]
        /\ \A i \in Jobs : job'[i].token \in Tokens <=> job'[i].status \in {"SENDING", "SENT"}
        /\ \A i \in Jobs : job'[i].status \notin {"NONE", "PENDING"} => Exists(i) /\ EarlierSettled(i)
    BY <1>1, <1>2, <1>5, ClaimEnds
  <2> QED
    BY <1>1, <1>3, <2>2, <2>3, Unmoved, StepInTurn
<1>6. CASE answer = "OK"
  BY <1>4, <1>5, <1>6 DEF HandleReceipt
<1>7. CASE answer # "OK"
  BY <1>4, <1>5, <1>7 DEF HandleReceipt
<1> QED
  BY <1>6, <1>7

LEMMA DisconnectInv ==
  ASSUME DeliveryInv, NEW w \in Workers, Disconnect(w)
  PROVE  DeliveryInv'
<1>1. pending' = [pending EXCEPT ![w] = {}] /\ UNCHANGED <<publisherVars, lock, worker, sent>>
  BY DEF Disconnect
<1>2. /\ pending' \in [Workers -> SUBSET (Jobs \X Tokens)]
      /\ \A v \in Workers : \A d \in pending'[v] : d[1] \in sent'
  BY <1>1, Unmoved
<1> QED
  BY <1>1, <1>2, NoJobWritten, Unmoved, StepInTurn

LEMMA LockLapsesInv ==
  ASSUME DeliveryInv, NEW c \in Channels, LockLapses(c)
  PROVE  DeliveryInv'
<1>1. lock' = [lock EXCEPT ![c] = {}] /\ UNCHANGED <<publisherVars, worker, pending, sent>>
  BY DEF LockLapses
<1>2. lock' \in [Channels -> SUBSET Tokens]
  BY <1>1, Unmoved
<1> QED
  BY <1>1, <1>2, NoJobWritten, Unmoved, StepInTurn

LEMMA RetryInv ==
  ASSUME DeliveryInv, NEW j \in Jobs, Retry(j)
  PROVE  DeliveryInv'
<1> DEFINE r == [job[j] EXCEPT !.status = "PENDING", !.automatic = TRUE]
<1>1. /\ job[j].status = "FAILED" /\ job' = [job EXCEPT ![j] = r]
      /\ UNCHANGED <<event, link, pub, lock, worker, pending, sent>>
  BY DEF Retry, workVars
<1>2. job[j] \in JobRecords /\ job[j].token \notin Tokens
  BY <1>1 DEF DeliveryInv, DeliveryTypeOK
<1>3. /\ r \in JobRecords /\ r.status = "PENDING" /\ r.channel = job[j].channel
      /\ r.token \notin Tokens
  BY <1>2 DEF JobRecords
<1>4. Exists(j) /\ ~Settled(j)
  BY <1>1 DEF Exists, Settled
<1>5. /\ JobsAdvance /\ QueueInv' /\ job' \in [Jobs -> JobRecords]
      /\ \A i \in Jobs : job'[i].token \in Tokens <=> job'[i].status \in {"SENDING", "SENT"}
      /\ \A i \in Jobs : job'[i].status \notin {"NONE", "PENDING"} => Exists(i) /\ EarlierSettled(i)
  BY <1>1, <1>3, <1>4, OneJobWritten
<1> QED
  BY <1>1, <1>5, Unmoved, StepInTurn

(* A publisher writes no job but the next one, where there was none. *)
LEMMA PublisherWrites ==
  ASSUME QueueInv, PublisherNext
  PROVE  \/ UNCHANGED job
         \/ \E p \in Publishers :
              /\ NextJob(p) \in Jobs /\ ~Exists(NextJob(p)) /\ pub[p].channel \in Channels
              /\ job' = [job EXCEPT ![NextJob(p)] = NewJob(pub[p].channel)]
<1>1. ASSUME NEW p \in Publishers, pub[p].step = "ENQUEUE"
      PROVE  NextJob(p) \in Jobs /\ pub[p].channel \in Channels
  BY <1>1, JobMember DEF QueueInv, PublisherOK, NextJob
<1>2. ASSUME NEW p \in Publishers, Enqueue(p), Exists(NextJob(p)) PROVE UNCHANGED job
  BY <1>1, <1>2 DEF Enqueue, QueueInv, PublisherTypeOK
<1>3. ASSUME NEW p \in Publishers, Enqueue(p) \/ EnqueueError(p), ~Exists(NextJob(p)), job' # job
      PROVE  /\ NextJob(p) \in Jobs /\ pub[p].channel \in Channels
             /\ job' = [job EXCEPT ![NextJob(p)] = NewJob(pub[p].channel)]
  BY <1>1, <1>3 DEF Enqueue, EnqueueError
<1>4. ASSUME NEW p \in Publishers, ~Enqueue(p), ~EnqueueError(p), Publishes(p)
      PROVE  UNCHANGED job
  BY <1>4 DEF Publishes, Plan, EnqueueMismatch, MarkEventPublished, MarkEventFailed
<1>5. ASSUME NEW p \in Publishers, EnqueueError(p), Exists(NextJob(p)) PROVE UNCHANGED job
  BY <1>5 DEF EnqueueError
<1> QED
  BY <1>2, <1>3, <1>4, <1>5
  DEF PublisherNext, Commit, RetryFailedEvent, ListUnpublishedEvents, StopPublisher, SetMPLink

LEMMA PublisherStepInv ==
  ASSUME DeliveryInv, PublisherNext, UNCHANGED workVars
  PROVE  DeliveryInv'
<1>1. QueueInv /\ QueueInv' /\ job \in [Jobs -> JobRecords]
  BY QueueStep DEF DeliveryInv, DeliveryTypeOK
<1>2. UNCHANGED <<lock, worker, pending, sent>>
  BY DEF workVars
<1>3. /\ JobsAdvance /\ job' \in [Jobs -> JobRecords]
      /\ \A i \in Jobs : job'[i].token \in Tokens <=> job'[i].status \in {"SENDING", "SENT"}
      /\ \A i \in Jobs : job'[i].status \notin {"NONE", "PENDING"} => Exists(i) /\ EarlierSettled(i)
  <2>1. CASE UNCHANGED job
    BY <2>1, <1>1 DEF JobsAdvance, Exists, DeliveryInv, DeliveryTypeOK, StartedInTurn
  <2>2. ASSUME NEW p \in Publishers, NextJob(p) \in Jobs, ~Exists(NextJob(p)),
               pub[p].channel \in Channels,
               job' = [job EXCEPT ![NextJob(p)] = NewJob(pub[p].channel)]
        PROVE  /\ JobsAdvance /\ job' \in [Jobs -> JobRecords]
               /\ \A i \in Jobs : job'[i].token \in Tokens <=> job'[i].status \in {"SENDING", "SENT"}
               /\ \A i \in Jobs :
                    job'[i].status \notin {"NONE", "PENDING"} => Exists(i) /\ EarlierSettled(i)
    <3> DEFINE r == NewJob(pub[p].channel)
    <3>1. r \in JobRecords /\ r.status = "PENDING" /\ r.token \notin Tokens
      BY <2>2, DeliveryAssumption DEF NewJob, Untried, JobRecords
    <3>2. job'[NextJob(p)] = r /\ \A j \in Jobs : j # NextJob(p) => job'[j] = job[j]
      BY <1>1, <2>2
    <3>3. job' \in [Jobs -> JobRecords]
      BY <1>1, <2>2, <3>1
    <3>4. JobsAdvance
      BY <2>2, <3>2 DEF JobsAdvance, Exists
    <3>5. \A i \in Jobs : job'[i].token \in Tokens <=> job'[i].status \in {"SENDING", "SENT"}
      BY <3>1, <3>2 DEF DeliveryInv, DeliveryTypeOK
    <3>6. \A i \in Jobs : job'[i].status \notin {"NONE", "PENDING"} => Exists(i) /\ EarlierSettled(i)
      BY <3>1, <3>2 DEF DeliveryInv, StartedInTurn, Exists
    <3> QED
      BY <3>3, <3>4, <3>5, <3>6
  <2> QED
    BY <1>1, <2>1, <2>2, PublisherWrites
<1> QED
  BY <1>1, <1>2, <1>3, Unmoved, StepInTurn

-----------------------------------------------------------------------------
LEMMA DeliveryStarts == DeliveryInit => DeliveryInv
<1> SUFFICES ASSUME DeliveryInit PROVE DeliveryInv
  OBVIOUS
<1>1. QueueInv
  BY QueueStarts DEF DeliveryInit
<1>2. /\ job = [j \in Jobs |-> NoJob] /\ NoJob \in JobRecords
      /\ NoJob.status = "NONE" /\ NoJob.token \notin Tokens
  BY DeliveryAssumption DEF DeliveryInit, PublisherInit, NoJob, Untried, JobRecords
<1>3. DeliveryTypeOK
  BY <1>1, <1>2, RestFits DEF DeliveryInit, WorkersInit, QueueInv, DeliveryTypeOK
<1>4. StartedInTurn
  BY <1>2 DEF StartedInTurn
<1>5. SentInTurn /\ PendingWasSent
  BY DEF DeliveryInit, WorkersInit, SentInTurn, PendingWasSent
<1>6. \A w \in Workers : WorkerFits(worker[w])
  BY RestFits DEF DeliveryInit, WorkersInit
<1> QED
  BY <1>1, <1>3, <1>4, <1>5, <1>6 DEF DeliveryInv

LEMMA DeliveryStep ==
  ASSUME DeliveryInv, [DeliveryNext]_deliveryVars
  PROVE  DeliveryInv'
<1>1. CASE PublisherNext /\ UNCHANGED workVars
  BY <1>1, PublisherStepInv
<1>2. ASSUME NEW w \in Workers, Works(w) PROVE DeliveryInv'
  BY <1>2, FindInv, LockInv, RereadInv, ClaimInv, ValidateInv, CancelInv, MarkSentInv,
     SendInv, SendErrorInv, FailInv DEF Works
<1>3. ASSUME NEW w \in Workers, Answers(w) \/ Disconnect(w) \/ Abandon(w) PROVE DeliveryInv'
  BY <1>3, HandleReceiptInv, DisconnectInv, AbandonInv DEF Answers
<1>4. ASSUME NEW c \in Channels, LockLapses(c) PROVE DeliveryInv'
  BY <1>4, LockLapsesInv
<1>5. ASSUME NEW j \in Jobs, Retry(j) PROVE DeliveryInv'
  BY <1>5, RetryInv
<1>6. CASE UNCHANGED deliveryVars
  <2>1. UNCHANGED publisherVars /\ UNCHANGED <<lock, worker, pending, sent>>
    BY <1>6 DEF deliveryVars, workVars
  <2> QED
    BY <2>1, NoJobWritten, Unmoved, StepInTurn
<1> QED
  BY <1>1, <1>2, <1>3, <1>4, <1>5, <1>6 DEF DeliveryNext

LEMMA DeliveryHolds == DeliverySpec => []DeliveryInv
<1>1. DeliveryInv /\ [DeliveryNext]_deliveryVars => DeliveryInv'
  BY DeliveryStep
<1> QED
  BY <1>1, DeliveryStarts, PTL DEF DeliverySpec

(* Types; a job carries the token of a claim just as long as it is claimed,  *)
(* though locks and leases run out while their holders go on; and what the   *)
(* publishers guarantee holds while workers settle their jobs.               *)
THEOREM QueueIsKept ==
  DeliverySpec => [](DeliveryTypeOK /\ PublishedInOrder /\ OneChannelPerEvent)
<1>1. DeliveryInv => DeliveryTypeOK /\ PublishedInOrder /\ OneChannelPerEvent
  BY DEF DeliveryInv, QueueInv
<1> QED
  BY <1>1, DeliveryHolds, PTL

(* A channel has one command under way at a time, with any number of         *)
(* workers: of two jobs of a channel, one is before the other, and the later *)
(* was taken up only once the earlier had ended.                             *)
THEOREM OneCommandAtATime == DeliverySpec => []OneOutstanding
<1>1. DeliveryInv => OneOutstanding
  <2> SUFFICES ASSUME DeliveryInv, NEW i \in Jobs, NEW j \in Jobs,
                      job[i].status \in {"SENDING", "SENT"}, job[j].status \in {"SENDING", "SENT"},
                      job[i].channel = job[j].channel
               PROVE  i = j
    BY DEF OneOutstanding
  <2>1. EarlierSettled(i) /\ EarlierSettled(j) /\ ~Settled(i) /\ ~Settled(j)
    BY DEF DeliveryInv, StartedInTurn, Settled
  <2>2. ~Before(i, j) /\ ~Before(j, i)
    BY <2>1 DEF EarlierSettled
  <2>3. i[1] = j[1] /\ i[2] = j[2]
    BY <2>2, JobShape DEF Before
  <2> QED
    BY <2>3, JobShape
<1> QED
  BY <1>1, DeliveryHolds, PTL

-----------------------------------------------------------------------------
(* The refinement of OrderedDelivery *)

Lane == [j \in Jobs |-> job[j].channel]
Outcome == [j \in Jobs |-> IF Settled(j) THEN job[j].status ELSE "OPEN"]
Order == {ij \in Jobs \X Jobs : Before(ij[1], ij[2])}

(* The empty queue is an empty promise. *)
LEMMA PromiseStarts == DeliveryInit => Promise!OrderedInit
<1> SUFFICES ASSUME DeliveryInit PROVE Promise!OrderedInit
  OBVIOUS
<1>1. \A j \in Jobs : job[j].channel = NoChannel /\ job[j].status = "NONE"
  BY DEF DeliveryInit, PublisherInit, NoJob, Untried
<1>2. Lane \in [Jobs -> Channels \cup {NoChannel}] /\ Outcome = [j \in Jobs |-> "OPEN"]
  BY <1>1 DEF Lane, Outcome, Settled
<1> QED
  BY <1>2 DEF Promise!OrderedInit, Lane, Outcome, DeliveryInit, WorkersInit

(* What the promise does not see. *)
LEMMA PromiseStutters ==
  ASSUME UNCHANGED sent,
         \A j \in Jobs : /\ job'[j].channel = job[j].channel
                         /\ job'[j].status = job[j].status \/ ~(Settled(j) \/ Settled(j)')
  PROVE  UNCHANGED Promise!orderedVars
<1>1. Lane' = Lane /\ Outcome' = Outcome
  BY DEF Lane, Outcome, Settled
<1> QED
  BY <1>1 DEF Lane, Outcome, Promise!orderedVars

(* A job that has not ended is written, and does not end. *)
LEMMA QuietWrite ==
  ASSUME DeliveryInv, NEW j \in Jobs, ~Settled(j), NEW r, r.channel = job[j].channel,
         r.status \notin {"ACKNOWLEDGED", "CANCELLED"}, job' = [job EXCEPT ![j] = r],
         UNCHANGED sent
  PROVE  UNCHANGED Promise!orderedVars
<1>1. job'[j] = r /\ \A i \in Jobs : i # j => job'[i] = job[i]
  BY DEF DeliveryInv, DeliveryTypeOK
<1> QED
  BY <1>1, PromiseStutters DEF Settled

(* A job is queued when no later one is. *)
LEMMA PromiseQueues ==
  ASSUME DeliveryInv, NEW j \in Jobs, ~Exists(j), NEW c \in Channels,
         job' = [job EXCEPT ![j] = NewJob(c)], UNCHANGED sent
  PROVE  Promise!Queue(j, c)
<1>1. job'[j].channel = c /\ job'[j].status = "PENDING" /\ \A i \in Jobs : i # j => job'[i] = job[i]
  BY NewJobFields DEF DeliveryInv, DeliveryTypeOK
<1>2. \A i \in Jobs : ~Exists(i) => job[i].channel = NoChannel /\ job[i].status = "NONE"
  BY DEF DeliveryInv, QueueInv, PublisherTypeOK, NoJob, Untried
<1>3. Lane[j] = NoChannel /\ \A i \in Jobs : <<j, i>> \in Order => Lane[i] = NoChannel
  BY <1>2, NoLaterJob DEF Lane, Order, DeliveryInv
<1>4. Lane' = [Lane EXCEPT ![j] = c]
  <2>1. Lane = [i \in Jobs |-> Lane[i]] /\ Lane' = [i \in Jobs |-> job'[i].channel]
    BY DEF Lane
  <2>2. \A i \in Jobs : job'[i].channel = IF i = j THEN c ELSE Lane[i]
    BY <1>1 DEF Lane
  <2> QED
    BY <2>1, <2>2
<1>5. \A i \in Jobs : (Settled(i)' <=> Settled(i)) /\ (Settled(i) => job'[i] = job[i])
  BY <1>1, <1>2 DEF Settled
<1>6. Outcome' = Outcome
  BY <1>5 DEF Outcome
<1> QED
  BY <1>3, <1>4, <1>6 DEF Lane, Outcome, Order, Promise!Queue

(* What came before a job that exists on its channel has ended. *)
LEMMA PromisedTurn ==
  ASSUME DeliveryInv, NEW j \in Jobs, Exists(j), EarlierSettled(j)
  PROVE  Promise!ItsTurn(j)
<1>1. Lane[j] # NoChannel
  BY PublisherAssumption DEF Lane, DeliveryInv, QueueInv, PublisherTypeOK
<1>2. \A i \in Jobs : <<i, j>> \in Order /\ Lane[i] = Lane[j] => Outcome[i] # "OPEN"
  BY DEF EarlierSettled, Settled, Lane, Outcome, Order
<1> QED
  BY <1>1, <1>2 DEF Lane, Outcome, Order, Promise!ItsTurn

LEMMA PromiseSends ==
  ASSUME DeliveryInv, NEW j \in Jobs, Exists(j), EarlierSettled(j),
         sent' = sent \cup {j}, UNCHANGED job
  PROVE  Promise!SendCommand(j)
<1>1. Lane' = Lane /\ Outcome' = Outcome
  BY DEF Lane, Outcome, Settled
<1> QED
  BY <1>1, PromisedTurn DEF Lane, Outcome, Promise!SendCommand

LEMMA PromiseSettles ==
  ASSUME DeliveryInv, NEW j \in Jobs, NEW t, ClaimedBy(j, t), UNCHANGED sent,
         \/ job' = [job EXCEPT ![j] = Cancelled(@)]
         \/ job' = [job EXCEPT ![j] = Acknowledged(@)] /\ j \in sent
  PROVE  \E end \in {"ACKNOWLEDGED", "CANCELLED"} : Promise!Settle(j, end)
<1>1. Exists(j) /\ EarlierSettled(j) /\ ~Settled(j) /\ job[j] \in JobRecords
  BY DEF ClaimedBy, Exists, Settled, DeliveryInv, StartedInTurn, DeliveryTypeOK
<1>2. PICK end \in {"ACKNOWLEDGED", "CANCELLED"} :
        /\ job'[j].status = end /\ job'[j].channel = job[j].channel
        /\ end = "ACKNOWLEDGED" => j \in sent
        /\ \A i \in Jobs : i # j => job'[i] = job[i]
  <2>1. job \in [Jobs -> JobRecords]
    BY DEF DeliveryInv, DeliveryTypeOK
  <2>2. CASE job' = [job EXCEPT ![j] = Cancelled(@)]
    <3>1. job'[j] = Cancelled(job[j]) /\ \A i \in Jobs : i # j => job'[i] = job[i]
      BY <2>1, <2>2
    <3>2. job'[j].status = "CANCELLED" /\ job'[j].channel = job[j].channel
      BY <1>1, <3>1 DEF Cancelled, JobRecords
    <3> QED
      BY <3>1, <3>2
  <2>3. CASE job' = [job EXCEPT ![j] = Acknowledged(@)] /\ j \in sent
    <3>1. job'[j] = Acknowledged(job[j]) /\ \A i \in Jobs : i # j => job'[i] = job[i]
      BY <2>1, <2>3
    <3>2. job'[j].status = "ACKNOWLEDGED" /\ job'[j].channel = job[j].channel
      BY <1>1, <3>1 DEF Acknowledged, JobRecords
    <3> QED
      BY <2>3, <3>1, <3>2
  <2> QED
    BY <2>2, <2>3
<1>3. Lane' = Lane /\ Outcome' = [Outcome EXCEPT ![j] = end] /\ Outcome[j] = "OPEN"
  BY <1>1, <1>2 DEF Lane, Outcome, Settled
<1>4. Promise!Settle(j, end)
  BY <1>1, <1>2, <1>3, PromisedTurn DEF Lane, Outcome, Promise!Settle
<1> QED
  BY <1>4

(* Each step is one of the promise or none. *)
LEMMA PromiseOfWorker ==
  ASSUME DeliveryInv, NEW w \in Workers, Works(w)
  PROVE  Promise!OrderedNext \/ UNCHANGED Promise!orderedVars
<1> DEFINE j == worker[w].job
<1>1. worker[w].step # "IDLE" =>
        /\ j \in Jobs /\ Exists(j) /\ job[j] \in JobRecords
        /\ worker[w] \in WorkerStates /\ WorkerFits(worker[w])
  BY Holds
<1>2. UNCHANGED <<job, sent>> => UNCHANGED Promise!orderedVars
  BY PromiseStutters
<1>3. CASE FindCandidate(w) \/ LockChannel(w) \/ Reread(w) \/ Validate(w)
  BY <1>2, <1>3 DEF FindCandidate, LockChannel, Reread, Validate, publisherVars
<1>4. CASE ClaimJob(w)
  <2>1. j \in Jobs /\ job[j] \in JobRecords /\ worker[w] \in WorkerStates
    BY <1>1, <1>4 DEF ClaimJob, At
  <2>2. CASE /\ job[j].status = worker[w].status
             /\ job' = [job EXCEPT ![j].status = "SENDING", ![j].token = worker[w].token]
    <3> DEFINE r == [job[j] EXCEPT !.status = "SENDING", !.token = worker[w].token]
    <3>1. r.channel = job[j].channel /\ r.status = "SENDING" /\ job' = [job EXCEPT ![j] = r]
      BY <2>1, <2>2 DEF JobRecords
    <3>2. ~Settled(j) /\ UNCHANGED sent
      BY <1>4, <2>1, <2>2 DEF Settled, WorkerStates, ClaimJob
    <3> QED
      BY <2>1, <3>1, <3>2, QuietWrite
  <2> QED
    BY <1>2, <1>4, <2>2 DEF ClaimJob
<1>5. CASE MarkSent(w)
  <2>1. j \in Jobs /\ job[j] \in JobRecords
    BY <1>1, <1>5 DEF MarkSent, At
  <2>2. CASE job[j].status = "SENDING" /\ job' = [job EXCEPT ![j].status = "SENT"]
    <3> DEFINE r == [job[j] EXCEPT !.status = "SENT"]
    <3>1. r.channel = job[j].channel /\ r.status = "SENT" /\ job' = [job EXCEPT ![j] = r]
      BY <2>1, <2>2 DEF JobRecords
    <3>2. ~Settled(j) /\ UNCHANGED sent
      BY <1>5, <2>2 DEF Settled, MarkSent
    <3> QED
      BY <2>1, <3>1, <3>2, QuietWrite
  <2> QED
    BY <1>2, <1>5, <2>2 DEF MarkSent
<1>6. CASE Cancel(w)
  <2>1. j \in Jobs /\ UNCHANGED sent
    BY <1>1, <1>6 DEF Cancel, At
  <2>2. CASE ClaimedBy(j, worker[w].token) /\ job' = [job EXCEPT ![j] = Cancelled(@)]
    BY <2>1, <2>2, PromiseSettles DEF Promise!OrderedNext
  <2> QED
    BY <1>2, <1>6, <2>1, <2>2 DEF Cancel
<1>7. CASE Fail(w)
  <2>1. j \in Jobs /\ job[j] \in JobRecords /\ UNCHANGED sent
    BY <1>1, <1>7 DEF Fail, At
  <2>2. ASSUME ClaimedBy(j, worker[w].token), NEW r \in {Rejected(job[j]), Failed(job[j])},
               job' = [job EXCEPT ![j] = r]
        PROVE  UNCHANGED Promise!orderedVars
    <3>1. ~Settled(j) /\ Exists(j)
      BY <2>2 DEF ClaimedBy, Settled, Exists
    <3>2. r.channel = job[j].channel
      BY <2>1, <2>2, EndFields
    <3>3. r.status = "FAILED"
      BY <2>1, <2>2 DEF Rejected, Failed, JobRecords
    <3> QED
      BY <2>1, <2>2, <3>1, <3>2, <3>3, QuietWrite
  <2>3. CASE ClaimedBy(j, worker[w].token)
    <3>1. CASE worker[w].attempts + 1 >= MaxAttempts
      BY <1>7, <2>2, <2>3, <3>1 DEF Fail
    <3>2. CASE ~(worker[w].attempts + 1 >= MaxAttempts)
      BY <1>7, <2>2, <2>3, <3>2 DEF Fail
    <3> QED
      BY <3>1, <3>2
  <2> QED
    BY <1>2, <1>7, <2>1, <2>3 DEF Fail
<1>8. CASE Send(w) \/ SendError(w)
  <2>1. j \in Jobs /\ Exists(j) /\ EarlierSettled(j) /\ UNCHANGED job
    BY <1>1, <1>8 DEF Send, SendError, At, WorkerFits, publisherVars
  <2>2. sent' = sent \cup {j} \/ UNCHANGED sent
    BY <1>8 DEF Send, SendError
  <2> QED
    BY <1>2, <2>1, <2>2, PromiseSends DEF Promise!OrderedNext
<1> QED
  BY <1>3, <1>4, <1>5, <1>6, <1>7, <1>8 DEF Works

LEMMA PromiseOfAnswer ==
  ASSUME DeliveryInv, NEW w \in Workers, NEW d \in pending[w], NEW answer,
         HandleReceipt(w, d, answer)
  PROVE  Promise!OrderedNext \/ UNCHANGED Promise!orderedVars
<1>1. d[1] \in Jobs /\ d[1] \in sent /\ job[d[1]] \in JobRecords /\ UNCHANGED sent
  BY Unmoved DEF HandleReceipt, DeliveryInv, DeliveryTypeOK
<1>2. CASE UNCHANGED job
  BY <1>1, <1>2, PromiseStutters
<1>3. CASE ClaimedBy(d[1], d[2]) /\ job' = [job EXCEPT ![d[1]] = Acknowledged(@)]
  BY <1>1, <1>3, PromiseSettles DEF Promise!OrderedNext
<1>4. CASE ClaimedBy(d[1], d[2]) /\ job' = [job EXCEPT ![d[1]] = Rejected(@)]
  <2>1. ~Settled(d[1])
    BY <1>4 DEF ClaimedBy, Settled
  <2>2. Rejected(job[d[1]]).channel = job[d[1]].channel
    BY <1>1, EndFields
  <2>3. Rejected(job[d[1]]).status = "FAILED"
    BY <1>1 DEF Rejected, JobRecords
  <2> QED
    BY <1>1, <1>4, <2>1, <2>2, <2>3, QuietWrite
<1>5. CASE answer = "OK"
  BY <1>2, <1>3, <1>5 DEF HandleReceipt
<1>6. CASE answer # "OK"
  BY <1>2, <1>4, <1>6 DEF HandleReceipt
<1> QED
  BY <1>5, <1>6

LEMMA PromiseStep ==
  ASSUME DeliveryInv, [DeliveryNext]_deliveryVars
  PROVE  [Promise!OrderedNext]_Promise!orderedVars
<1>1. UNCHANGED <<job, sent>> => UNCHANGED Promise!orderedVars
  BY PromiseStutters
<1>2. CASE PublisherNext /\ UNCHANGED workVars
  <2>1. UNCHANGED sent /\ QueueInv
    BY <1>2 DEF workVars, DeliveryInv
  <2>2. ASSUME NEW p \in Publishers, NextJob(p) \in Jobs, ~Exists(NextJob(p)),
               pub[p].channel \in Channels,
               job' = [job EXCEPT ![NextJob(p)] = NewJob(pub[p].channel)]
        PROVE  Promise!OrderedNext
    BY <2>1, <2>2, PromiseQueues DEF Promise!OrderedNext
  <2> QED
    BY <1>1, <1>2, <2>1, <2>2, PublisherWrites
<1>3. ASSUME NEW w \in Workers, Works(w) PROVE [Promise!OrderedNext]_Promise!orderedVars
  BY <1>3, PromiseOfWorker
<1>4. ASSUME NEW w \in Workers, Answers(w) PROVE [Promise!OrderedNext]_Promise!orderedVars
  BY <1>4, PromiseOfAnswer DEF Answers
<1>5. ASSUME NEW w \in Workers, Disconnect(w) \/ Abandon(w)
      PROVE  [Promise!OrderedNext]_Promise!orderedVars
  BY <1>1, <1>5 DEF Disconnect, Abandon, publisherVars
<1>6. ASSUME NEW c \in Channels, LockLapses(c) PROVE [Promise!OrderedNext]_Promise!orderedVars
  BY <1>1, <1>6 DEF LockLapses, publisherVars
<1>7. ASSUME NEW j \in Jobs, Retry(j) PROVE [Promise!OrderedNext]_Promise!orderedVars
  <2> DEFINE r == [job[j] EXCEPT !.status = "PENDING", !.automatic = TRUE]
  <2>1. job[j] \in JobRecords /\ ~Settled(j) /\ UNCHANGED sent
    BY <1>7 DEF Retry, Settled, workVars, DeliveryInv, DeliveryTypeOK
  <2>2. r.channel = job[j].channel /\ r.status = "PENDING" /\ job' = [job EXCEPT ![j] = r]
    BY <1>7, <2>1 DEF Retry, JobRecords
  <2> QED
    BY <2>1, <2>2, QuietWrite
<1>8. CASE UNCHANGED deliveryVars
  BY <1>1, <1>8 DEF deliveryVars, publisherVars, workVars
<1> QED
  BY <1>2, <1>3, <1>4, <1>5, <1>6, <1>7, <1>8 DEF DeliveryNext

(***************************************************************************)
(* The commands of a match reach their channels in the order of the match: *)
(* no race of publishers or workers, no lost lock and no retry lets a      *)
(* command overtake one that its channel is not done with.                 *)
(***************************************************************************)
THEOREM CommandsKeepOrder == DeliverySpec => KeepsOrder
  BY PromiseStarts, PromiseStep, DeliveryHolds, PTL DEF DeliverySpec, KeepsOrder, Promise!OrderedSpec
=============================================================================
