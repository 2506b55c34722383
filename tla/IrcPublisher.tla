---------------------------- MODULE IrcPublisher -----------------------------
(***************************************************************************)
(* From the outbox of one match to the queue of IRC jobs.  Every server    *)
(* runs a publisher that takes the earliest event that is not published,   *)
(* plans the commands it asks Bancho for, enqueues them one by one and     *)
(* then marks the event.  Publishers work without a lock, so any of them   *)
(* may stop, or another may do the same work, between two of these steps;  *)
(* and a referee may change the multiplayer link at any time.              *)
(*                                                                         *)
(* The texts of the commands are left out: a job is the number of its      *)
(* event and its place among the jobs of that event.                       *)
(***************************************************************************)
EXTENDS Naturals

CONSTANTS
  LastEvent,   \* the number of the last event of the match
  JobCount,    \* how many commands each event asks for
  Publishers,
  Channels,    \* the channels of multiplayer rooms
  NoChannel,   \* no multiplayer link is set
  NoToken      \* a job no worker has claimed

Events == 1..LastEvent

ASSUME PublisherAssumption ==
  /\ LastEvent \in Nat
  /\ JobCount \in [Events -> Nat]
  /\ NoChannel \notin Channels

VARIABLES
  event,  \* the publication status of each event
  job,    \* the queue: a record for each job there may be
  link,   \* the channel of the room's multiplayer link
  pub     \* what each publisher is doing

publisherVars == <<event, job, link, pub>>

Jobs == UNION {{e} \X (1..JobCount[e]) : e \in Events}

Before(i, j) == i[1] < j[1] \/ (i[1] = j[1] /\ i[2] < j[2])

Exists(j) == job[j].status # "NONE"

Untried(status, c) ==
  [status |-> status, channel |-> c, attempts |-> 0, automatic |-> TRUE, token |-> NoToken]

NoJob == Untried("NONE", NoChannel)
NewJob(c) == Untried("PENDING", c)

Idle == [step |-> "IDLE", event |-> 0, channel |-> NoChannel, place |-> 0]

(* The job a publisher enqueues next. *)
NextJob(p) == <<pub[p].event, pub[p].place>>

-----------------------------------------------------------------------------
(* A command commits and its next event is in the outbox. *)
Commit(e) ==
  /\ event[e] = "ABSENT" /\ \A earlier \in 1..(e - 1) : event[earlier] # "ABSENT"
  /\ event' = [event EXCEPT ![e] = "PENDING"]
  /\ UNCHANGED <<job, link, pub>>

(* Fault: the earliest pending event is taken, past those that failed. *)
ListPendingEvents(p) ==
  /\ pub[p].step = "IDLE"
  /\ \E e \in Events :
       /\ event[e] = "PENDING" /\ \A earlier \in 1..(e - 1) : event[earlier] # "PENDING"
       /\ pub' = [pub EXCEPT ![p] = [Idle EXCEPT !.step = "PLAN", !.event = e]]
  /\ UNCHANGED <<event, job, link>>

(* The earliest event that is not published, unless it has failed. *)
ListUnpublishedEvents(p) ==
  /\ pub[p].step = "IDLE"
  /\ \E e \in Events :
       /\ event[e] = "PENDING" /\ \A earlier \in 1..(e - 1) : event[earlier] = "PUBLISHED"
       /\ pub' = [pub EXCEPT ![p] = [Idle EXCEPT !.step = "PLAN", !.event = e]]
  /\ UNCHANGED <<event, job, link>>

(***************************************************************************)
(* An event without commands needs nothing more.  The channel of the       *)
(* others is that of the link now; without one, or when the match, the     *)
(* room or a player cannot be read, there is no plan.                      *)
(***************************************************************************)
Plan(p) ==
  LET count == JobCount[pub[p].event] IN
  /\ pub[p].step = "PLAN"
  /\ \/ /\ count = 0
        /\ pub' = [pub EXCEPT ![p].step = "PUBLISH"]
     \/ /\ count > 0 /\ link # NoChannel
        /\ pub' = [pub EXCEPT ![p].step = "ENQUEUE", ![p].channel = link, ![p].place = 1]
     \/ /\ count > 0
        /\ pub' = [pub EXCEPT ![p].step = "FAIL"]
  /\ UNCHANGED <<event, job, link>>

(* Fault: whatever is stored under the id will do. *)
EnqueueUnchecked(p) ==
  LET j == NextJob(p) IN
  /\ pub[p].step = "ENQUEUE"
  /\ job' = [job EXCEPT ![j] = IF Exists(j) THEN @ ELSE NewJob(pub[p].channel)]
  /\ pub' = [pub EXCEPT ![p].place = @ + 1,
                        ![p].step = IF j[2] = JobCount[j[1]] THEN "PUBLISH" ELSE "ENQUEUE"]
  /\ UNCHANGED <<event, link>>

(* The job is inserted unless it exists, and what is stored must be it. *)
Enqueue(p) ==
  LET j == NextJob(p) IN
  /\ pub[p].step = "ENQUEUE"
  /\ Exists(j) => job[j].channel = pub[p].channel
  /\ job' = [job EXCEPT ![j] = IF Exists(j) THEN @ ELSE NewJob(pub[p].channel)]
  /\ pub' = [pub EXCEPT ![p].place = @ + 1,
                        ![p].step = IF j[2] = JobCount[j[1]] THEN "PUBLISH" ELSE "ENQUEUE"]
  /\ UNCHANGED <<event, link>>

(* The job is stored for another channel. *)
EnqueueMismatch(p) ==
  LET j == NextJob(p) IN
  /\ pub[p].step = "ENQUEUE"
  /\ Exists(j) /\ job[j].channel # pub[p].channel
  /\ pub' = [pub EXCEPT ![p].step = "FAIL"]
  /\ UNCHANGED <<event, job, link>>

(* The database fails, before or after the job was inserted. *)
EnqueueError(p) ==
  LET j == NextJob(p) IN
  /\ pub[p].step = "ENQUEUE"
  /\ \/ job' = job
     \/ ~Exists(j) /\ job' = [job EXCEPT ![j] = NewJob(pub[p].channel)]
  /\ pub' = [pub EXCEPT ![p].step = "FAIL"]
  /\ UNCHANGED <<event, link>>

MarkEventPublished(p) ==
  LET e == pub[p].event IN
  /\ pub[p].step = "PUBLISH"
  /\ event' = [event EXCEPT ![e] = IF @ \in {"PENDING", "FAILED"} THEN "PUBLISHED" ELSE @]
  /\ pub' = [pub EXCEPT ![p] = Idle]
  /\ UNCHANGED <<job, link>>

MarkEventFailed(p) ==
  LET e == pub[p].event IN
  /\ pub[p].step = "FAIL"
  /\ event' = [event EXCEPT ![e] = IF @ # "PUBLISHED" THEN "FAILED" ELSE @]
  /\ pub' = [pub EXCEPT ![p] = Idle]
  /\ UNCHANGED <<job, link>>

(* The server stops, or the write that would end the round fails. *)
StopPublisher(p) ==
  /\ pub[p].step # "IDLE"
  /\ pub' = [pub EXCEPT ![p] = Idle]
  /\ UNCHANGED <<event, job, link>>

(* A referee retries the automation of the match. *)
RetryFailedEvent(e) ==
  /\ event[e] = "FAILED"
  /\ event' = [event EXCEPT ![e] = "PENDING"]
  /\ UNCHANGED <<job, link, pub>>

(* The link may be set while the match is under way, and is never cleared. *)
SetMPLink(c) ==
  /\ link' = c
  /\ UNCHANGED <<event, job, pub>>

-----------------------------------------------------------------------------
PublisherInit ==
  /\ event = [e \in Events |-> "ABSENT"]
  /\ job = [j \in Jobs |-> NoJob]
  /\ link \in Channels \cup {NoChannel}
  /\ pub = [p \in Publishers |-> Idle]

Publishes(p) ==
  \/ Plan(p) \/ Enqueue(p) \/ EnqueueMismatch(p) \/ EnqueueError(p)
  \/ MarkEventPublished(p) \/ MarkEventFailed(p)

PublisherNext ==
  \/ \E e \in Events : Commit(e) \/ RetryFailedEvent(e)
  \/ \E p \in Publishers : ListUnpublishedEvents(p) \/ Publishes(p) \/ StopPublisher(p)
  \/ \E c \in Channels : SetMPLink(c)

PublisherSpec == PublisherInit /\ [][PublisherNext]_publisherVars

-----------------------------------------------------------------------------
(* Properties *)

PublisherStates ==
  [step : {"IDLE", "PLAN", "ENQUEUE", "PUBLISH", "FAIL"}, event : {0} \cup Events,
   channel : Channels \cup {NoChannel}, place : Nat]

(* Types; a job has a channel from when it is enqueued. *)
PublisherTypeOK ==
  /\ event \in [Events -> {"ABSENT", "PENDING", "PUBLISHED", "FAILED"}]
  /\ job = [j \in Jobs |-> job[j]]
  /\ \A j \in Jobs : IF Exists(j) THEN job[j].channel \in Channels ELSE job[j] = NoJob
  /\ link \in Channels \cup {NoChannel}
  /\ pub \in [Publishers -> PublisherStates]

(* Commands are enqueued in the order of the match, whatever publishers stop *)
(* or race: an event is published once all its jobs exist, and a job exists  *)
(* only if the events before its own are published and the jobs before it    *)
(* exist (ListUnpublishedEvents, RunOnce: a failed event blocks later ones). *)
PublishedInOrder ==
  /\ \A j \in Jobs : event[j[1]] = "PUBLISHED" => Exists(j)
  /\ \A j \in Jobs : Exists(j) =>
       /\ \A e \in 1..(j[1] - 1) : event[e] = "PUBLISHED"
       /\ \A i \in Jobs : Before(i, j) => Exists(i)

(* The commands of one event go to one channel, though its publisher may     *)
(* stop half way and the link be changed before another continues (Enqueue   *)
(* compares the stored job with its own).                                    *)
OneChannelPerEvent ==
  \A i, j \in Jobs : i[1] = j[1] /\ Exists(i) /\ Exists(j) => job[i].channel = job[j].channel
=============================================================================
