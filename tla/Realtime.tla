------------------------------- MODULE Realtime ------------------------------
(***************************************************************************)
(* The realtime gateway over the command store: a subscriber is sent one   *)
(* snapshot and then every later event, each with the state it led to.     *)
(* The gateway takes no part in the transactions of the store.  It reads   *)
(* the snapshot, then the number of its last event, and then polls; the    *)
(* store may commit between any two of these accesses.                     *)
(*                                                                         *)
(* Authorization and the limits on connections only decide who may         *)
(* subscribe and are left out; so is the wording of messages.              *)
(***************************************************************************)
EXTENDS CommandStore, FiniteSets

CONSTANTS
  Subscribers,
  PageSize,  \* how many events one poll reads
  Watched    \* the event numbers EventsReachSubscribers looks at

ASSUME RealtimeAssumption == PageSize \in Nat \ {0} /\ Watched \subseteq Nat

VARIABLE feed  \* each subscriber's connection

storeVars == vars
realtimeVars == <<storeVars, feed>>

(***************************************************************************)
(* A view is what the client was last sent: a version with its state, and  *)
(* the number of the event that led there.  The gateway's `next` is that   *)
(* number and one.                                                         *)
(***************************************************************************)
NoView == [version |-> 0, state |-> <<>>, sequence |-> 0]

Feed(step, view, baseline, batch, end) ==
  [step |-> step, view |-> view, baseline |-> baseline, batch |-> batch, end |-> end]

Closed(end) == Feed("OFF", NoView, 0, {}, end)

Live(s) == feed[s].step = "LIVE"

(* LatestEventSequenceAtVersion. *)
SequenceAt(version) ==
  LET upTo == {e \in outbox : e.version <= version} IN
  CHOOSE n \in {0} \cup {e.sequence : e \in upTo} : \A e \in upTo : e.sequence <= n

(* ListEventsAfter: the first events after a number, a page of them at most. *)
Page(number) ==
  LET after == {e \in outbox : e.sequence > number} IN
  {e \in after : Cardinality({f \in after : f.sequence < e.sequence}) < PageSize}

-----------------------------------------------------------------------------
(* The connection loads the snapshot. *)
Subscribe(s) ==
  /\ feed[s].step = "OFF"
  /\ feed' = [feed EXCEPT ![s] =
       Feed("LOADED", [version |-> snapshot.version, state |-> snapshot.state, sequence |-> 0],
            0, {}, "NONE")]
  /\ UNCHANGED storeVars

(* Fault: the baseline is the number of the latest event there is. *)
BaselineIsLatest(s) ==
  /\ feed[s].step = "LOADED"
  /\ LET n == LastSequence IN
     feed' = [feed EXCEPT ![s].step = "LIVE", ![s].view.sequence = n, ![s].baseline = n]
  /\ UNCHANGED storeVars

(* The snapshot is sent with the number of the last event it includes. *)
Baseline(s) ==
  /\ feed[s].step = "LOADED"
  /\ LET n == SequenceAt(feed[s].view.version) IN
     feed' = [feed EXCEPT ![s].step = "LIVE", ![s].view.sequence = n, ![s].baseline = n]
  /\ UNCHANGED storeVars

(* Fault: every poll reads from where the subscription began. *)
PollFromBaseline(s) ==
  /\ Live(s) /\ feed[s].batch = {}
  /\ feed' = [feed EXCEPT ![s].batch = Page(feed[s].baseline)]
  /\ UNCHANGED storeVars

(* Fault: a poll reads the newest events. *)
PollNewest(s) ==
  /\ Live(s) /\ feed[s].batch = {}
  /\ LET after == {e \in outbox : e.sequence > feed[s].view.sequence} IN
     feed' = [feed EXCEPT ![s].batch =
                {e \in after : Cardinality({f \in after : f.sequence > e.sequence}) < PageSize}]
  /\ UNCHANGED storeVars

(* A tick of the poll; one that fails reports it and changes nothing. *)
Poll(s) ==
  /\ Live(s) /\ feed[s].batch = {}
  /\ feed' = [feed EXCEPT ![s].batch = Page(feed[s].view.sequence)]
  /\ UNCHANGED storeVars

(* The event is sent with the state the receipt of its version holds. *)
Delivered(f, e, x) ==
  [f EXCEPT !.view = [version |-> e.version, state |-> x.state, sequence |-> e.sequence],
            !.batch = @ \ {e}]

(***************************************************************************)
(* The next event of the page, in the order of numbers.  One that was sent *)
(* is passed over; one that is not the next, or whose state is not there,  *)
(* ends the subscription.                                                  *)
(***************************************************************************)
Deliver(s) ==
  LET f == feed[s] IN
  /\ Live(s)
  /\ \E e \in f.batch :
       /\ \A other \in f.batch : e.sequence <= other.sequence
       /\ LET found == {x \in receipts : x.version = e.version /\ Len(x.state) = x.version} IN
          feed' = [feed EXCEPT ![s] =
            IF e.sequence <= f.view.sequence THEN [f EXCEPT !.batch = @ \ {e}]
            ELSE IF e.sequence # f.view.sequence + 1 THEN Closed("GAP")
            ELSE IF found = {} THEN Closed("MISSING")
            ELSE Delivered(f, e, CHOOSE x \in found : TRUE)]
  /\ UNCHANGED storeVars

(* The client leaves, or a write to it fails, or a read of the database. *)
Leave(s) ==
  /\ feed[s].step # "OFF"
  /\ feed' = [feed EXCEPT ![s] = Closed("LEFT")]
  /\ UNCHANGED storeVars

-----------------------------------------------------------------------------
RealtimeInit == Init /\ feed = [s \in Subscribers |-> Closed("NONE")]

Serves(s) == Subscribe(s) \/ Baseline(s) \/ Poll(s) \/ Deliver(s) \/ Leave(s)

RealtimeNext == (Next /\ UNCHANGED feed) \/ \E s \in Subscribers : Serves(s)

RealtimeSpec == RealtimeInit /\ [][RealtimeNext]_realtimeVars

(* The gateway's goroutine polls on a ticker as long as its connection is    *)
(* open, and goes through each page without waiting for anything else.       *)
FairRealtime ==
  /\ RealtimeSpec
  /\ \A s \in Subscribers : WF_realtimeVars(Poll(s)) /\ WF_realtimeVars(Deliver(s))

-----------------------------------------------------------------------------
(* Properties *)

Views == [version : Nat, state : Seq(Bodies), sequence : Nat]

(* Types; a page under way is a part of the outbox, and only an open         *)
(* subscription has one.                                                     *)
FeedTypeOK ==
  /\ feed \in [Subscribers -> [step : {"OFF", "LOADED", "LIVE"}, view : Views, baseline : Nat,
                               batch : SUBSET outbox, end : {"NONE", "GAP", "MISSING", "LEFT"}]]
  /\ \A s \in Subscribers : ~Live(s) => feed[s].batch = {}

(* What a client sees is a state the match was in, and the events still to   *)
(* come are those that lead on from it: none that belongs to a later version *)
(* is taken as included, none of an earlier version is still to be sent, no  *)
(* matter what was committed between the two reads of a subscription.        *)
ViewIsConsistent ==
  \A s \in Subscribers : Live(s) =>
    LET view == feed[s].view IN
    /\ view.version <= snapshot.version
    /\ view.state = SubSeq(snapshot.state, 1, view.version)
    /\ \A e \in outbox : e.sequence <= view.sequence => e.version <= view.version
    /\ \A e \in outbox : e.sequence > view.sequence => e.version >= view.version

(* A stream has no gap.  No subscriber is told to start over because of one  *)
(* in the numbers or a state that is not there, and none is kept from it:    *)
(* with pages, retries and racing commands, the view of a subscriber that    *)
(* stays moves on by one event at a time, and with it by no state of the     *)
(* match or by the one that follows.                                         *)
StreamIsGapless ==
  [][\A s \in Subscribers :
       LET view == feed[s].view
           next == feed'[s].view
       IN  /\ feed'[s].end \notin {"GAP", "MISSING"}
           /\ Live(s) /\ Live(s)' /\ next # view =>
                /\ next.sequence = view.sequence + 1
                /\ \/ next.version = view.version /\ next.state = view.state
                   \/ /\ next.version = view.version + 1
                      /\ view.state = SubSeq(next.state, 1, view.version)]_realtimeVars

(* Every event of the match reaches every subscriber that stays, however     *)
(* many came in before a poll.                                               *)
EventsReachSubscribers ==
  \A s \in Subscribers, n \in Watched :
    Live(s) /\ (\E e \in outbox : e.sequence = n) ~> (~Live(s) \/ feed[s].view.sequence >= n)
=============================================================================
