--------------------------- MODULE RealtimeProofs ---------------------------
(***************************************************************************)
(* Proofs about Realtime for any number of subscribers, callers, commands, *)
(* and events, and pages of any size.                                      *)
(***************************************************************************)
EXTENDS Realtime, CommandStoreProofs, FiniteSetTheorems, WellFoundedInduction

(***************************************************************************)
(* What the properties rest on: a snapshot that was loaded is a past state *)
(* by the time its number is asked for, no view is ahead of the outbox,    *)
(* and a page leaves nothing out between the view and its last event.      *)
(***************************************************************************)
IsPast(view) ==
  /\ view.version <= snapshot.version
  /\ view.state = SubSeq(snapshot.state, 1, view.version)

LoadedIsPast == \A s \in Subscribers : feed[s].step = "LOADED" => IsPast(feed[s].view)

ViewIsNumbered == \A s \in Subscribers : Live(s) => feed[s].view.sequence <= LastSequence

PagesFollow ==
  \A s \in Subscribers : \A e \in feed[s].batch :
    /\ e.sequence > feed[s].view.sequence
    /\ \A f \in outbox : feed[s].view.sequence < f.sequence /\ f.sequence < e.sequence =>
         f \in feed[s].batch

NoGapTold == \A s \in Subscribers : feed[s].end \notin {"GAP", "MISSING"}

FeedInv ==
  /\ FeedTypeOK
  /\ LoadedIsPast
  /\ ViewIsNumbered
  /\ ViewIsConsistent
  /\ PagesFollow
  /\ NoGapTold

-----------------------------------------------------------------------------
(* The two queries *)

(* Every nonempty set of naturals has a least element. *)
LEMMA LeastNatural ==
  ASSUME NEW T \in SUBSET Nat, T # {}
  PROVE  \E m \in T : \A n \in T : m <= n
<1>1. \E m \in T : \A n \in T : <<n, m>> \notin OpToRel(<, Nat)
  BY NatLessThanWellFounded, WFMin
<1>2. \A m, n \in Nat : <<n, m>> \in OpToRel(<, Nat) <=> n < m
  BY DEF OpToRel
<1>3. PICK m \in T : \A n \in T : <<n, m>> \notin OpToRel(<, Nat)
  BY <1>1
<1>4. \A n \in T : m <= n
  <2> TAKE n \in T
  <2>1. m \in Nat /\ n \in Nat /\ ~(n < m)
    BY <1>2, <1>3
  <2> QED
    BY <2>1
<1> QED
  BY <1>4

(* What is known of the outbox, in the types of its elements. *)
LEMMA OutboxFacts ==
  ASSUME StoreInv
  PROVE  /\ LastSequence \in Nat /\ snapshot.version \in Nat
         /\ \A e \in outbox : /\ e.sequence \in 1..LastSequence
                              /\ e.version \in 1..snapshot.version
         /\ \A n \in 1..LastSequence : \E e \in outbox : e.sequence = n
         /\ \A e, f \in outbox : e.sequence = f.sequence => e = f
         /\ \A e, f \in outbox : e.sequence < f.sequence => e.version <= f.version
<1>1. LastSequence \in Nat /\ snapshot.version \in Nat
  BY DEF StoreInv, SequenceIsKnown, TypeOK
<1>2. {e.sequence : e \in outbox} = 1..LastSequence /\ {e.version : e \in outbox} = 1..snapshot.version
  BY DEF StoreInv, EventsInOrder
<1>3. \A n \in 1..LastSequence : \E e \in outbox : e.sequence = n
  BY <1>2
<1> QED
  BY <1>1, <1>2, <1>3 DEF StoreInv, EventsInOrder

(* The same of the numbers after a step. *)
LEMMA NextOutboxFacts ==
  ASSUME StoreInv'
  PROVE  /\ LastSequence' \in Nat
         /\ \A e \in outbox' : e.sequence \in 1..LastSequence' /\ e.version \in Nat
BY DEF StoreInv, SequenceIsKnown, EventsInOrder, TypeOK

(* The number of the last event up to a version: all events up to that       *)
(* number belong to the version or an earlier one, all others to later ones. *)
LEMMA SequenceSplits ==
  ASSUME StoreInv, NEW v \in Nat
  PROVE  /\ SequenceAt(v) \in 0..LastSequence
         /\ \A e \in outbox : e.sequence <= SequenceAt(v) <=> e.version <= v
<1> DEFINE upTo == {e \in outbox : e.version <= v}
           S == {0} \cup {e.sequence : e \in upTo}
           Bounds == {m \in Nat : \A e \in upTo : e.sequence <= m}
           n == SequenceAt(v)
<1>1. LastSequence \in Bounds
  BY OutboxFacts
<1>2. PICK m \in Bounds : \A k \in Bounds : m <= k
  BY <1>1, LeastNatural
<1>3. m \in S
  <2>1. CASE m = 0
    BY <2>1
  <2>2. CASE m # 0
    <3>1. m - 1 \in Nat /\ m - 1 \notin Bounds
      BY <1>2, <2>2
    <3>2. PICK e \in upTo : ~(e.sequence <= m - 1)
      BY <3>1
    <3>3. e.sequence = m
      BY <1>2, <3>2, OutboxFacts
    <3> QED
      BY <3>3
  <2> QED
    BY <2>1, <2>2
<1>4. n \in S /\ \A e \in upTo : e.sequence <= n
  BY <1>2, <1>3 DEF SequenceAt
<1>5. n = 0 \/ \E e \in upTo : e.sequence = n
  BY <1>4
<1> HIDE DEF n, S
<1>6. n \in 0..LastSequence
  BY <1>5, OutboxFacts
<1>7. ASSUME NEW e \in outbox, e.sequence <= n PROVE e.version <= v
  <2>1. PICK last \in upTo : last.sequence = n
    BY <1>5, <1>7, OutboxFacts
  <2>2. e.version <= last.version
    BY <1>6, <1>7, <2>1, OutboxFacts
  <2> QED
    BY <2>1, <2>2, OutboxFacts
<1> QED
  BY <1>4, <1>6, <1>7 DEF n

(* The outbox is finite, since its numbers are. *)
LEMMA OutboxIsFinite ==
  ASSUME StoreInv
  PROVE  IsFiniteSet(outbox)
<1> DEFINE f == [n \in 1..LastSequence |-> CHOOSE e \in outbox : e.sequence = n]
<1>1. \A n \in 1..LastSequence : f[n] \in outbox /\ f[n].sequence = n
  BY OutboxFacts
<1>2. \A e \in outbox : e.sequence \in 1..LastSequence /\ f[e.sequence] = e
  BY <1>1, OutboxFacts
<1>3. f \in Surjection(1..LastSequence, outbox)
  BY <1>1, <1>2 DEF Surjection
<1>4. IsFiniteSet(1..LastSequence)
  BY OutboxFacts, FS_Interval
<1> QED
  BY <1>3, <1>4, FS_Surjection

(* A page leaves no event out before its last one. *)
LEMMA PageFollows ==
  ASSUME StoreInv, NEW n \in Nat
  PROVE  /\ Page(n) \in SUBSET outbox
         /\ \A e \in Page(n) : e.sequence > n
         /\ \A e \in Page(n), f \in outbox : n < f.sequence /\ f.sequence < e.sequence => f \in Page(n)
<1> DEFINE after == {e \in outbox : e.sequence > n}
           Before(e) == {g \in after : g.sequence < e.sequence}
<1>1. Page(n) = {e \in after : Cardinality(Before(e)) < PageSize}
  BY DEF Page
<1>2. ASSUME NEW e \in Page(n), NEW f \in outbox, n < f.sequence, f.sequence < e.sequence
      PROVE  f \in Page(n)
  <2>1. e \in after /\ f \in after /\ Cardinality(Before(e)) < PageSize
    BY <1>1, <1>2, OutboxFacts
  <2>2. Before(f) \in SUBSET Before(e)
    BY <1>2, <2>1, OutboxFacts
  <2>3. IsFiniteSet(Before(e))
    BY OutboxIsFinite, FS_Subset
  <2>4. Cardinality(Before(f)) <= Cardinality(Before(e))
    BY <2>2, <2>3, FS_Subset
  <2>5. Cardinality(Before(f)) \in Nat /\ Cardinality(Before(e)) \in Nat
    BY <2>2, <2>3, FS_Subset, FS_CardinalityType
  <2>6. Cardinality(Before(f)) < PageSize
    BY <2>1, <2>4, <2>5, RealtimeAssumption
  <2> QED
    BY <1>1, <2>1, <2>6
<1> QED
  BY <1>1, <1>2

-----------------------------------------------------------------------------
(* The steps of the store *)

(* The store only adds: a step leaves what subscribers read as it is, or     *)
(* appends one version with events after all there were.                     *)
Grows ==
  /\ snapshot'.version = snapshot.version + 1
  /\ \A k \in 0..snapshot.version : SubSeq(snapshot'.state, 1, k) = SubSeq(snapshot.state, 1, k)
  /\ outbox \subseteq outbox'
  /\ \A e \in outbox' : e \in outbox \/ (e.sequence > LastSequence /\ e.version = snapshot.version + 1)
  /\ LastSequence <= LastSequence'

(* Every step of the store that changes what subscribers read is a commit. *)
LEMMA StoreGrows ==
  ASSUME StoreInv, StoreInv', [Next]_vars
  PROVE  UNCHANGED <<snapshot, receipts, outbox>> \/ Grows
<1> SUFFICES ASSUME NEW p \in Callers, At(p, "COMMIT"), snapshot = call[p].seen,
                    NEW count \in EventCounts, Writes(p, count)
             PROVE  Grows
  BY DEF Next, vars, Send, Lookup, Read, Commit
<1> DEFINE b == call[p].req.body
<1>1. /\ call[p].last = LastSequence
      /\ count \in Nat \ {0}
      /\ b \in Bodies
      /\ snapshot.state \in Seq(Bodies) /\ Len(snapshot.state) = snapshot.version
  BY CallTypes, StoreAssumption
     DEF StoreInv, ReadsAreCurrent, Calls, Requests, TypeOK, StateHasVersion
<1>2. /\ snapshot'.version = snapshot.version + 1
      /\ snapshot'.state = Append(snapshot.state, b)
      /\ outbox' = outbox \cup {[sequence |-> LastSequence + i, version |-> snapshot.version + 1] : i \in 1..count}
  BY <1>1 DEF Writes
<1> HIDE DEF b
<1>3. \A k \in 0..snapshot.version : SubSeq(snapshot'.state, 1, k) = SubSeq(snapshot.state, 1, k)
  BY <1>1, <1>2, OutboxFacts
<1>4. \A e \in outbox' : e \in outbox \/ (e.sequence > LastSequence /\ e.version = snapshot.version + 1)
  BY <1>1, <1>2, OutboxFacts
<1>5. LastSequence' \in Nat /\ (\A e \in outbox' : e.sequence \in 1..LastSequence')
  BY NextOutboxFacts
<1>6. LastSequence <= LastSequence'
  <2>1. CASE LastSequence = 0
    BY <1>5, <2>1
  <2>2. CASE LastSequence # 0
    <3>1. PICK e \in outbox : e.sequence = LastSequence
      BY <2>2, OutboxFacts
    <3> QED
      BY <1>2, <1>5, <3>1, OutboxFacts
  <2> QED
    BY <2>1, <2>2
<1> QED
  BY <1>2, <1>3, <1>4, <1>6 DEF Grows

(* What a subscriber has is untouched by a commit: its view stays past, the  *)
(* events after it stay after it, and its page stays whole.                  *)
LEMMA StoreKeepsFeeds ==
  ASSUME StoreInv, StoreInv', FeedInv, [Next]_vars, UNCHANGED feed
  PROVE  FeedInv'
<1>1. CASE UNCHANGED <<snapshot, receipts, outbox>>
  <2>1. LastSequence' = LastSequence
    BY <1>1 DEF LastSequence
  <2> QED
    BY <1>1, <2>1 DEF FeedInv, FeedTypeOK, LoadedIsPast, IsPast, ViewIsNumbered, ViewIsConsistent,
       PagesFollow, NoGapTold, Live, Views
<1>2. CASE Grows
  <2>1. FeedTypeOK'
    BY <1>2 DEF FeedInv, FeedTypeOK, Grows, Live, Views
  <2>2. \A s \in Subscribers : feed[s].view \in Views /\ feed[s].batch \subseteq outbox
    BY DEF FeedInv, FeedTypeOK
  <2>3. \A s \in Subscribers : IsPast(feed[s].view) => IsPast(feed[s].view)'
    <3> SUFFICES ASSUME NEW s \in Subscribers, IsPast(feed[s].view) PROVE IsPast(feed[s].view)'
      OBVIOUS
    <3>1. feed[s].view.version \in 0..snapshot.version
      BY <2>2, OutboxFacts DEF IsPast, Views
    <3> QED
      BY <1>2, <3>1, OutboxFacts DEF IsPast, Grows
  <2>4. LoadedIsPast'
    BY <2>3 DEF FeedInv, LoadedIsPast
  <2>5. ViewIsNumbered'
    BY <1>2, <2>2, OutboxFacts DEF FeedInv, ViewIsNumbered, Grows, Live, Views, StoreInv, SequenceIsKnown
  <2>6. ViewIsConsistent'
    <3> SUFFICES ASSUME NEW s \in Subscribers, Live(s)
                 PROVE  /\ IsPast(feed[s].view)'
                        /\ \A e \in outbox' : e.sequence <= feed[s].view.sequence =>
                             e.version <= feed[s].view.version
                        /\ \A e \in outbox' : e.sequence > feed[s].view.sequence =>
                             e.version >= feed[s].view.version
      BY DEF ViewIsConsistent, Live, IsPast
    <3>1. IsPast(feed[s].view)'
      BY <2>3 DEF FeedInv, ViewIsConsistent, IsPast
    <3>2. feed[s].view.sequence <= LastSequence /\ feed[s].view.version <= snapshot.version
      BY DEF FeedInv, ViewIsNumbered, ViewIsConsistent
    <3>3. feed[s].view.sequence \in Nat /\ feed[s].view.version \in Nat
      BY <2>2 DEF Views
    <3>4. \A e \in outbox : /\ e.sequence <= feed[s].view.sequence => e.version <= feed[s].view.version
                            /\ e.sequence > feed[s].view.sequence => e.version >= feed[s].view.version
      BY DEF FeedInv, ViewIsConsistent
    <3>5. \A e \in outbox' : e.sequence \in Nat /\ e.version \in Nat
      BY NextOutboxFacts
    <3> QED
      BY <1>2, <3>1, <3>2, <3>3, <3>4, <3>5, OutboxFacts DEF Grows
  <2>7. PagesFollow'
    <3>1. \A e \in outbox' : e.sequence \in Nat
      BY NextOutboxFacts
    <3> QED
      BY <1>2, <2>2, <3>1, OutboxFacts DEF FeedInv, PagesFollow, Grows
  <2>8. NoGapTold'
    BY DEF FeedInv, NoGapTold
  <2> QED
    BY <2>1, <2>4, <2>5, <2>6, <2>7, <2>8 DEF FeedInv
<1> QED
  BY <1>1, <1>2, StoreGrows

-----------------------------------------------------------------------------
(* The steps of the gateway *)

Feeds == [step : {"OFF", "LOADED", "LIVE"}, view : Views, baseline : Nat, batch : SUBSET outbox,
          end : {"NONE", "GAP", "MISSING", "LEFT"}]

(* What a step of the gateway has to show about its subscriber. *)
GoodFeed(f) ==
  /\ f \in Feeds
  /\ f.end \notin {"GAP", "MISSING"}
  /\ f.step # "LIVE" => f.batch = {}
  /\ f.step # "OFF" => IsPast(f.view)
  /\ f.step = "LIVE" =>
       /\ f.view.sequence <= LastSequence
       /\ \A e \in outbox : e.sequence <= f.view.sequence => e.version <= f.view.version
       /\ \A e \in outbox : e.sequence > f.view.sequence => e.version >= f.view.version
  /\ \A e \in f.batch :
       /\ e.sequence > f.view.sequence
       /\ \A g \in outbox : f.view.sequence < g.sequence /\ g.sequence < e.sequence => g \in f.batch

(* The invariant says of each subscriber that its connection is good. *)
LEMMA FeedsAreGood ==
  FeedInv <=> feed \in [Subscribers -> Feeds] /\ \A s \in Subscribers : GoodFeed(feed[s])
BY DEF FeedInv, FeedTypeOK, Feeds, GoodFeed, LoadedIsPast, ViewIsNumbered, ViewIsConsistent,
   PagesFollow, NoGapTold, Live, IsPast

(* A step that changes one connection only, to a good one, keeps the         *)
(* invariant.                                                                *)
LEMMA FeedStep ==
  ASSUME FeedInv, NEW s \in Subscribers, NEW f, GoodFeed(f),
         feed' = [feed EXCEPT ![s] = f], UNCHANGED storeVars
  PROVE  FeedInv'
<1>1. feed \in [Subscribers -> Feeds] /\ \A t \in Subscribers : GoodFeed(feed[t])
  BY FeedsAreGood
<1>2. f \in Feeds
  BY DEF GoodFeed
<1>3. UNCHANGED <<snapshot, outbox>> /\ LastSequence' = LastSequence
  BY DEF storeVars, vars, LastSequence
<1>4. feed' \in [Subscribers -> Feeds] /\ \A t \in Subscribers : feed'[t] = IF t = s THEN f ELSE feed[t]
  BY <1>1, <1>2
<1>5. \A t \in Subscribers : GoodFeed(feed'[t])
  BY <1>1, <1>4
<1>6. Feeds' = Feeds /\ \A t \in Subscribers : GoodFeed(feed[t])' <=> GoodFeed(feed'[t])
  BY <1>3 DEF Feeds, Views, GoodFeed, IsPast
<1>7. (feed \in [Subscribers -> Feeds] /\ \A t \in Subscribers : GoodFeed(feed[t]))'
  BY <1>4, <1>5, <1>6
<1> QED
  BY <1>7 DEF FeedInv, FeedTypeOK, Feeds, GoodFeed, LoadedIsPast, ViewIsNumbered, ViewIsConsistent,
     PagesFollow, NoGapTold, Live, IsPast

(* A connection that has ended is good, if it did not end because of a gap.  *)
LEMMA ClosedIsGood ==
  ASSUME NEW end \in {"NONE", "LEFT"}
  PROVE  GoodFeed(Closed(end))
<1>1. <<>> \in Seq(Bodies)
  OBVIOUS
<1> QED
  BY <1>1 DEF GoodFeed, Closed, Feed, Feeds, NoView, Views

(* The snapshot that is loaded is the current state. *)
LEMMA SubscribeStep ==
  ASSUME StoreInv, FeedInv, NEW s \in Subscribers, Subscribe(s)
  PROVE  FeedInv'
<1> DEFINE view == [version |-> snapshot.version, state |-> snapshot.state, sequence |-> 0]
           f == Feed("LOADED", view, 0, {}, "NONE")
<1>1. snapshot \in [version : Nat, state : Seq(Bodies), at : Nat] /\ Len(snapshot.state) = snapshot.version
  BY DEF StoreInv, TypeOK, StateHasVersion
<1>2. SubSeq(snapshot.state, 1, snapshot.version) = snapshot.state
  BY <1>1
<1>3. GoodFeed(f)
  BY <1>1, <1>2 DEF GoodFeed, Feed, Feeds, Views, IsPast
<1> QED
  BY <1>3, FeedStep DEF Subscribe

(* The baseline separates the events the snapshot includes from the others.  *)
LEMMA BaselineStep ==
  ASSUME StoreInv, FeedInv, NEW s \in Subscribers, Baseline(s)
  PROVE  FeedInv'
<1> DEFINE v == feed[s].view.version
           n == SequenceAt(v)
           f == [feed[s] EXCEPT !.step = "LIVE", !.view.sequence = n, !.baseline = n]
<1>1. feed \in [Subscribers -> Feeds] /\ GoodFeed(feed[s]) /\ feed[s].step = "LOADED"
  BY FeedsAreGood DEF Baseline
<1>2. v \in Nat
  BY <1>1 DEF Feeds, Views
<1>3. n \in 0..LastSequence /\ \A e \in outbox : e.sequence <= n <=> e.version <= v
  BY <1>2, SequenceSplits
<1>4. feed' = [feed EXCEPT ![s] = f]
  BY <1>1 DEF Baseline
<1> HIDE DEF n
<1>5. n \in Nat /\ n <= LastSequence
  BY <1>3, OutboxFacts
<1>6. feed[s].batch = {} /\ IsPast(feed[s].view) /\ feed[s].end \notin {"GAP", "MISSING"} /\ feed[s] \in Feeds
  BY <1>1 DEF GoodFeed
<1>7. /\ f \in Feeds /\ f.step = "LIVE" /\ f.batch = {} /\ f.end = feed[s].end
      /\ f.view.sequence = n /\ f.view.version = v /\ f.view.state = feed[s].view.state
  BY <1>5, <1>6 DEF Feeds, Views
<1>8. \A e \in outbox : /\ e.sequence <= n => e.version <= v
                        /\ e.sequence > n => e.version >= v
  BY <1>2, <1>3, <1>5, OutboxFacts
<1> HIDE DEF f
<1>9. GoodFeed(f)
  BY <1>5, <1>6, <1>7, <1>8 DEF GoodFeed, IsPast
<1> QED
  BY <1>4, <1>9, FeedStep DEF Baseline

(* A page continues where the view ends. *)
LEMMA PollStep ==
  ASSUME StoreInv, FeedInv, NEW s \in Subscribers, Poll(s)
  PROVE  FeedInv'
<1> DEFINE page == Page(feed[s].view.sequence)
           f == [feed[s] EXCEPT !.batch = page]
<1>1. feed \in [Subscribers -> Feeds] /\ GoodFeed(feed[s]) /\ feed[s].step = "LIVE"
  BY FeedsAreGood DEF Poll, Live
<1>2. feed[s].view.sequence \in Nat
  BY <1>1 DEF Feeds, Views
<1>3. /\ page \in SUBSET outbox
      /\ \A e \in page : e.sequence > feed[s].view.sequence
      /\ \A e \in page, g \in outbox :
           feed[s].view.sequence < g.sequence /\ g.sequence < e.sequence => g \in page
  BY <1>2, PageFollows
<1>4. feed' = [feed EXCEPT ![s] = f]
  BY <1>1 DEF Poll
<1> HIDE DEF page
<1>5. /\ f \in Feeds /\ f.step = "LIVE" /\ f.batch = page /\ f.end = feed[s].end
      /\ f.view = feed[s].view
  BY <1>1, <1>3 DEF Feeds
<1> HIDE DEF f
<1>6. GoodFeed(f)
  BY <1>1, <1>3, <1>5 DEF GoodFeed
<1> QED
  BY <1>4, <1>6, FeedStep DEF Poll

(* The first event of a page is the next one, and its state is in the        *)
(* receipt of its version.                                                   *)
LEMMA NextIsDelivered ==
  ASSUME StoreInv, FeedInv, NEW s \in Subscribers, Deliver(s)
  PROVE  \E e \in feed[s].batch, x \in receipts :
           /\ e.sequence = feed[s].view.sequence + 1
           /\ \A other \in feed[s].batch : e.sequence <= other.sequence
           /\ x.version = e.version
           /\ feed' = [feed EXCEPT ![s] = Delivered(feed[s], e, x)]
<1> DEFINE f == feed[s]
<1>1. feed \in [Subscribers -> Feeds] /\ GoodFeed(f) /\ f.step = "LIVE" /\ f \in Feeds
  BY FeedsAreGood DEF Deliver, Live
<1>2. PICK e \in f.batch :
        /\ \A other \in f.batch : e.sequence <= other.sequence
        /\ LET found == {x \in receipts : x.version = e.version /\ Len(x.state) = x.version} IN
           feed' = [feed EXCEPT ![s] =
             IF e.sequence <= f.view.sequence THEN [f EXCEPT !.batch = @ \ {e}]
             ELSE IF e.sequence # f.view.sequence + 1 THEN Closed("GAP")
             ELSE IF found = {} THEN Closed("MISSING")
             ELSE Delivered(f, e, CHOOSE x \in found : TRUE)]
  BY DEF Deliver
<1>3. /\ f.view.sequence \in Nat /\ f.view.version \in Nat
      /\ f.batch \subseteq outbox /\ e \in outbox
      /\ e.sequence \in 1..LastSequence /\ e.version \in 1..snapshot.version
  BY <1>1, OutboxFacts DEF Feeds, Views
<1>4. e.sequence > f.view.sequence
  BY <1>1, <1>2 DEF GoodFeed
<1>5. e.sequence = f.view.sequence + 1
  <2> SUFFICES ASSUME e.sequence # f.view.sequence + 1 PROVE FALSE
    OBVIOUS
  <2>1. f.view.sequence + 1 \in 1..LastSequence /\ f.view.sequence + 1 < e.sequence
    BY <1>3, <1>4, OutboxFacts
  <2>2. PICK g \in outbox : g.sequence = f.view.sequence + 1
    BY <2>1, OutboxFacts
  <2>3. g \in f.batch
    BY <1>1, <1>2, <1>3, <2>1, <2>2 DEF GoodFeed
  <2> QED
    BY <1>2, <1>3, <2>1, <2>2, <2>3
<1> DEFINE found == {x \in receipts : x.version = e.version /\ Len(x.state) = x.version}
           x == CHOOSE y \in found : TRUE
           g == Delivered(f, e, x)
<1>6. found # {}
  BY <1>3 DEF StoreInv, OneHistory, PastStates
<1>7. x \in found
  BY <1>6
<1>8. feed' = [feed EXCEPT ![s] = g]
  <2>1. ~(e.sequence <= f.view.sequence)
    BY <1>3, <1>4, OutboxFacts
  <2> HIDE DEF found
  <2> QED
    BY <1>2, <1>5, <1>6, <2>1 DEF found
<1> QED
  BY <1>2, <1>5, <1>7, <1>8

(* The view stays good with the event that was sent. *)
LEMMA DeliverStep ==
  ASSUME StoreInv, FeedInv, NEW s \in Subscribers, Deliver(s)
  PROVE  FeedInv'
<1> DEFINE f == feed[s]
<1>1. feed \in [Subscribers -> Feeds] /\ GoodFeed(f) /\ f.step = "LIVE" /\ f \in Feeds
  BY FeedsAreGood DEF Deliver, Live
<1>2. PICK e \in f.batch, x \in receipts :
        /\ e.sequence = f.view.sequence + 1
        /\ \A other \in f.batch : e.sequence <= other.sequence
        /\ x.version = e.version
        /\ feed' = [feed EXCEPT ![s] = Delivered(f, e, x)]
  BY NextIsDelivered
<1> DEFINE g == Delivered(f, e, x)
<1>3. /\ f.view.sequence \in Nat /\ f.view.version \in Nat
      /\ f.batch \subseteq outbox /\ e \in outbox
      /\ e.sequence \in 1..LastSequence /\ e.version \in 1..snapshot.version
  BY <1>1, OutboxFacts DEF Feeds, Views
<1>4. e.sequence > f.view.sequence
  BY <1>2, <1>3
<1>8. feed' = [feed EXCEPT ![s] = g]
  BY <1>2
<1>9. /\ x.state \in Seq(Bodies) /\ x.state = SubSeq(snapshot.state, 1, e.version)
      /\ e.version \in Nat /\ e.sequence \in Nat
  BY <1>2, <1>3, OutboxFacts DEF StoreInv, PastStates, TypeOK
<1>10. /\ g \in Feeds /\ g.step = "LIVE" /\ g.end = f.end /\ g.batch = f.batch \ {e}
       /\ g.view = [version |-> e.version, state |-> x.state, sequence |-> e.sequence]
  BY <1>1, <1>9 DEF Delivered, Feeds, Views
<1> HIDE DEF g
<1>11. \A h \in outbox : /\ h.sequence <= e.sequence => h.version <= e.version
                         /\ h.sequence > e.sequence => h.version >= e.version
  BY <1>3, OutboxFacts
<1>12. ASSUME NEW h \in f.batch \ {e} PROVE h.sequence > e.sequence
  BY <1>2, <1>3, <1>12, OutboxFacts
<1>13. ASSUME NEW h \in f.batch \ {e}, NEW k \in outbox, e.sequence < k.sequence, k.sequence < h.sequence
       PROVE  k \in f.batch \ {e}
  <2>1. f.view.sequence < k.sequence /\ k # e
    BY <1>3, <1>4, <1>13, OutboxFacts
  <2> QED
    BY <1>1, <1>13, <2>1 DEF GoodFeed
<1>14. IsPast(g.view)
  BY <1>3, <1>9, <1>10, OutboxFacts DEF IsPast
<1>15. g.end \notin {"GAP", "MISSING"}
  BY <1>1, <1>10 DEF GoodFeed
<1>16. e.sequence <= LastSequence
  BY <1>3, OutboxFacts
<1>17. g.view.sequence = e.sequence /\ g.view.version = e.version
  BY <1>10
<1>18. GoodFeed(g)
  BY <1>10, <1>11, <1>12, <1>13, <1>14, <1>15, <1>16, <1>17 DEF GoodFeed
<1> QED
  BY <1>8, <1>18, FeedStep DEF Deliver

-----------------------------------------------------------------------------
(* The gateway changes nothing in the store. *)
LEMMA StepRealtime ==
  StoreInv /\ FeedInv /\ [RealtimeNext]_realtimeVars => StoreInv' /\ FeedInv'
<1> SUFFICES ASSUME StoreInv, FeedInv, [RealtimeNext]_realtimeVars PROVE StoreInv' /\ FeedInv'
  OBVIOUS
<1>1. [Next]_vars
  BY DEF RealtimeNext, realtimeVars, storeVars, Serves, Subscribe, Baseline, Poll, Deliver, Leave
<1>2. StoreInv'
  BY <1>1, StepStore
<1>3. CASE UNCHANGED feed
  BY <1>1, <1>2, <1>3, StoreKeepsFeeds
<1>4. ASSUME NEW s \in Subscribers, Serves(s) PROVE FeedInv'
  <2>1. CASE Leave(s)
    BY <2>1, ClosedIsGood, FeedStep DEF Leave
  <2> QED
    BY <1>4, <2>1, SubscribeStep, BaselineStep, PollStep, DeliverStep DEF Serves
<1> QED
  BY <1>2, <1>3, <1>4 DEF RealtimeNext, realtimeVars

(* Without subscribers and events everything holds. *)
LEMMA InitRealtime == RealtimeInit => StoreInv /\ FeedInv
<1> SUFFICES ASSUME RealtimeInit PROVE StoreInv /\ FeedInv
  OBVIOUS
<1>1. StoreInv
  BY InitStore DEF RealtimeInit
<1>2. Closed("NONE") \in Feeds /\ GoodFeed(Closed("NONE"))
  BY ClosedIsGood DEF GoodFeed
<1>3. feed \in [Subscribers -> Feeds] /\ \A s \in Subscribers : feed[s] = Closed("NONE")
  BY <1>2 DEF RealtimeInit
<1> QED
  BY <1>1, <1>2, <1>3, FeedsAreGood

(***************************************************************************)
(* Whatever is committed between its reads, and wherever its pages end, a  *)
(* subscriber sees states the match was in, has exactly the events up to   *)
(* its state behind it, and is never told of a gap or of a missing state.  *)
(***************************************************************************)
THEOREM SubscribersSeeTheMatch ==
  RealtimeSpec => [](FeedTypeOK /\ ViewIsConsistent /\ NoGapTold)
<1>1. FeedInv => FeedTypeOK /\ ViewIsConsistent /\ NoGapTold
  BY DEF FeedInv
<1> QED
  BY <1>1, InitRealtime, StepRealtime, PTL DEF RealtimeSpec

(* The event sent next belongs to the version of the view or the one after:  *)
(* every version has an event, and none between them is passed over.         *)
LEMMA NextVersion ==
  ASSUME StoreInv, FeedInv, NEW s \in Subscribers, Live(s),
         NEW e \in outbox, e.sequence = feed[s].view.sequence + 1
  PROVE  e.version \in {feed[s].view.version, feed[s].view.version + 1}
<1> DEFINE view == feed[s].view
<1>1. /\ view.sequence \in Nat /\ view.version \in Nat
      /\ e.sequence \in 1..LastSequence /\ e.version \in 1..snapshot.version
      /\ snapshot.version \in Nat
  BY OutboxFacts DEF FeedInv, FeedTypeOK, Views
<1>2. /\ \A g \in outbox : g.sequence <= view.sequence => g.version <= view.version
      /\ e.version >= view.version
  BY <1>1 DEF FeedInv, ViewIsConsistent
<1> HIDE DEF view
<1>3. ASSUME e.version > view.version + 1
      PROVE  FALSE
  <2>1. view.version + 1 \in 1..snapshot.version
    BY <1>1, <1>3
  <2>2. PICK g \in outbox : g.version = view.version + 1
    BY <2>1 DEF StoreInv, EventsInOrder
  <2>3. g.sequence \in Nat /\ g.sequence > view.sequence
    BY <1>1, <1>2, <2>2, OutboxFacts
  <2>4. g = e \/ e.sequence < g.sequence
    BY <1>1, <2>3, OutboxFacts DEF view
  <2>5. QED
    BY <1>1, <1>3, <2>2, <2>4, OutboxFacts
<1>4. QED
  BY <1>1, <1>2, <1>3 DEF view

LEMMA DeliverFollows ==
  ASSUME StoreInv, FeedInv, NEW s \in Subscribers, Deliver(s)
  PROVE  LET view == feed[s].view
             next == feed'[s].view
         IN  /\ next.sequence = view.sequence + 1
             /\ \/ next.version = view.version /\ next.state = view.state
                \/ /\ next.version = view.version + 1
                   /\ view.state = SubSeq(next.state, 1, view.version)
<1>1. Live(s) /\ feed \in [Subscribers -> Feeds] /\ feed[s].batch \subseteq outbox
  BY FeedsAreGood DEF Deliver, Feeds
<1>2. PICK e \in feed[s].batch, x \in receipts :
        /\ e.sequence = feed[s].view.sequence + 1
        /\ x.version = e.version
        /\ feed' = [feed EXCEPT ![s] = Delivered(feed[s], e, x)]
  BY NextIsDelivered
<1>3. feed'[s].view = [version |-> e.version, state |-> x.state, sequence |-> e.sequence]
  BY <1>1, <1>2 DEF Delivered, Feeds
<1> DEFINE v == feed[s].view.version
           history == snapshot.state
<1>4. /\ v \in Nat /\ e.version \in 1..snapshot.version /\ e.version \in {v, v + 1}
      /\ snapshot.version \in Nat
  BY <1>1, <1>2, NextVersion, OutboxFacts DEF FeedInv, FeedTypeOK, Views
<1>5. /\ history \in Seq(Bodies) /\ Len(history) = snapshot.version
      /\ x.state = SubSeq(history, 1, e.version)
      /\ feed[s].view.state = SubSeq(history, 1, v)
  BY <1>1, <1>2 DEF StoreInv, PastStates, StateHasVersion, TypeOK, FeedInv, ViewIsConsistent
<1> HIDE DEF v, history
<1>6. e.version = v + 1 => SubSeq(history, 1, v) = SubSeq(SubSeq(history, 1, v + 1), 1, v)
  BY <1>4, <1>5
<1>7. QED
  BY <1>2, <1>3, <1>4, <1>5, <1>6 DEF v

(***************************************************************************)
(* Nor is an event or a state of the match ever passed over in silence.    *)
(***************************************************************************)
THEOREM StreamsAreGapless == RealtimeSpec => StreamIsGapless
<1> DEFINE Follows ==
      \A s \in Subscribers :
        LET view == feed[s].view
            next == feed'[s].view
        IN  /\ feed'[s].end \notin {"GAP", "MISSING"}
            /\ Live(s) /\ Live(s)' /\ next # view =>
                 /\ next.sequence = view.sequence + 1
                 /\ \/ next.version = view.version /\ next.state = view.state
                    \/ /\ next.version = view.version + 1
                       /\ view.state = SubSeq(next.state, 1, view.version)
<1>1. StoreInv /\ FeedInv /\ FeedInv' /\ [RealtimeNext]_realtimeVars => [Follows]_realtimeVars
  <2> SUFFICES ASSUME StoreInv, FeedInv, FeedInv', RealtimeNext, NEW s \in Subscribers
               PROVE  LET view == feed[s].view
                          next == feed'[s].view
                      IN  /\ feed'[s].end \notin {"GAP", "MISSING"}
                          /\ Live(s) /\ Live(s)' /\ next # view =>
                               /\ next.sequence = view.sequence + 1
                               /\ \/ next.version = view.version /\ next.state = view.state
                                  \/ /\ next.version = view.version + 1
                                     /\ view.state = SubSeq(next.state, 1, view.version)
    OBVIOUS
  <2>1. feed'[s].end \notin {"GAP", "MISSING"}
    BY DEF FeedInv, NoGapTold
  <2>2. ASSUME Live(s), Live(s)', feed'[s].view # feed[s].view
        PROVE  Deliver(s)
    <3>1. feed \in [Subscribers -> Feeds]
      BY FeedsAreGood
    <3>2. PICK t \in Subscribers : Serves(t)
      BY <2>2 DEF RealtimeNext
    <3>3. t = s
      BY <2>2, <3>1, <3>2 DEF Serves, Subscribe, Baseline, Poll, Deliver, Leave
    <3>4. QED
      BY <2>2, <3>1, <3>2, <3>3
      DEF Serves, Subscribe, Baseline, Poll, Leave, Live, Closed, Feed, Feeds
  <2>3. QED
    BY <2>1, <2>2, DeliverFollows
<1>2. QED
  BY <1>1, InitRealtime, StepRealtime, PTL DEF RealtimeSpec, StreamIsGapless

(***************************************************************************)
(* The gateway takes no part in the transactions: with subscribers, the    *)
(* store is the store, and so all that is proved of it holds beside them,  *)
(* to begin with that it answers like a log.                               *)
(***************************************************************************)
THEOREM SubscribersDisturbNothing == RealtimeSpec => Spec /\ ImplementsLog
<1>1. RealtimeInit => Init
  BY DEF RealtimeInit
<1>2. [RealtimeNext]_realtimeVars => [Next]_vars
  BY DEF RealtimeNext, realtimeVars, storeVars, Serves, Subscribe, Baseline, Poll, Deliver, Leave
<1>3. RealtimeSpec => Spec
  BY <1>1, <1>2, PTL DEF RealtimeSpec, Spec
<1>4. QED
  BY <1>3, StoreImplementsLog
=============================================================================
