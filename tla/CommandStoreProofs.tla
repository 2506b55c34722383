------------------------- MODULE CommandStoreProofs --------------------------
(***************************************************************************)
(* Proofs about CommandStore for any number of callers, ids, versions,     *)
(* clock values and events.                                                *)
(***************************************************************************)
EXTENDS CommandStore, SequenceTheorems, TLAPS

(***************************************************************************)
(* What the properties rest on: the state has as many commands as its      *)
(* version says, the audit log is the receipts', and a transaction that    *)
(* still sees the current snapshot has read the current last event and no  *)
(* receipt of its id.  One that sees an older snapshot never commits, as   *)
(* versions only grow.                                                     *)
(***************************************************************************)
StateHasVersion == Len(snapshot.state) = snapshot.version

ActionsHaveReceipts ==
  \A a \in actions : /\ a.at <= snapshot.at
                     /\ \E x \in receipts : x.version = a.version /\ x.req.id = a.id

SequenceIsKnown == LastSequence \in Nat

ReadsAreCurrent ==
  \A p \in Callers : At(p, "COMMIT") =>
    /\ call[p].seen.version <= snapshot.version
    /\ call[p].seen = snapshot =>
         call[p].last = LastSequence /\ \A x \in receipts : x.req.id # call[p].req.id

BusyIsWaiting == \A p \in Callers : At(p, "IDLE") <=> call[p].kind # "WAITING"

StoreInv ==
  /\ TypeOK
  /\ BusyIsWaiting
  /\ OneHistory
  /\ PastStates
  /\ EventsInOrder
  /\ AnswersAreTrue
  /\ TimeMovesForward
  /\ StateHasVersion
  /\ ActionsHaveReceipts
  /\ SequenceIsKnown
  /\ ReadsAreCurrent

-----------------------------------------------------------------------------
(* Events numbered without a gap: the last number is the count.              *)
LEMMA LastOfNumbered ==
  ASSUME NEW events, NEW n \in Nat, {e.sequence : e \in events} = 1..n
  PROVE  (CHOOSE m \in {0} \cup {e.sequence : e \in events} : \A e \in events : e.sequence <= m) = n
<1> DEFINE S == {0} \cup {e.sequence : e \in events}
<1>1. S = 0..n
  OBVIOUS
<1>2. \A m \in S : (\A e \in events : e.sequence <= m) <=> (\A k \in 1..n : k <= m)
  OBVIOUS
<1>3. n \in S /\ (\A k \in 1..n : k <= n)
  BY <1>1
<1>4. \A m \in S : (\A k \in 1..n : k <= m) => m = n
  BY <1>1
<1>5. \A m \in S : (\A e \in events : e.sequence <= m) <=> m = n
  BY <1>2, <1>3, <1>4
<1> HIDE DEF S
<1>6. (CHOOSE m \in S : \A e \in events : e.sequence <= m) = n
  BY <1>3, <1>5
<1> QED
  BY <1>6 DEF S

(* Without events the last number is zero. *)
LEMMA LastOfNone == outbox = {} => LastSequence = 0
<1> SUFFICES ASSUME outbox = {} PROVE LastSequence = 0
  OBVIOUS
<1>1. {e.sequence : e \in {}} = 1..0
  OBVIOUS
<1>2. (CHOOSE m \in {0} \cup {e.sequence : e \in {}} : \A e \in {} : e.sequence <= m) = 0
  BY <1>1, LastOfNumbered
<1> QED
  BY <1>2 DEF LastSequence

(* A bootstrapped match satisfies the invariant. *)
LEMMA InitStore == Init => StoreInv
<1> SUFFICES ASSUME Init PROVE StoreInv
  OBVIOUS
<1>1. LastSequence = 0
  BY LastOfNone DEF Init
<1>2. \A p \in Callers : \E r \in Requests : call[p] = Call(r, 0, "IDLE", "REJECTED", 0)
  BY DEF Init
<1>3. <<>> \in Seq(Bodies) /\ Len(<<>>) = 0
  OBVIOUS
<1>4. TypeOK
  <2>1. snapshot \in [version : Nat, state : Seq(Bodies), at : Nat]
    BY <1>3 DEF Init, Bootstrapped
  <2>2. \A r \in Requests : Call(r, 0, "IDLE", "REJECTED", 0) \in
          [req : Requests, now : Nat, step : {"IDLE", "LOOKUP", "READ", "COMMIT"},
           seen : [version : Nat, state : Seq(Bodies), at : Nat], last : Nat,
           kind : Kinds, version : Nat]
    BY <1>3 DEF Call, Bootstrapped, Kinds
  <2> QED
    BY <1>2, <2>1, <2>2 DEF Init, TypeOK, At, Call
<1>5. OneHistory /\ PastStates /\ EventsInOrder /\ TimeMovesForward /\ ActionsHaveReceipts
  BY <1>1 DEF Init, Bootstrapped, OneHistory, PastStates, EventsInOrder, TimeMovesForward,
     ActionsHaveReceipts
<1>6. AnswersAreTrue /\ ReadsAreCurrent /\ BusyIsWaiting
  <2>1. \A p \in Callers : call[p].step = "IDLE" /\ call[p].kind = "REJECTED"
    <3> TAKE p \in Callers
    <3>1. PICK r \in Requests : call[p] = Call(r, 0, "IDLE", "REJECTED", 0)
      BY <1>2
    <3> QED
      BY <3>1 DEF Call
  <2> QED
    BY <2>1 DEF AnswersAreTrue, ReadsAreCurrent, BusyIsWaiting, At
<1>7. StateHasVersion /\ SequenceIsKnown
  BY <1>1, <1>3 DEF Init, Bootstrapped, StateHasVersion, SequenceIsKnown
<1> QED
  BY <1>4, <1>5, <1>6, <1>7 DEF StoreInv

-----------------------------------------------------------------------------
Calls ==
  [req : Requests, now : Nat, step : {"IDLE", "LOOKUP", "READ", "COMMIT"},
   seen : [version : Nat, state : Seq(Bodies), at : Nat], last : Nat, kind : Kinds, version : Nat]

(* What a step that only reads has to show about its request. *)
GoodCall(c) ==
  /\ c \in Calls
  /\ c.step = "IDLE" <=> c.kind # "WAITING"
  /\ c.step = "COMMIT" =>
       /\ c.seen = snapshot /\ c.seen.version = c.req.expected
       /\ c.last = LastSequence
       /\ \A x \in receipts : x.req.id # c.req.id
  /\ c.kind \in {"APPLIED", "REPLAYED"} =>
       \E x \in receipts : x.req = c.req /\ x.version = c.version
  /\ c.kind = "MISMATCH" => \E x \in receipts : x.req.id = c.req.id /\ x.req # c.req

(* A step that changes one call only, to a good one, keeps the invariant.    *)
LEMMA CallStep ==
  ASSUME StoreInv, NEW p \in Callers, NEW c, GoodCall(c),
         call' = [call EXCEPT ![p] = c], UNCHANGED <<snapshot, receipts, actions, outbox>>
  PROVE  StoreInv'
<1>1. call \in [Callers -> Calls] /\ c \in Calls
  BY DEF StoreInv, TypeOK, GoodCall, Calls
<1>2. \A q \in Callers : call'[q] = IF q = p THEN c ELSE call[q]
  BY <1>1
<1>3. LastSequence' = LastSequence
  BY DEF LastSequence
<1>4. TypeOK'
  <2>1. call' \in [Callers -> Calls]
    BY <1>1
  <2>2. \A q \in Callers : At(q, "COMMIT")' => call'[q].seen.version = call'[q].req.expected
    BY <1>2 DEF StoreInv, TypeOK, GoodCall, At
  <2> QED
    BY <2>1, <2>2 DEF StoreInv, TypeOK, Calls
<1>5. OneHistory' /\ PastStates' /\ TimeMovesForward' /\ StateHasVersion' /\ ActionsHaveReceipts'
  BY DEF StoreInv, OneHistory, PastStates, TimeMovesForward, StateHasVersion, ActionsHaveReceipts
<1>6. EventsInOrder' /\ SequenceIsKnown'
  BY <1>3 DEF StoreInv, EventsInOrder, SequenceIsKnown
<1>7. AnswersAreTrue' /\ BusyIsWaiting'
  BY <1>2 DEF StoreInv, AnswersAreTrue, BusyIsWaiting, GoodCall, At
<1>8. ReadsAreCurrent'
  <2>1. snapshot.version \in Nat
    BY DEF StoreInv, TypeOK
  <2> QED
    BY <1>2, <1>3, <2>1 DEF StoreInv, ReadsAreCurrent, GoodCall, At
<1> QED
  BY <1>4, <1>5, <1>6, <1>7, <1>8 DEF StoreInv

(* An answer that is true is a good call, and so is the next step of a       *)
(* request that waits.                                                       *)
LEMMA AnswerStep ==
  ASSUME StoreInv, NEW p \in Callers, NEW kind \in Kinds \ {"WAITING"}, NEW version \in Nat,
         Answer(p, kind, version), UNCHANGED <<snapshot, receipts, actions, outbox>>,
         kind \in {"APPLIED", "REPLAYED"} =>
           \E x \in receipts : x.req = call[p].req /\ x.version = version,
         kind = "MISMATCH" => \E x \in receipts : x.req.id = call[p].req.id /\ x.req # call[p].req
  PROVE  StoreInv'
<1> DEFINE c == Call(call[p].req, 0, "IDLE", kind, version)
<1>1. call[p].req \in Requests
  BY DEF StoreInv, TypeOK
<1>2. <<>> \in Seq(Bodies)
  OBVIOUS
<1>3. c \in Calls
  BY <1>1, <1>2 DEF Call, Calls, Bootstrapped
<1>4. GoodCall(c)
  BY <1>3 DEF GoodCall, Call
<1> QED
  BY <1>4, CallStep DEF Answer

(* The request type of the calls under way. *)
LEMMA CallTypes ==
  ASSUME StoreInv, NEW p \in Callers
  PROVE  call[p] \in Calls /\ call \in [Callers -> Calls]
  BY DEF StoreInv, TypeOK, Calls

(* A new request has answered nothing and read nothing yet. *)
LEMMA SendStep ==
  ASSUME StoreInv, NEW p \in Callers, NEW r \in Requests, NEW t \in Times, Send(p, r, t)
  PROVE  StoreInv'
<1> DEFINE c == Call(r, t, "LOOKUP", "WAITING", 0)
<1>1. <<>> \in Seq(Bodies) /\ t \in Nat
  BY StoreAssumption
<1>2. c \in Calls
  BY <1>1 DEF Call, Calls, Bootstrapped, Kinds
<1>3. GoodCall(c)
  BY <1>2 DEF GoodCall, Call
<1> QED
  BY <1>3, CallStep DEF Send

(* The answer a receipt gives is true. *)
LEMMA ReceiptAnswers ==
  ASSUME StoreInv, NEW p \in Callers, UNCHANGED <<snapshot, receipts, actions, outbox>>,
         NEW x \in receipts, x.req.id = call[p].req.id,
         IF x.req = call[p].req THEN Answer(p, "REPLAYED", x.version) ELSE Answer(p, "MISMATCH", 0)
  PROVE  StoreInv'
<1>1. x.version \in Nat
  BY DEF StoreInv, TypeOK
<1>2. CASE x.req = call[p].req
  BY <1>1, <1>2, AnswerStep DEF Kinds
<1>3. CASE x.req # call[p].req
  BY <1>3, AnswerStep DEF Kinds
<1> QED
  BY <1>2, <1>3

(* The look-up before the transaction. *)
LEMMA LookupStep ==
  ASSUME StoreInv, NEW p \in Callers, Lookup(p)
  PROVE  StoreInv'
<1>1. CASE call' = [call EXCEPT ![p].step = "READ"]
  <2> DEFINE c == [call[p] EXCEPT !.step = "READ"]
  <2>1. c \in Calls /\ call' = [call EXCEPT ![p] = c]
    BY <1>1, CallTypes DEF Calls
  <2>2. GoodCall(c)
    BY <2>1, CallTypes DEF GoodCall, Calls, StoreInv, AnswersAreTrue, BusyIsWaiting, At, Lookup
  <2> QED
    BY <2>1, <2>2, CallStep DEF Lookup
<1>2. CASE Answer(p, "ERROR", 0)
  BY <1>2, AnswerStep DEF Lookup, Kinds
<1> QED
  BY <1>1, <1>2, ReceiptAnswers DEF Lookup, LoadReceipt

(* What the transaction has read is current when it is read. *)
LEMMA ReadStep ==
  ASSUME StoreInv, NEW p \in Callers, Read(p)
  PROVE  StoreInv'
<1>1. CASE Answer(p, "REJECTED", 0) \/ Answer(p, "CONFLICT", 0) \/ Answer(p, "ERROR", 0)
  BY <1>1, AnswerStep DEF Read, Kinds
<1>2. ASSUME {x \in receipts : x.req.id = call[p].req.id} = {},
             snapshot.version = call[p].req.expected,
             call' = [call EXCEPT ![p].step = "COMMIT", ![p].seen = snapshot, ![p].last = LastSequence]
      PROVE  StoreInv'
  <2> DEFINE c == [call[p] EXCEPT !.step = "COMMIT", !.seen = snapshot, !.last = LastSequence]
  <2>1. call' = [call EXCEPT ![p] = c]
    BY <1>2, CallTypes
  <2>2. c \in Calls
    BY CallTypes DEF Calls, StoreInv, TypeOK, SequenceIsKnown
  <2>3. /\ c.seen = snapshot /\ c.last = LastSequence /\ c.req = call[p].req
        /\ c.kind = call[p].kind /\ c.version = call[p].version
    BY CallTypes DEF Calls
  <2>4. GoodCall(c)
    BY <1>2, <2>2, <2>3 DEF GoodCall, StoreInv, AnswersAreTrue, BusyIsWaiting, At, Read
  <2> QED
    BY <2>1, <2>4, CallStep DEF Read
<1>3. ASSUME NEW x \in receipts, x.req.id = call[p].req.id,
             IF x.req = call[p].req THEN Answer(p, "REPLAYED", x.version) ELSE Answer(p, "MISMATCH", 0)
      PROVE  StoreInv'
  BY <1>3, ReceiptAnswers DEF Read
<1> QED
  BY <1>1, <1>2, <1>3 DEF Read, LoadReceipt, Decide

-----------------------------------------------------------------------------
(* The commit extends all four collections by one version. *)
LEMMA WriteStep ==
  ASSUME StoreInv, NEW p \in Callers, At(p, "COMMIT"), snapshot = call[p].seen,
         snapshot.at <= call[p].now, NEW count \in EventCounts, Writes(p, count),
         NEW kind, NEW version, Answer(p, kind, version),
         \/ kind = "APPLIED" /\ version = call[p].seen.version + 1
         \/ kind = "ERROR" /\ version = 0
  PROVE  StoreInv'
<1> DEFINE r == call[p].req
           v == snapshot.version + 1
           state == Append(snapshot.state, r.body)
           action == [id |-> r.id, version |-> v, at |-> call[p].now]
           receipt == [req |-> r, version |-> v, state |-> state]
           events == {[sequence |-> LastSequence + i, version |-> v] : i \in 1..count}
           c == Call(r, 0, "IDLE", kind, version)
<1>1. /\ snapshot \in [version : Nat, state : Seq(Bodies), at : Nat]
      /\ receipts \subseteq [req : Requests, version : Nat, state : Seq(Bodies)]
      /\ actions \subseteq [id : Ids, version : Nat, at : Nat]
      /\ outbox \subseteq [sequence : Nat, version : Nat]
      /\ call \in [Callers -> Calls] /\ call[p] \in Calls
  BY DEF StoreInv, TypeOK, Calls
<1>2. r \in Requests /\ r.id \in Ids /\ r.body \in Bodies /\ call[p].now \in Nat /\ v \in Nat
        /\ count \in Nat /\ count > 0 /\ LastSequence \in Nat
  BY <1>1, StoreAssumption DEF Calls, Requests, StoreInv, SequenceIsKnown
<1>3. /\ call[p].last = LastSequence
      /\ \A x \in receipts : x.req.id # r.id
      /\ r.expected = snapshot.version
  BY DEF StoreInv, ReadsAreCurrent, TypeOK
<1>4. /\ snapshot' = [version |-> v, state |-> state, at |-> call[p].now]
      /\ actions' = actions \cup {action}
      /\ outbox' = outbox \cup events
      /\ receipts' = receipts \cup {receipt}
  BY <1>3 DEF Writes
<1>5. state \in Seq(Bodies) /\ Len(state) = v /\ SubSeq(state, 1, snapshot.version) = snapshot.state
  <2>1. Len(snapshot.state) = snapshot.version /\ snapshot.state \in Seq(Bodies)
    BY <1>1 DEF StoreInv, StateHasVersion
  <2>2. state \in Seq(Bodies) /\ Len(state) = v
    BY <1>2, <2>1, AppendProperties
  <2>3. SubSeq(state, 1, snapshot.version) = snapshot.state
    BY <1>1, <1>2, <2>1
  <2> QED
    BY <2>2, <2>3
<1> HIDE DEF state
<1>6. \A q \in Callers : call'[q] = IF q = p THEN c ELSE call[q]
  BY <1>1 DEF Answer
<1>7. c \in Calls /\ c.step = "IDLE" /\ c.kind = kind /\ c.version = version /\ c.req = r
  <2>1. <<>> \in Seq(Bodies)
    OBVIOUS
  <2>2. kind \in Kinds /\ version \in Nat
    BY <1>1 DEF Kinds
  <2> QED
    BY <1>2, <2>1, <2>2 DEF Call, Calls, Bootstrapped
<1> HIDE DEF c
<1>8. TypeOK'
  <2>1. snapshot' \in [version : Nat, state : Seq(Bodies), at : Nat]
    BY <1>2, <1>4, <1>5
  <2>2. receipts' \subseteq [req : Requests, version : Nat, state : Seq(Bodies)]
    BY <1>1, <1>2, <1>4, <1>5
  <2>3. actions' \subseteq [id : Ids, version : Nat, at : Nat]
    BY <1>1, <1>2, <1>4
  <2>4. outbox' \subseteq [sequence : Nat, version : Nat]
    BY <1>1, <1>2, <1>4
  <2>5. call' \in [Callers -> Calls]
    BY <1>1, <1>6, <1>7 DEF Answer, c
  <2>6. \A q \in Callers : At(q, "COMMIT")' => call'[q].seen.version = call'[q].req.expected
    BY <1>6, <1>7 DEF StoreInv, TypeOK, At
  <2> QED
    BY <2>1, <2>2, <2>3, <2>4, <2>5, <2>6 DEF TypeOK, Calls
<1>9. OneHistory'
  <2>1. \A x \in receipts : x.version \in 1..snapshot.version
    BY DEF StoreInv, OneHistory
  <2>2. \A a \in actions : a.id # r.id /\ a.version # v
    <3>1. \A a \in actions : \E x \in receipts : x.version = a.version /\ x.req.id = a.id
      BY DEF StoreInv, ActionsHaveReceipts
    <3> QED
      BY <1>1, <1>3, <2>1, <3>1
  <2>3. \A u \in 1..v : \E x \in receipts' : x.version = u /\ \E a \in actions' : a.version = u /\ a.id = x.req.id
    <3>1. \A u \in 1..snapshot.version :
            \E x \in receipts : x.version = u /\ \E a \in actions : a.version = u /\ a.id = x.req.id
      BY DEF StoreInv, OneHistory
    <3>2. receipt \in receipts' /\ action \in actions'
      BY <1>4
    <3>3. \A u \in 1..v : u = v \/ u \in 1..snapshot.version
      BY <1>1
    <3>4. \A u \in 1..snapshot.version :
            \E x \in receipts' : x.version = u /\ \E a \in actions' : a.version = u /\ a.id = x.req.id
      BY <1>4, <3>1
    <3>5. receipt.version = v /\ action.version = v /\ action.id = receipt.req.id
      OBVIOUS
    <3> HIDE DEF v, receipt, action
    <3> QED
      BY <3>2, <3>3, <3>4, <3>5
  <2>4. \A x, y \in receipts' : x.version = y.version \/ x.req.id = y.req.id => x = y
    BY <1>1, <1>3, <1>4, <2>1 DEF StoreInv, OneHistory
  <2>5. \A a, b \in actions' : a.version = b.version \/ a.id = b.id => a = b
    BY <1>4, <2>2 DEF StoreInv, OneHistory
  <2>6. \A x \in receipts' : x.version \in 1..v /\ x.req.expected + 1 = x.version
    <3>1. \A x \in receipts : x.version \in 1..v /\ x.req.expected + 1 = x.version
      BY <1>1, <2>1 DEF StoreInv, OneHistory
    <3>2. receipt.version \in 1..v /\ receipt.req.expected + 1 = receipt.version
      BY <1>1, <1>3
    <3> QED
      BY <1>4, <3>1, <3>2
  <2>7. \A x \in receipts' : x.version = v => x.state = state
    BY <1>1, <1>4, <2>1
  <2>8. snapshot'.version = v /\ snapshot'.state = state
    BY <1>4
  <2> QED
    BY <2>3, <2>4, <2>5, <2>6, <2>7, <2>8 DEF OneHistory
<1>10. PastStates'
  <2>1. ASSUME NEW x \in receipts
        PROVE  Len(x.state) = x.version /\ x.state = SubSeq(state, 1, x.version)
    <3>1. x.version \in 1..snapshot.version /\ Len(x.state) = x.version
            /\ x.state = SubSeq(snapshot.state, 1, x.version)
      BY DEF StoreInv, OneHistory, PastStates
    <3>2. SubSeq(snapshot.state, 1, x.version) = SubSeq(state, 1, x.version)
      <4>1. snapshot.state \in Seq(Bodies) /\ Len(snapshot.state) = snapshot.version
        BY <1>1 DEF StoreInv, StateHasVersion
      <4>2. \A i \in 1..snapshot.version : state[i] = snapshot.state[i]
        BY <1>1, <1>2, <4>1 DEF state
      <4>3. DOMAIN SubSeq(snapshot.state, 1, x.version) = 1..x.version
              /\ DOMAIN SubSeq(state, 1, x.version) = 1..x.version
        BY <1>1, <1>5, <3>1, <4>1
      <4>4. \A i \in 1..x.version : SubSeq(snapshot.state, 1, x.version)[i] = SubSeq(state, 1, x.version)[i]
        BY <1>1, <1>5, <3>1, <4>1, <4>2
      <4> QED
        BY <1>1, <1>5, <3>1, <4>1, <4>2, <4>3, <4>4
    <3> QED
      BY <3>1, <3>2
  <2>2. Len(receipt.state) = receipt.version /\ receipt.state = SubSeq(state, 1, receipt.version)
    <3>1. SubSeq(state, 1, v) = state
      BY <1>5, SubSeqFull
    <3> QED
      BY <1>5, <3>1
  <2>3. snapshot'.state = state
    BY <1>4
  <2> QED
    BY <1>4, <2>1, <2>2, <2>3 DEF PastStates
<1>11. LastSequence' = LastSequence + count /\ EventsInOrder' /\ SequenceIsKnown'
  <2> DEFINE n == LastSequence
             last == LastSequence + count
  <2>1. {e.sequence : e \in outbox} = 1..n /\ (\A e \in outbox : e.version \in 1..snapshot.version)
    BY DEF StoreInv, EventsInOrder
  <2>2. \A e \in events : e.version = v /\ e.sequence \in (n + 1)..last
    BY <1>2
  <2>3. \A k \in (n + 1)..last : \E e \in events : e.sequence = k
    <3> TAKE k \in (n + 1)..last
    <3>1. k - n \in 1..count /\ n + (k - n) = k
      BY <1>2
    <3>2. [sequence |-> n + (k - n), version |-> v] \in events
      BY <3>1
    <3> QED
      BY <3>1, <3>2
  <2>4. n \in Nat /\ last \in Nat /\ last > n /\ v = snapshot.version + 1 /\ snapshot.version \in Nat
    BY <1>1, <1>2
  <2>5. \A e, f \in events : e.sequence = f.sequence => e = f
    OBVIOUS
  <2>6. \A e \in outbox : e.sequence \in 1..n
    BY <2>1
  <2> HIDE DEF n, last, v, events
  <2>7. {e.sequence : e \in outbox \cup events} = 1..last
    BY <2>1, <2>2, <2>3, <2>4, <2>6
  <2>8. LastSequence' = last
    <3>1. outbox' = outbox \cup events
      BY <1>4 DEF events, n, v
    <3>2. (CHOOSE m \in {0} \cup {e.sequence : e \in outbox \cup events} :
              \A e \in outbox \cup events : e.sequence <= m) = last
      BY <2>4, <2>7, LastOfNumbered
    <3> QED
      BY <3>1, <3>2 DEF LastSequence
  <2>9. outbox' = outbox \cup events /\ snapshot'.version = v
    BY <1>4 DEF events, n, v
  <2>10. \A e, f \in outbox \cup events : e.sequence = f.sequence => e = f
    BY <2>2, <2>4, <2>5, <2>6 DEF StoreInv, EventsInOrder
  <2>11. \A e, f \in outbox \cup events : e.sequence < f.sequence => e.version <= f.version
    BY <2>1, <2>2, <2>4, <2>6 DEF StoreInv, EventsInOrder
  <2>12. {e.version : e \in outbox \cup events} = 1..v
    <3>1. {e.version : e \in outbox} = 1..snapshot.version
      BY DEF StoreInv, EventsInOrder
    <3>2. \E e \in events : TRUE
      BY <2>3, <2>4
    <3>3. {e.version : e \in events} = {v}
      BY <2>2, <3>2
    <3>4. 1..v = 1..snapshot.version \cup {v}
      BY <2>4
    <3> QED
      BY <3>1, <3>3, <3>4
  <2>13. EventsInOrder'
    BY <2>7, <2>8, <2>9, <2>10, <2>11, <2>12 DEF EventsInOrder
  <2> QED
    BY <2>4, <2>8, <2>13 DEF SequenceIsKnown, last, n
<1>12. AnswersAreTrue' /\ BusyIsWaiting'
  <2>1. \A q \in Callers : q # p => call'[q] = call[q]
    BY <1>6
  <2>2. receipt \in receipts' /\ receipts \subseteq receipts'
    BY <1>4
  <2>3. kind = "APPLIED" => version = v
    OBVIOUS
  <2> QED
    BY <1>6, <1>7, <2>1, <2>2, <2>3 DEF StoreInv, AnswersAreTrue, BusyIsWaiting, At
<1>13. TimeMovesForward' /\ ActionsHaveReceipts' /\ StateHasVersion'
  <2>1. \A a \in actions : a.at <= snapshot.at /\ a.at <= call[p].now /\ a.version <= snapshot.version
    <3>1. \A a \in actions : a.at <= snapshot.at /\ a.at \in Nat
      BY <1>1 DEF StoreInv, ActionsHaveReceipts
    <3>2. snapshot.at \in Nat
      BY <1>1
    <3>3. \A a \in actions : \E x \in receipts : x.version = a.version /\ x.version \in 1..snapshot.version
      BY DEF StoreInv, ActionsHaveReceipts, OneHistory
    <3> QED
      BY <1>1, <1>2, <3>1, <3>2, <3>3
  <2>2. action.version = v /\ action.at = call[p].now /\ v > snapshot.version /\ action.id = r.id
    BY <1>1
  <2>3. snapshot'.at = call[p].now /\ snapshot'.version = v /\ snapshot'.state = state
    BY <1>4
  <2>4. TimeMovesForward'
    BY <1>1, <1>2, <1>4, <2>1, <2>2 DEF StoreInv, TimeMovesForward
  <2>5. ActionsHaveReceipts'
    <3>1. \A a \in actions : \E x \in receipts : x.version = a.version /\ x.req.id = a.id
      BY DEF StoreInv, ActionsHaveReceipts
    <3>2. receipt.version = v /\ receipt.req.id = r.id /\ receipt \in receipts'
      BY <1>4
    <3>3. call[p].now <= call[p].now
      BY <1>2
    <3>4. receipts \subseteq receipts' /\ actions' = actions \cup {action}
      BY <1>4
    <3> HIDE DEF v, receipt, action, r
    <3>5. \A a \in actions' : a.at <= call[p].now
      BY <2>1, <2>2, <3>3, <3>4
    <3>6. \A a \in actions' : \E x \in receipts' : x.version = a.version /\ x.req.id = a.id
      BY <2>2, <3>1, <3>2, <3>4
    <3> QED
      BY <2>3, <3>5, <3>6 DEF ActionsHaveReceipts
  <2> QED
    BY <1>5, <2>3, <2>4, <2>5 DEF StateHasVersion
<1>14. ReadsAreCurrent'
  <2>1. ASSUME NEW q \in Callers, At(q, "COMMIT")'
        PROVE  call'[q].seen.version <= snapshot'.version /\ call'[q].seen # snapshot'
    <3>1. q # p /\ call'[q] = call[q] /\ At(q, "COMMIT")
      BY <1>6, <1>7, <2>1 DEF At
    <3>2. call[q].seen.version <= snapshot.version /\ call[q].seen.version \in Nat
      BY <1>1, <3>1 DEF StoreInv, ReadsAreCurrent, Calls
    <3>3. snapshot'.version = v /\ v > snapshot.version
      BY <1>1, <1>4
    <3> QED
      BY <1>1, <3>1, <3>2, <3>3
  <2> QED
    BY <2>1 DEF ReadsAreCurrent
<1> QED
  BY <1>8, <1>9, <1>10, <1>11, <1>12, <1>13, <1>14 DEF StoreInv

(* Every outcome of a commit keeps the invariant. *)
LEMMA CommitStep ==
  ASSUME StoreInv, NEW p \in Callers, Commit(p)
  PROVE  StoreInv'
<1>1. CASE Answer(p, "ERROR", 0) /\ UNCHANGED <<snapshot, receipts, actions, outbox>>
  BY <1>1, AnswerStep DEF Kinds
<1>2. CASE /\ call' = [call EXCEPT ![p].step = "READ"]
           /\ UNCHANGED <<snapshot, receipts, actions, outbox>>
  <2> DEFINE c == [call[p] EXCEPT !.step = "READ"]
  <2>1. c \in Calls /\ call' = [call EXCEPT ![p] = c]
    BY <1>2, CallTypes DEF Calls
  <2>2. GoodCall(c)
    BY <2>1, CallTypes DEF GoodCall, Calls, StoreInv, AnswersAreTrue, BusyIsWaiting, At, Commit
  <2> QED
    BY <1>2, <2>1, <2>2, CallStep
<1>3. ASSUME snapshot = call[p].seen, snapshot.at <= call[p].now,
             NEW count \in EventCounts, Writes(p, count),
             Answer(p, "APPLIED", call[p].seen.version + 1) \/ Answer(p, "ERROR", 0)
      PROVE  StoreInv'
  BY <1>3, WriteStep DEF Commit
<1> QED
  BY <1>1, <1>2, <1>3 DEF Commit

(* Every step keeps the invariant. *)
LEMMA StepStore == StoreInv /\ [Next]_vars => StoreInv'
<1> SUFFICES ASSUME StoreInv, [Next]_vars PROVE StoreInv'
  OBVIOUS
<1>1. CASE UNCHANGED vars
  <2>1. LastSequence' = LastSequence
    BY <1>1 DEF vars, LastSequence
  <2> QED
    BY <1>1, <2>1 DEF vars, StoreInv, TypeOK, OneHistory, PastStates, EventsInOrder, AnswersAreTrue,
       TimeMovesForward, StateHasVersion, ActionsHaveReceipts, SequenceIsKnown, ReadsAreCurrent,
       BusyIsWaiting, At
<1>2. CASE Next
  BY <1>2, SendStep, LookupStep, ReadStep, CommitStep DEF Next
<1> QED
  BY <1>1, <1>2

(* The invariant holds throughout. *)
LEMMA Store == Spec => []StoreInv
  BY InitStore, StepStore, PTL DEF Spec

-----------------------------------------------------------------------------
(***************************************************************************)
(* However many callers race, retry, reuse ids or lose answers, and        *)
(* however wrong the clocks are: the four collections tell one history in  *)
(* which no command is applied twice, its events are numbered without a    *)
(* gap, times never go back, and every answer is true.                     *)
(***************************************************************************)
THEOREM StoreIsConsistent ==
  Spec => [](OneHistory /\ PastStates /\ EventsInOrder /\ AnswersAreTrue /\ TimeMovesForward)
<1>1. StoreInv => OneHistory /\ PastStates /\ EventsInOrder /\ AnswersAreTrue /\ TimeMovesForward
  BY DEF StoreInv
<1> QED
  BY <1>1, Store, PTL

-----------------------------------------------------------------------------
(* The refinement of MatchLog *)

(* The log reads off the receipts. *)
LEMMA LogOfReceipts ==
  ASSUME StoreInv
  PROVE  /\ AppliedLog \in Seq(Requests) /\ Len(AppliedLog) = snapshot.version
         /\ DOMAIN AppliedLog = 1..snapshot.version
         /\ \A x \in receipts : x.version \in 1..snapshot.version /\ AppliedLog[x.version] = x.req
         /\ \A k \in 1..snapshot.version : \E x \in receipts : x.version = k /\ AppliedLog[k] = x.req
<1>1. snapshot.version \in Nat /\ (\A x \in receipts : x.req \in Requests)
  BY DEF StoreInv, TypeOK
<1>2. \A k \in 1..snapshot.version : \E x \in receipts : x.version = k
  BY DEF StoreInv, OneHistory
<1>3. \A k \in 1..snapshot.version :
        /\ (CHOOSE x \in receipts : x.version = k) \in receipts
        /\ (CHOOSE x \in receipts : x.version = k).version = k
  BY <1>2
<1>4. \A k \in 1..snapshot.version : AppliedLog[k] = (CHOOSE x \in receipts : x.version = k).req
  BY DEF AppliedLog
<1>5. DOMAIN AppliedLog = 1..snapshot.version /\ AppliedLog \in [1..snapshot.version -> Requests]
  BY <1>1, <1>3 DEF AppliedLog
<1>6. AppliedLog \in Seq(Requests) /\ Len(AppliedLog) = snapshot.version
  BY <1>1, <1>5
<1>7. \A x \in receipts : x.version \in 1..snapshot.version /\ AppliedLog[x.version] = x.req
  <2> TAKE x \in receipts
  <2>1. x.version \in 1..snapshot.version
    BY DEF StoreInv, OneHistory
  <2>2. x = CHOOSE y \in receipts : y.version = x.version
    BY <1>3, <2>1 DEF StoreInv, OneHistory
  <2> QED
    BY <1>4, <2>1, <2>2
<1>8. \A k \in 1..snapshot.version : \E x \in receipts : x.version = k /\ AppliedLog[k] = x.req
  BY <1>3, <1>4
<1> QED
  BY <1>5, <1>6, <1>7, <1>8

(* An id is in the log just when it has a receipt. *)
LEMMA PlacesOfReceipts ==
  ASSUME StoreInv, NEW id
  PROVE  Log!Places(id) = {} <=> {x \in receipts : x.req.id = id} = {}
  BY LogOfReceipts DEF Log!Places

(* A bootstrapped match is an empty log. *)
LEMMA RefineInit == Init => Log!LogInit
<1> SUFFICES ASSUME Init PROVE Log!LogInit
  OBVIOUS
<1>1. AppliedLog = <<>>
  BY DEF Init, Bootstrapped, AppliedLog
<1>2. \A p \in Callers : Replies[p] \in {Log!Reply(r, "REJECTED", 0) : r \in Log!Requests}
  <2> TAKE p \in Callers
  <2>1. PICK r \in Requests : call[p] = Call(r, 0, "IDLE", "REJECTED", 0)
    BY DEF Init
  <2> QED
    BY <2>1 DEF Replies, Call, Log!Reply, Log!Requests, Requests
<1> QED
  BY <1>1, <1>2 DEF Log!LogInit, Replies

(* An answer changes the reply of its caller only. *)
LEMMA ReplyMapped ==
  ASSUME StoreInv, NEW p \in Callers, NEW kind, NEW version, Answer(p, kind, version)
  PROVE  Log!Answered(p, kind, version)
<1> DEFINE new == Log!Reply(call[p].req, kind, version)
<1>1. call \in [Callers -> Calls]
  BY DEF StoreInv, TypeOK, Calls
<1>2. /\ call'[p].req = call[p].req /\ call'[p].kind = kind /\ call'[p].version = version
      /\ \A q \in Callers : q # p => call'[q] = call[q]
  BY <1>1 DEF Answer, Call
<1>3. Replies' = [q \in Callers |-> [req |-> call'[q].req, kind |-> call'[q].kind, version |-> call'[q].version]]
  BY DEF Replies
<1>4. \A q \in Callers : Replies'[q] = IF q = p THEN new ELSE Replies[q]
  <2> TAKE q \in Callers
  <2>1. CASE q = p
    BY <1>2, <1>3, <2>1 DEF Log!Reply
  <2>2. CASE q # p
    BY <1>2, <1>3, <2>2 DEF Replies
  <2> QED
    BY <2>1, <2>2
<1>5. Replies = [q \in Callers |-> Replies[q]] /\ Replies' = [q \in Callers |-> Replies'[q]]
        /\ Replies[p].req = call[p].req
  BY <1>3 DEF Replies
<1> HIDE DEF new
<1>6. Replies' = [Replies EXCEPT ![p] = new]
  BY <1>4, <1>5
<1> QED
  BY <1>5, <1>6 DEF Log!Answered, new

(* A step of the store that leaves the log alone and answers a request.      *)
LEMMA AnswerMapped ==
  ASSUME StoreInv, NEW p \in Callers, NEW kind, NEW version, Answer(p, kind, version),
         UNCHANGED <<snapshot, receipts>>
  PROVE  AppliedLog' = AppliedLog /\ Log!Answered(p, kind, version)
  BY ReplyMapped DEF AppliedLog

(* A step inside a transaction is no step of the log. *)
LEMMA QuietStep ==
  ASSUME StoreInv, NEW p \in Callers, NEW c, call' = [call EXCEPT ![p] = c],
         c.req = call[p].req, c.kind = call[p].kind, c.version = call[p].version,
         UNCHANGED <<snapshot, receipts>>
  PROVE  UNCHANGED Log!logVars
<1>1. call \in [Callers -> Calls]
  BY DEF StoreInv, TypeOK, Calls
<1>2. AppliedLog' = AppliedLog
  BY DEF AppliedLog
<1>3. \A q \in Callers : call'[q] = IF q = p THEN c ELSE call[q]
  BY <1>1
<1>4. Replies' = Replies
  BY <1>3 DEF Replies
<1> QED
  BY <1>2, <1>4 DEF Log!logVars

(* The answer of a receipt is a repeat or a mismatch in the log. *)
LEMMA RefineReceipt ==
  ASSUME StoreInv, NEW p \in Callers, ~At(p, "IDLE"), UNCHANGED <<snapshot, receipts>>,
         NEW x \in receipts, x.req.id = call[p].req.id,
         IF x.req = call[p].req THEN Answer(p, "REPLAYED", x.version) ELSE Answer(p, "MISMATCH", 0)
  PROVE  Log!Repeat(p) \/ Log!Mismatch(p)
<1>1. x.version \in 1..snapshot.version /\ AppliedLog[x.version] = x.req
  BY LogOfReceipts
<1>2. x.version \in Log!Places(call[p].req.id)
  BY <1>1, LogOfReceipts DEF Log!Places
<1>3. Replies[p].req = call[p].req /\ Log!Waiting(p)
  BY DEF Replies, Log!Waiting, StoreInv, BusyIsWaiting
<1>4. CASE x.req = call[p].req
  BY <1>1, <1>2, <1>3, <1>4, AnswerMapped DEF Log!Repeat
<1>5. CASE x.req # call[p].req
  BY <1>1, <1>2, <1>3, <1>5, AnswerMapped DEF Log!Mismatch
<1> QED
  BY <1>4, <1>5

(* The commit is the moment at which a command takes effect.                 *)
LEMMA RefineWrite ==
  ASSUME StoreInv, StoreInv', NEW p \in Callers, At(p, "COMMIT"), snapshot = call[p].seen,
         NEW count \in EventCounts, Writes(p, count),
         Answer(p, "APPLIED", call[p].seen.version + 1) \/ Answer(p, "ERROR", 0)
  PROVE  Log!AppendRequest(p)
<1> DEFINE r == call[p].req
           v == snapshot.version + 1
           receipt == [req |-> r, version |-> v, state |-> Append(snapshot.state, r.body)]
<1>1. call \in [Callers -> Calls] /\ snapshot.version \in Nat /\ r \in Requests
  BY DEF StoreInv, TypeOK, Calls
<1>2. /\ receipts' = receipts \cup {receipt}
      /\ snapshot'.version = v
  BY DEF Writes
<1>3. r.expected = snapshot.version /\ {x \in receipts : x.req.id = r.id} = {}
  BY DEF StoreInv, TypeOK, ReadsAreCurrent
<1>4. Log!Places(r.id) = {}
  BY <1>3, PlacesOfReceipts
<1>5. AppliedLog \in Seq(Requests) /\ Len(AppliedLog) = snapshot.version
  BY LogOfReceipts
<1>6. AppliedLog' = Append(AppliedLog, r)
  <2>1. \A k \in 1..v : AppliedLog'[k] = (CHOOSE x \in receipts' : x.version = k).req
    BY <1>2 DEF AppliedLog
  <2>2. \A x, y \in receipts' : x.version = y.version => x = y
    BY DEF StoreInv, OneHistory
  <2>3. receipt \in receipts' /\ receipt.version = v /\ receipt.req = r
    BY <1>2
  <2>4. v \in 1..v /\ AppliedLog'[v] = r
    <3>1. (CHOOSE x \in receipts' : x.version = v) = receipt
      BY <2>2, <2>3
    <3> QED
      BY <1>1, <2>1, <2>3, <3>1
  <2>5. ASSUME NEW k \in 1..snapshot.version PROVE AppliedLog'[k] = AppliedLog[k]
    <3>1. PICK x \in receipts : x.version = k /\ AppliedLog[k] = x.req
      BY LogOfReceipts
    <3>2. x \in receipts'
      BY <1>2
    <3>3. (CHOOSE y \in receipts' : y.version = k) = x
      BY <2>2, <3>1, <3>2
    <3>4. k \in 1..v
      BY <1>1
    <3> QED
      BY <2>1, <3>1, <3>3, <3>4
  <2>6. DOMAIN AppliedLog' = 1..v /\ AppliedLog' = [k \in 1..v |-> AppliedLog'[k]]
    BY <1>2 DEF AppliedLog
  <2> HIDE DEF r, receipt
  <2>7. Append(AppliedLog, r) = [k \in 1..v |-> IF k = v THEN r ELSE AppliedLog[k]]
    BY <1>1, <1>5 DEF r
  <2>8. \A k \in 1..v : AppliedLog'[k] = IF k = v THEN r ELSE AppliedLog[k]
    BY <1>1, <2>4, <2>5
  <2> QED
    BY <2>6, <2>7, <2>8
<1>7. Log!Answered(p, "APPLIED", Len(AppliedLog) + 1) \/ Log!Answered(p, "ERROR", 0)
  BY <1>5, ReplyMapped
<1>8. Log!Waiting(p) /\ Replies[p].req = r
  BY DEF Log!Waiting, Replies, StoreInv, BusyIsWaiting, At
<1> QED
  BY <1>3, <1>4, <1>5, <1>6, <1>7, <1>8 DEF Log!AppendRequest

(* Every step of the store is a step of the log or none. *)
LEMMA RefineStep == StoreInv /\ StoreInv' /\ [Next]_vars => [Log!LogNext]_Log!logVars
<1> SUFFICES ASSUME StoreInv, StoreInv', [Next]_vars PROVE [Log!LogNext]_Log!logVars
  OBVIOUS
<1>1. CASE UNCHANGED vars
  BY <1>1 DEF vars, AppliedLog, Replies, Log!logVars
<1>2. ASSUME NEW p \in Callers, NEW r \in Requests, NEW t \in Times, Send(p, r, t)
      PROVE  Log!LogNext
  <2> DEFINE new == Log!Reply(r, "WAITING", 0)
  <2>1. call \in [Callers -> Calls] /\ AppliedLog' = AppliedLog
    BY <1>2 DEF StoreInv, TypeOK, Calls, Send, AppliedLog
  <2>2. ~Log!Waiting(p) /\ r \in Log!Requests
    BY <1>2 DEF Send, StoreInv, BusyIsWaiting, Log!Waiting, Replies, Requests, Log!Requests
  <2>3. \A q \in Callers : Replies'[q] = IF q = p THEN new ELSE Replies[q]
    BY <1>2, <2>1 DEF Send, Call, Replies, Log!Reply
  <2>4. Replies = [q \in Callers |-> Replies[q]] /\ Replies' = [q \in Callers |-> Replies'[q]]
    BY DEF Replies
  <2> HIDE DEF new
  <2>5. Replies' = [Replies EXCEPT ![p] = new]
    BY <2>3, <2>4
  <2> QED
    BY <2>1, <2>2, <2>5 DEF Log!Ask, Log!LogNext, new
<1>3. ASSUME NEW p \in Callers, Lookup(p)
      PROVE  [Log!LogNext]_Log!logVars
  <2>1. ~At(p, "IDLE") /\ UNCHANGED <<snapshot, receipts>>
    BY <1>3 DEF Lookup, At
  <2>2. CASE call' = [call EXCEPT ![p].step = "READ"]
    <3> DEFINE c == [call[p] EXCEPT !.step = "READ"]
    <3>1. call' = [call EXCEPT ![p] = c] /\ c.req = call[p].req /\ c.kind = call[p].kind
            /\ c.version = call[p].version
      BY <2>2, CallTypes DEF Calls
    <3> QED
      BY <2>1, <3>1, QuietStep
  <2>3. CASE Answer(p, "ERROR", 0)
    <3>1. Log!Waiting(p)
      BY <2>1 DEF Log!Waiting, Replies, StoreInv, BusyIsWaiting
    <3> QED
      BY <2>1, <2>3, <3>1, AnswerMapped DEF Log!Refuse, Log!LogNext
  <2> QED
    BY <1>3, <2>1, <2>2, <2>3, RefineReceipt DEF Lookup, LoadReceipt, Log!LogNext
<1>4. ASSUME NEW p \in Callers, Read(p)
      PROVE  [Log!LogNext]_Log!logVars
  <2>1. ~At(p, "IDLE") /\ UNCHANGED <<snapshot, receipts>>
    BY <1>4 DEF Read, At
  <2>2. Log!Waiting(p) /\ Replies[p].req = call[p].req
    BY <2>1 DEF Log!Waiting, Replies, StoreInv, BusyIsWaiting
  <2>3. CASE Answer(p, "REJECTED", 0) \/ Answer(p, "ERROR", 0)
    BY <2>1, <2>2, <2>3, AnswerMapped DEF Log!Refuse, Log!LogNext
  <2>4. CASE /\ {x \in receipts : x.req.id = call[p].req.id} = {}
             /\ snapshot.version # call[p].req.expected /\ Answer(p, "CONFLICT", 0)
    BY <2>1, <2>2, <2>4, AnswerMapped, PlacesOfReceipts, LogOfReceipts DEF Log!Conflict, Log!LogNext
  <2>5. CASE call' = [call EXCEPT ![p].step = "COMMIT", ![p].seen = snapshot, ![p].last = LastSequence]
    <3> DEFINE c == [call[p] EXCEPT !.step = "COMMIT", !.seen = snapshot, !.last = LastSequence]
    <3>1. call' = [call EXCEPT ![p] = c] /\ c.req = call[p].req /\ c.kind = call[p].kind
            /\ c.version = call[p].version
      BY <2>5, CallTypes DEF Calls
    <3> QED
      BY <2>1, <3>1, QuietStep
  <2>6. ASSUME NEW x \in receipts, x.req.id = call[p].req.id,
               IF x.req = call[p].req THEN Answer(p, "REPLAYED", x.version) ELSE Answer(p, "MISMATCH", 0)
        PROVE  Log!LogNext
    BY <2>1, <2>6, RefineReceipt DEF Log!LogNext
  <2> QED
    BY <1>4, <2>3, <2>4, <2>5, <2>6 DEF Read, LoadReceipt, Decide
<1>5. ASSUME NEW p \in Callers, Commit(p)
      PROVE  [Log!LogNext]_Log!logVars
  <2>1. CASE Answer(p, "ERROR", 0) /\ UNCHANGED <<snapshot, receipts, actions, outbox>>
    <3>1. Log!Waiting(p)
      BY <1>5 DEF Commit, At, Log!Waiting, Replies, StoreInv, BusyIsWaiting
    <3> QED
      BY <2>1, <3>1, AnswerMapped DEF Log!Refuse, Log!LogNext
  <2>2. CASE /\ call' = [call EXCEPT ![p].step = "READ"]
             /\ UNCHANGED <<snapshot, receipts, actions, outbox>>
    <3> DEFINE c == [call[p] EXCEPT !.step = "READ"]
    <3>1. call' = [call EXCEPT ![p] = c] /\ c.req = call[p].req /\ c.kind = call[p].kind
            /\ c.version = call[p].version
      BY <2>2, CallTypes DEF Calls
    <3> QED
      BY <2>2, <3>1, QuietStep
  <2>3. ASSUME snapshot = call[p].seen, NEW count \in EventCounts, Writes(p, count),
               Answer(p, "APPLIED", call[p].seen.version + 1) \/ Answer(p, "ERROR", 0)
        PROVE  Log!LogNext
    BY <1>5, <2>3, RefineWrite DEF Commit, Log!LogNext
  <2> QED
    BY <1>5, <2>1, <2>2, <2>3 DEF Commit
<1> QED
  BY <1>1, <1>2, <1>3, <1>4, <1>5 DEF Next

(***************************************************************************)
(* The store implements the log: every request that races others takes     *)
(* effect in one step, at its commit, or is answered from what is there.   *)
(***************************************************************************)
THEOREM StoreImplementsLog == Spec => ImplementsLog
  BY RefineInit, RefineStep, Store, PTL DEF Spec, ImplementsLog, Log!LogSpec
=============================================================================
