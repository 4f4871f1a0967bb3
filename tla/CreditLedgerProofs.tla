------------------------- MODULE CreditLedgerProofs --------------------------
(***************************************************************************)
(* Proofs about CreditLedger, for any number of invocations, run keys, jobs *)
(* and periods: its invariants; that it implements CreditAccount; and, for  *)
(* the behaviours of MCCreditLedger, what is true as long as no call has    *)
(* been interrupted.                                                       *)
(***************************************************************************)
EXTENDS MCCreditLedger, FiniteSetTheorems, TLAPS

-----------------------------------------------------------------------------
(***************************************************************************)
(* Types                                                                   *)
(***************************************************************************)

\* What a call has in hand is settled by the statement it is at.
LEMMA CallShape ==
    ASSUME NEW c \in Call
    PROVE  /\ c.pc = "idle" => c = Idle
           /\ c.pc = "ensure" => c \in Ensuring
           /\ c.pc \in {"snapshot", "lookup", "hold", "holdOverage"} => c \in Choosing
           /\ c.pc \in {"insert", "undo"} => c \in Booking
           /\ c.pc \in {"findConsume", "findRelease"} => c \in Finding
           /\ c.pc \in {"flipConsume", "move", "unflipConsume",
                        "flipRelease", "drop", "unflipRelease"} => c \in Settling
           /\ c.pc \in {"putSubscription", "putEnsure", "putPeriod"} => c \in Adjusting
BY DEF Call, Idle, Ensuring, Choosing, Booking, Finding, Settling, Adjusting

LEMMA BucketsDiffer ==
    ASSUME NEW p \in Period, NEW q \in Period
    PROVE  /\ PlanBucket(p) \in Bucket
           /\ OverageBucket(p) \in Bucket
           /\ PlanBucket(p) # OverageBucket(q)
           /\ PlanBucket(p) = PlanBucket(q) => p = q
           /\ OverageBucket(p) = OverageBucket(q) => p = q
BY DEF Bucket, PlanBucket, OverageBucket

LEMMA InitType == Init => TypeOK
BY OverageAssumption, PlanCreditsAssumption
   DEF Init, TypeOK, Subscription, Bucket, Call, OverageBucket

\* The INSERT OR IGNORE keeps the limits within the clamp.
LEMMA EnsurePeriodType ==
    ASSUME TypeOK, NEW s \in Subscription, EnsurePeriod(s)
    PROVE  /\ opened' \subseteq Period
           /\ limit' \in [Bucket -> Nat]
           /\ \A p \in Period : limit'[OverageBucket(p)] <= MaxOverage
<1>1. /\ s.period \in Period /\ s.credits \in Nat
      /\ s.overage \in Nat /\ s.overage <= MaxOverage
  <2>1. s.period \in Period /\ s.credits \in PlanCredits /\ s.overage \in 0..MaxOverage
    BY DEF Subscription
  <2>2. s.credits \in Nat
    BY <2>1, PlanCreditsAssumption
  <2>3. MaxOverage \in Nat
    BY OverageAssumption
  <2>4. s.overage \in Nat /\ s.overage <= MaxOverage
    BY <2>1, <2>3
  <2>5. QED
    BY <2>1, <2>2, <2>4
<1>2. CASE s.period \in opened
  BY <1>2 DEF EnsurePeriod, TypeOK
<1>3. CASE s.period \notin opened
  <2>1. /\ opened' = opened \cup {s.period}
        /\ limit' = [limit EXCEPT ![PlanBucket(s.period)] = s.credits,
                                  ![OverageBucket(s.period)] = s.overage]
    BY <1>3 DEF EnsurePeriod
  <2>2. limit \in [Bucket -> Nat] /\ opened \subseteq Period
    BY DEF TypeOK
  <2>3. limit' \in [Bucket -> Nat]
    BY <1>1, <2>1, <2>2, BucketsDiffer
  <2>4. ASSUME NEW p \in Period
        PROVE  limit'[OverageBucket(p)] <= MaxOverage
    <3>1. CASE p = s.period
      BY <1>1, <2>1, <2>2, <3>1, BucketsDiffer
    <3>2. CASE p # s.period
      <4>1. limit'[OverageBucket(p)] = limit[OverageBucket(p)]
        BY <1>1, <2>1, <2>2, <3>2, BucketsDiffer
      <4>2. QED
        BY <4>1 DEF TypeOK
    <3>3. QED
      BY <3>1, <3>2
  <2>5. QED
    BY <1>1, <2>1, <2>2, <2>3, <2>4
<1>4. QED
  BY <1>2, <1>3

LEMMA ReserveType ==
    ASSUME TypeOK, NEW w \in Worker, ReserveStep(w)
    PROVE  TypeOK'
<1> USE DEF At, Goto, Finish
<1>0. call[w] \in Call
  BY DEF TypeOK
<1>a. Idle \in Call
  BY DEF Call
<1>1. ASSUME NEW k \in RunKey, BeginReserve(w, k) PROVE TypeOK'
  <2>1. [pc |-> "ensure", run |-> k, loaded |-> subscription] \in Call
    BY DEF TypeOK, Call, Ensuring
  <2>2. QED
    BY <1>1, <2>1 DEF BeginReserve, TypeOK
<1>2. CASE Ensure(w)
  <2>1. call[w] \in Ensuring
    BY <1>0, <1>2, CallShape DEF Ensure
  <2>2. call[w].loaded \in Subscription /\ call[w].run \in RunKey
    BY <2>1 DEF Ensuring
  <2>3. [pc |-> "snapshot", run |-> call[w].run, period |-> call[w].loaded.period,
         overage |-> FALSE] \in Call
    BY <2>2 DEF Call, Choosing, Subscription
  <2>4. EnsurePeriod(call[w].loaded)
    BY <1>2 DEF Ensure
  <2>5. QED
    BY <1>2, <2>2, <2>3, <2>4, EnsurePeriodType DEF Ensure, TypeOK
<1>3. CASE Snapshot(w)
  <2>1. call[w] \in Choosing
    BY <1>0, <1>3, CallShape DEF Snapshot
  <2>2. ASSUME NEW enabled \in BOOLEAN
        PROVE  [call[w] EXCEPT !.pc = "lookup", !.overage = enabled] \in Choosing
    BY <2>1 DEF Choosing
  <2>3. (limit[OverageBucket(call[w].period)] > 0) \in BOOLEAN
    OBVIOUS
  <2>4. [call[w] EXCEPT !.pc = "lookup",
                        !.overage = limit[OverageBucket(call[w].period)] > 0] \in Call
    BY <2>2, <2>3, Zenon DEF Call
  <2>5. QED
    BY <1>3, <2>4 DEF Snapshot, TypeOK
<1>4. CASE Lookup(w)
  <2>1. call[w] \in Choosing
    BY <1>0, <1>4, CallShape DEF Lookup
  <2>2. [call[w] EXCEPT !.pc = "hold"] \in Call
    BY <2>1 DEF Choosing, Call
  <2>3. QED
    BY <1>4, <1>a, <2>2 DEF Lookup, TypeOK
<1>5. ASSUME NEW b \in Bucket, NEW full, TakeUnit(w, b, full), call[w] \in Choosing,
             full => \/ call' = [call EXCEPT ![w] = Idle]
                     \/ call' = [call EXCEPT ![w].pc = "holdOverage"]
      PROVE  TypeOK'
  <2>1. [call[w] EXCEPT !.pc = "holdOverage"] \in Call
    BY <1>5 DEF Choosing, Call
  <2>2. [pc |-> "insert", run |-> call[w].run, bucket |-> b] \in Call
    BY <1>5 DEF Choosing, Booking, Call
  <2>3. CASE HasRoom(b)
    BY <1>5, <2>2, <2>3 DEF TakeUnit, TypeOK
  <2>4. CASE ~HasRoom(b)
    BY <1>5, <1>a, <2>1, <2>4 DEF TakeUnit, TypeOK
  <2>5. QED
    BY <2>3, <2>4
<1>6. CASE Hold(w)
  <2>1. call[w] \in Choosing
    BY <1>0, <1>6, CallShape DEF Hold
  <2>2. PlanBucket(call[w].period) \in Bucket
    BY <2>1, BucketsDiffer DEF Choosing
  <2>3. QED
    BY <1>5, <1>6, <2>1, <2>2 DEF Hold
<1>7. CASE HoldOverage(w)
  <2>1. call[w] \in Choosing
    BY <1>0, <1>7, CallShape DEF HoldOverage
  <2>2. OverageBucket(call[w].period) \in Bucket
    BY <2>1, BucketsDiffer DEF Choosing
  <2>3. QED
    BY <1>5, <1>7, <2>1, <2>2 DEF HoldOverage
<1>8. CASE Insert(w) \/ InsertFails(w)
  <2>1. call[w] \in Booking
    BY <1>0, <1>8, CallShape DEF Insert, InsertFails
  <2>2. [call[w] EXCEPT !.pc = "undo"] \in Call
    BY <2>1 DEF Booking, Call
  <2>3. [state |-> "reserved", bucket |-> call[w].bucket] \in Row
    BY <2>1 DEF Booking, Row
  <2>4. QED
    BY <1>8, <1>a, <2>1, <2>2, <2>3 DEF Insert, InsertFails, TypeOK
<1>9. CASE Undo(w)
  <2>1. call[w].bucket \in Bucket
    BY <1>0, <1>9, CallShape DEF Undo, Booking
  <2>2. QED
    BY <1>9, <1>a, <2>1 DEF Undo, TypeOK
<1>10. QED
  BY <1>1, <1>2, <1>3, <1>4, <1>6, <1>7, <1>8, <1>9 DEF ReserveStep

\* consumeReservationForJob and releaseReservationForJob: the statements they share.
LEMMA SettleType ==
    ASSUME TypeOK, NEW w \in Worker, ConsumeStep(w) \/ ReleaseStep(w)
    PROVE  TypeOK'
<1> USE DEF At, Goto, Finish
<1>0. call[w] \in Call /\ Idle \in Call
  BY DEF TypeOK, Call
<1>1. ASSUME NEW j \in Job, BeginConsume(w, j) \/ BeginRelease(w, j) PROVE TypeOK'
  <2>1. /\ [pc |-> "findConsume", job |-> j] \in Call
        /\ [pc |-> "findRelease", job |-> j] \in Call
    BY DEF Call, Finding
  <2>2. QED
    BY <1>1, <2>1 DEF BeginConsume, BeginRelease, Begin, TypeOK
<1>2. ASSUME NEW from, NEW to \in {"flipConsume", "flipRelease"}, Find(w, from, to)
      PROVE  TypeOK'
  <2>1. ASSUME NEW k \in ReservedRows(call[w].job)
        PROVE  [pc |-> to, run |-> k, bucket |-> rows[k].bucket] \in Call
    BY DEF ReservedRows, TypeOK, Row, NoRow, Settling, Call
  <2>2. QED
    BY <1>0, <1>2, <2>1 DEF Find, TypeOK
<1>3. ASSUME NEW from \in {"flipConsume", "flipRelease"}, NEW to \in {"move", "drop"},
             NEW ending \in {"consumed", "released"}, Flip(w, from, ending, to)
      PROVE  TypeOK'
  <2>1. call[w] \in Settling
    BY <1>0, <1>3, CallShape DEF Flip
  <2>2. [call[w] EXCEPT !.pc = to] \in Call
    BY <2>1 DEF Settling, Call
  <2>3. rows[call[w].run].state = "reserved" =>
            [rows[call[w].run] EXCEPT !.state = ending] \in Row
    BY <2>1 DEF TypeOK, Settling, Row, NoRow
  <2>4. QED
    BY <1>0, <1>3, <2>1, <2>2, <2>3 DEF Flip, TypeOK
<1>4. CASE Move(w) \/ Drop(w)
  BY <1>0, <1>4 DEF Move, Drop, TypeOK
<1>5. ASSUME NEW from \in {"move", "drop"},
             NEW to \in {"unflipConsume", "unflipRelease"}, Fails(w, from, to)
      PROVE  TypeOK'
  <2>1. call[w] \in Settling
    BY <1>0, <1>5, CallShape DEF Fails
  <2>2. [call[w] EXCEPT !.pc = to] \in Call
    BY <2>1 DEF Settling, Call
  <2>3. QED
    BY <1>5, <2>2 DEF Fails, TypeOK
<1>6. ASSUME NEW from \in {"unflipConsume", "unflipRelease"},
             NEW ending \in {"consumed", "released"}, Unflip(w, from, ending)
      PROVE  TypeOK'
  <2>1. call[w] \in Settling
    BY <1>0, <1>6, CallShape DEF Unflip
  <2>2. rows[call[w].run].state = ending =>
            [rows[call[w].run] EXCEPT !.state = "reserved"] \in Row
    BY <1>6, <2>1 DEF TypeOK, Settling, Row, NoRow
  <2>3. QED
    BY <1>0, <1>6, <2>1, <2>2 DEF Unflip, TypeOK
<1>7. QED
  BY <1>1, <1>2, <1>3, <1>4, <1>5, <1>6
     DEF ConsumeStep, ReleaseStep, FindConsume, FindRelease, FlipConsume, FlipRelease,
         MoveFails, DropFails, UnflipConsume, UnflipRelease

LEMMA PutType ==
    ASSUME TypeOK, NEW w \in Worker, PutStep(w)
    PROVE  TypeOK'
<1> USE DEF At, Goto, Finish
<1>0. call[w] \in Call /\ Idle \in Call
  BY DEF TypeOK, Call
<1>1. ASSUME NEW n \in OverageRequest, BeginPut(w, n) PROVE TypeOK'
  <2>1. Clamp(n) \in 0..MaxOverage
    BY OverageAssumption DEF Clamp
  <2>2. [subscription EXCEPT !.overage = Clamp(n)] \in Subscription
    BY <2>1 DEF TypeOK, Subscription
  <2>3. [pc |-> "putSubscription",
         loaded |-> [subscription EXCEPT !.overage = Clamp(n)]] \in Call
    BY <2>2 DEF Call, Adjusting
  <2>4. QED
    BY <1>1, <2>3 DEF BeginPut, TypeOK
<1>2. ASSUME call[w].pc \in {"putSubscription", "putEnsure", "putPeriod"}
      PROVE  /\ call[w].loaded \in Subscription
             /\ call[w].loaded.period \in Period
             /\ call[w].loaded.overage \in 0..MaxOverage
             /\ [call[w] EXCEPT !.pc = "putEnsure"] \in Call
             /\ [call[w] EXCEPT !.pc = "putPeriod"] \in Call
  <2>1. call[w] \in Adjusting
    BY <1>0, <1>2, CallShape
  <2>2. QED
    BY <2>1 DEF Adjusting, Subscription, Call
<1>3. CASE PutSubscription(w)
  <2>1. subscription' \in Subscription
    BY <1>2, <1>3 DEF PutSubscription, TypeOK, Subscription
  <2>2. QED
    BY <1>2, <1>3, <2>1 DEF PutSubscription, TypeOK
<1>4. CASE PutEnsure(w)
  <2>1. EnsurePeriod(call[w].loaded) /\ call[w].loaded \in Subscription
    BY <1>2, <1>4 DEF PutEnsure
  <2>2. QED
    BY <1>2, <1>4, <2>1, EnsurePeriodType DEF PutEnsure, TypeOK
<1>5. CASE PutPeriod(w)
  <2>1. OverageBucket(call[w].loaded.period) \in Bucket
    BY <1>2, <1>5, BucketsDiffer DEF PutPeriod
  <2>2. limit' \in [Bucket -> Nat]
    BY <1>2, <1>5, <2>1, OverageAssumption DEF PutPeriod, TypeOK
  <2>3. \A p \in Period : limit'[OverageBucket(p)] <= MaxOverage
    BY <1>2, <1>5, <2>1, BucketsDiffer, OverageAssumption DEF PutPeriod, TypeOK
  <2>4. QED
    BY <1>0, <1>5, <2>2, <2>3 DEF PutPeriod, TypeOK
<1>6. QED
  BY <1>1, <1>3, <1>4, <1>5 DEF PutStep

LEMMA NextType == TypeOK /\ [Next]_vars => TypeOK'
<1> SUFFICES ASSUME TypeOK, [Next]_vars PROVE TypeOK'
  OBVIOUS
<1>1. ASSUME NEW w \in Worker, Interrupt(w) PROVE TypeOK'
  BY <1>1 DEF Interrupt, Finish, TypeOK, Call
<1>2. ASSUME NEW p \in Period, NEW n \in PlanCredits, SubscriptionEvent(p, n) PROVE TypeOK'
  BY <1>2 DEF SubscriptionEvent, TypeOK, Subscription
<1>3. CASE UNCHANGED vars
  BY <1>3 DEF vars, TypeOK
<1>4. QED
  BY <1>1, <1>2, <1>3, ReserveType, SettleType, PutType DEF Next

\* The ledger's variables keep their types, and no overage limit passes the clamp,
\* whatever the calls do.
THEOREM TypeCorrect == Spec => []TypeOK
BY InitType, NextType, PTL DEF Spec

-----------------------------------------------------------------------------
(***************************************************************************)
(* Counting. A step touches at most one call and one row, so every count    *)
(* moves by what that call and that row weigh in it before and after.      *)
(***************************************************************************)
Weight(x, S) == IF x \in S THEN 1 ELSE 0

LEMMA Recount ==
    ASSUME NEW S, NEW T, NEW x, IsFiniteSet(S), S \ {x} = T \ {x}
    PROVE  /\ Cardinality(S) \in Nat
           /\ Cardinality(T) \in Nat
           /\ Cardinality(T) = Cardinality(S) + Weight(x, T) - Weight(x, S)
<1> DEFINE R == S \ {x}
<1>1. IsFiniteSet(R) /\ Cardinality(R) = Cardinality(S) - Weight(x, S)
  <2>1. IsFiniteSet(R) /\ Cardinality(R) = IF x \in S THEN Cardinality(S) - 1
                                                      ELSE Cardinality(S)
    BY FS_RemoveElement
  <2>2. Cardinality(S) \in Nat
    BY FS_CardinalityType
  <2>3. QED
    BY <2>1, <2>2 DEF Weight
<1>2. Cardinality(R) \in Nat /\ Cardinality(S) \in Nat
  BY <1>1, FS_CardinalityType
<1>3. CASE x \in T
  <2>1. T = R \cup {x} /\ x \notin R
    BY <1>3
  <2>2. Cardinality(T) = Cardinality(R) + 1
    BY <1>1, <2>1, FS_AddElement
  <2>3. QED
    BY <1>1, <1>2, <1>3, <2>2 DEF Weight
<1>4. CASE x \notin T
  <2>1. T = R
    BY <1>4
  <2>2. QED
    BY <1>1, <1>2, <1>4, <2>1 DEF Weight
<1>5. QED
  BY <1>3, <1>4

\* Only the call of w and the row of run key k may differ after the step.
Touches(w, k) ==
    /\ \A v \in Worker \ {w} : call'[v] = call[v]
    /\ \A l \in RunKey \ {k} : rows'[l] = rows[l]

LEMMA RecountCalls ==
    ASSUME NEW w, NEW k, NEW b, NEW pcs, Touches(w, k)
    PROVE  /\ Cardinality(CallsAt(b, pcs)) \in Nat
           /\ Cardinality(CallsAt(b, pcs)') \in Nat
           /\ Cardinality(CallsAt(b, pcs)') =
                  Cardinality(CallsAt(b, pcs)) + Weight(w, CallsAt(b, pcs)')
                                               - Weight(w, CallsAt(b, pcs))
<1>1. CallsAt(b, pcs) \subseteq Worker
  BY DEF CallsAt
<1>2. IsFiniteSet(CallsAt(b, pcs))
  BY <1>1, FS_Subset, FiniteAssumption
<1>3. CallsAt(b, pcs) \ {w} = CallsAt(b, pcs)' \ {w}
  BY DEF CallsAt, Touches
<1>4. QED
  BY <1>2, <1>3, Recount

LEMMA RecountRows ==
    ASSUME NEW w, NEW k, NEW b, NEW states, Touches(w, k)
    PROVE  /\ Cardinality(RowsOf(b, states)) \in Nat
           /\ Cardinality(RowsOf(b, states)') \in Nat
           /\ Cardinality(RowsOf(b, states)') =
                  Cardinality(RowsOf(b, states)) + Weight(k, RowsOf(b, states)')
                                                 - Weight(k, RowsOf(b, states))
<1>1. RowsOf(b, states) \subseteq RunKey
  BY DEF RowsOf
<1>2. IsFiniteSet(RowsOf(b, states))
  BY <1>1, FS_Subset, FiniteAssumption
<1>3. RowsOf(b, states) \ {k} = RowsOf(b, states)' \ {k}
  BY DEF RowsOf, Touches
<1>4. QED
  BY <1>2, <1>3, Recount

\* What call w, and what row k, add to a count of bucket b.
CallGain(w, b, pcs)   == Weight(w, CallsAt(b, pcs)') - Weight(w, CallsAt(b, pcs))
RowGain(k, b, states) == Weight(k, RowsOf(b, states)') - Weight(k, RowsOf(b, states))

Gain(counter, b) == counter'[b] - counter[b]

\* The books of a bucket stay right when its counters move by no less (no more,
\* for used) than the counts they stand for, within the ceiling.
LEMMA Balance ==
    ASSUME NEW w, NEW k, NEW b \in Bucket, TypeOK, TypeOK', Books(b), Touches(w, k),
           Gain(reserved, b) >= RowGain(k, b, {"reserved"})
                                + CallGain(w, b, BookingPc \cup ConsumePc \cup ReleasePc),
           Gain(used, b) + CallGain(w, b, ConsumePc) <= RowGain(k, b, {"consumed"}),
           Gain(used, b) + Gain(reserved, b) >= RowGain(k, b, {"reserved", "consumed"})
                                                + CallGain(w, b, BookingPc \cup ReleasePc),
           Accounted(b)' <= Ceiling(b)'
    PROVE  Books(b)'
<1> DEFINE All == BookingPc \cup ConsumePc \cup ReleasePc
           Half == BookingPc \cup ReleasePc
           Live == {"reserved", "consumed"}
<1>1. /\ reserved[b] \in Int /\ used[b] \in Int
      /\ reserved'[b] \in Int /\ used'[b] \in Int
  BY DEF TypeOK
<1>2. /\ Cardinality(RowsOf(b, {"reserved"})) \in Nat
      /\ Cardinality(RowsOf(b, {"reserved"})') =
            Cardinality(RowsOf(b, {"reserved"})) + RowGain(k, b, {"reserved"})
  BY RecountRows DEF RowGain
<1>3. /\ Cardinality(RowsOf(b, {"consumed"})) \in Nat
      /\ Cardinality(RowsOf(b, {"consumed"})') =
            Cardinality(RowsOf(b, {"consumed"})) + RowGain(k, b, {"consumed"})
  BY RecountRows DEF RowGain
<1>4. /\ Cardinality(RowsOf(b, Live)) \in Nat
      /\ Cardinality(RowsOf(b, Live)') = Cardinality(RowsOf(b, Live)) + RowGain(k, b, Live)
  BY RecountRows DEF RowGain
<1>5. /\ Cardinality(CallsAt(b, All)) \in Nat
      /\ Cardinality(CallsAt(b, All)') = Cardinality(CallsAt(b, All)) + CallGain(w, b, All)
  BY RecountCalls DEF CallGain
<1>6. /\ Cardinality(CallsAt(b, ConsumePc)) \in Nat
      /\ Cardinality(CallsAt(b, ConsumePc)') =
            Cardinality(CallsAt(b, ConsumePc)) + CallGain(w, b, ConsumePc)
  BY RecountCalls DEF CallGain
<1>7. /\ Cardinality(CallsAt(b, Half)) \in Nat
      /\ Cardinality(CallsAt(b, Half)') = Cardinality(CallsAt(b, Half)) + CallGain(w, b, Half)
  BY RecountCalls DEF CallGain
<1>8. /\ RowGain(k, b, {"reserved"}) \in Int /\ RowGain(k, b, {"consumed"}) \in Int
      /\ RowGain(k, b, Live) \in Int /\ CallGain(w, b, All) \in Int
      /\ CallGain(w, b, ConsumePc) \in Int /\ CallGain(w, b, Half) \in Int
  BY DEF RowGain, CallGain, Weight
<1>9. reserved'[b] >= Cardinality(RowsOf(b, {"reserved"})') + Cardinality(CallsAt(b, All)')
  <2>1. reserved[b] >= Cardinality(RowsOf(b, {"reserved"})) + Cardinality(CallsAt(b, All))
    BY DEF Books
  <2>2. QED
    BY <1>1, <1>2, <1>5, <1>8, <2>1 DEF Gain
<1>10. used'[b] + Cardinality(CallsAt(b, ConsumePc)') <= Cardinality(RowsOf(b, {"consumed"})')
  <2>1. used[b] + Cardinality(CallsAt(b, ConsumePc)) <= Cardinality(RowsOf(b, {"consumed"}))
    BY DEF Books
  <2>2. QED
    BY <1>1, <1>3, <1>6, <1>8, <2>1 DEF Gain
<1>11. used'[b] + reserved'[b] >= Cardinality(RowsOf(b, Live)') + Cardinality(CallsAt(b, Half)')
  <2>1. used[b] + reserved[b] >= Cardinality(RowsOf(b, Live)) + Cardinality(CallsAt(b, Half))
    BY DEF Books, Accounted
  <2>2. QED
    BY <1>1, <1>4, <1>7, <1>8, <2>1 DEF Gain
<1>12. QED
  BY <1>9, <1>10, <1>11 DEF Books, Accounted

-----------------------------------------------------------------------------
(***************************************************************************)
(* The books, statement by statement                                       *)
(***************************************************************************)
LEMMA CeilingType ==
    ASSUME TypeOK, TypeOK', NEW b \in Bucket
    PROVE  /\ Ceiling(b) \in Nat /\ Accounted(b) \in Int
           /\ Ceiling(b)' \in Nat /\ Accounted(b)' \in Int
<1>1. MaxOverage \in Nat /\ limit[b] \in Nat /\ limit'[b] \in Nat
  BY OverageAssumption DEF TypeOK
<1>2. Ceiling(b) \in Nat /\ Ceiling(b)' \in Nat
  BY <1>1 DEF Ceiling
<1>3. /\ used[b] \in Int /\ reserved[b] \in Int
      /\ used'[b] \in Int /\ reserved'[b] \in Int
  BY DEF TypeOK
<1>4. QED
  BY <1>2, <1>3 DEF Accounted

\* The call takes on no unit it did not hold.
Lighter(w) ==
    \A P \in {BookingPc, ConsumePc, ReleasePc} :
        call'[w].pc \in P => call[w].pc \in P /\ call'[w].bucket = call[w].bucket

\* Statements that leave the counters and the rows alone.
LEMMA BooksUntouched ==
    ASSUME IInv, TypeOK', NEW w \in Worker, Lighter(w),
           \A v \in Worker \ {w} : call'[v] = call[v],
           UNCHANGED <<reserved, used, rows>>,
           \A b \in Bucket : Ceiling(b) <= Ceiling(b)'
    PROVE  \A b \in Bucket : Books(b)'
<1> SUFFICES ASSUME NEW b \in Bucket PROVE Books(b)'
  OBVIOUS
<1> PICK k : k = call[w].run
  OBVIOUS
<1>1. TypeOK /\ Books(b) /\ Touches(w, k)
  BY DEF IInv, Touches
<1>2. /\ RowGain(k, b, {"reserved"}) = 0
      /\ RowGain(k, b, {"consumed"}) = 0
      /\ RowGain(k, b, {"reserved", "consumed"}) = 0
  BY DEF RowGain, Weight, RowsOf
<1>3. ASSUME NEW pcs \in {BookingPc \cup ConsumePc \cup ReleasePc, ConsumePc,
                          BookingPc \cup ReleasePc}
      PROVE  CallGain(w, b, pcs) \in Int /\ CallGain(w, b, pcs) <= 0
  <2>1. w \in CallsAt(b, pcs)' => w \in CallsAt(b, pcs)
    BY <1>3 DEF Lighter, CallsAt
  <2>2. QED
    BY <2>1 DEF CallGain, Weight
<1>4. Accounted(b)' <= Ceiling(b)'
  <2>1. Accounted(b) <= Ceiling(b) /\ Ceiling(b) <= Ceiling(b)' /\ Accounted(b)' = Accounted(b)
    BY <1>1 DEF Books, Accounted
  <2>2. Ceiling(b) \in Nat /\ Ceiling(b)' \in Nat /\ Accounted(b) \in Int
    BY <1>1, CeilingType
  <2>3. QED
    BY <2>1, <2>2
<1>5. Gain(reserved, b) = 0 /\ Gain(used, b) = 0
  BY <1>1 DEF TypeOK, Gain
<1>6. /\ Gain(reserved, b) >= RowGain(k, b, {"reserved"})
              + CallGain(w, b, BookingPc \cup ConsumePc \cup ReleasePc)
      /\ Gain(used, b) + CallGain(w, b, ConsumePc) <= RowGain(k, b, {"consumed"})
      /\ Gain(used, b) + Gain(reserved, b)
            >= RowGain(k, b, {"reserved", "consumed"})
               + CallGain(w, b, BookingPc \cup ReleasePc)
  BY <1>2, <1>3, <1>5
<1>7. QED
  BY <1>1, <1>4, <1>6, Balance

\* The conditional UPDATE of the hold: the unit it takes was free.
LEMMA BooksTake ==
    ASSUME IInv, TypeOK', NEW w \in Worker, NEW a \in Bucket, NEW full,
           call[w].pc \in {"hold", "holdOverage"}, TakeUnit(w, a, full), HasRoom(a)
    PROVE  \A b \in Bucket : Books(b)'
<1> SUFFICES ASSUME NEW b \in Bucket PROVE Books(b)'
  OBVIOUS
<1> DEFINE r == IF b = a THEN 1 ELSE 0
<1> PICK k : k = call[w].run
  OBVIOUS
<1>1. TypeOK /\ Books(b) /\ limit' = limit
  BY DEF IInv, TakeUnit
<1>2. /\ call' = [call EXCEPT ![w] = [pc |-> "insert", run |-> call[w].run, bucket |-> a]]
      /\ reserved' = [reserved EXCEPT ![a] = @ + 1]
      /\ rows' = rows /\ used' = used
  BY DEF TakeUnit
<1>3. Touches(w, k) /\ call'[w].pc = "insert" /\ call'[w].bucket = a
  BY <1>1, <1>2 DEF Touches, TypeOK
<1>4. /\ reserved[b] \in Int /\ used[b] \in Int
      /\ reserved'[b] = reserved[b] + r
      /\ used'[b] = used[b]
      /\ Gain(reserved, b) = r /\ Gain(used, b) = 0
  BY <1>1, <1>2 DEF TypeOK, Gain
<1>5. /\ RowGain(k, b, {"reserved"}) = 0
      /\ RowGain(k, b, {"consumed"}) = 0
      /\ RowGain(k, b, {"reserved", "consumed"}) = 0
  BY <1>2 DEF RowGain, Weight, RowsOf
<1>6. /\ CallGain(w, b, BookingPc \cup ConsumePc \cup ReleasePc) = r
      /\ CallGain(w, b, ConsumePc) = 0
      /\ CallGain(w, b, BookingPc \cup ReleasePc) = r
  BY <1>3 DEF CallGain, Weight, CallsAt, BookingPc, ConsumePc, ReleasePc
<1>7. Accounted(b)' <= Ceiling(b)'
  <2>1. CASE b = a
    <3>1. used[a] + reserved[a] + 1 <= limit[a]
      BY DEF HasRoom
    <3>2. limit[a] <= Ceiling(a) /\ limit[a] \in Nat /\ Ceiling(a) \in Nat
      <4>1. limit[a] \in Nat /\ Ceiling(a) \in Nat
        BY <1>1, CeilingType DEF TypeOK
      <4>2. CASE a.overage
        <5>1. a = OverageBucket(a.period) /\ a.period \in Period
          BY <4>2 DEF Bucket, OverageBucket
        <5>2. limit[a] <= MaxOverage
          BY <1>1, <5>1 DEF TypeOK
        <5>3. QED
          BY <4>1, <4>2, <5>2 DEF Ceiling
      <4>3. CASE ~a.overage
        BY <4>1, <4>3 DEF Ceiling
      <4>4. QED
        BY <4>1, <4>2, <4>3
    <3>3. QED
      BY <1>1, <1>4, <2>1, <3>1, <3>2 DEF Accounted, Ceiling
  <2>2. CASE b # a
    BY <1>1, <1>4, <2>2 DEF Accounted, Ceiling, Books
  <2>3. QED
    BY <2>1, <2>2
<1>8. /\ Gain(reserved, b) >= RowGain(k, b, {"reserved"})
              + CallGain(w, b, BookingPc \cup ConsumePc \cup ReleasePc)
      /\ Gain(used, b) + CallGain(w, b, ConsumePc) <= RowGain(k, b, {"consumed"})
      /\ Gain(used, b) + Gain(reserved, b)
            >= RowGain(k, b, {"reserved", "consumed"})
               + CallGain(w, b, BookingPc \cup ReleasePc)
  BY <1>4, <1>5, <1>6
<1>9. QED
  BY <1>1, <1>3, <1>7, <1>8, Balance

\* What the books of bucket b ask of a step that touches call w and row k.
Balanced(w, k, b) ==
    /\ Gain(reserved, b) >= RowGain(k, b, {"reserved"})
                            + CallGain(w, b, BookingPc \cup ConsumePc \cup ReleasePc)
    /\ Gain(used, b) + CallGain(w, b, ConsumePc) <= RowGain(k, b, {"consumed"})
    /\ Gain(used, b) + Gain(reserved, b) >= RowGain(k, b, {"reserved", "consumed"})
                                            + CallGain(w, b, BookingPc \cup ReleasePc)

\* Statements that move a unit of bucket a, or what stands for it: the other
\* buckets' counts stay what they are.
LEMMA BooksShift ==
    ASSUME IInv, TypeOK', NEW w \in Worker, NEW k \in RunKey, NEW a \in Bucket,
           Touches(w, k), UNCHANGED limit,
           call[w].bucket = a, call'[w].pc = "idle" \/ call'[w].bucket = a,
           \/ rows'[k] = rows[k]
           \/ /\ rows[k].state = "none" \/ rows[k].bucket = a
              /\ rows'[k].bucket = a,
           \A b \in Bucket \ {a} : reserved'[b] = reserved[b] /\ used'[b] = used[b],
           Accounted(a)' <= Accounted(a),
           Balanced(w, k, a)
    PROVE  \A b \in Bucket : Books(b)'
<1> SUFFICES ASSUME NEW b \in Bucket PROVE Books(b)'
  OBVIOUS
<1>1. TypeOK /\ Books(b) /\ Ceiling(b)' = Ceiling(b)
  BY DEF IInv, Ceiling
<1>2. Accounted(b)' <= Accounted(b)
  <2>1. CASE b = a
    BY <2>1
  <2>2. CASE b # a
    <3>1. Accounted(b)' = Accounted(b)
      BY <2>2 DEF Accounted
    <3>2. QED
      BY <1>1, <3>1, CeilingType
  <2>3. QED
    BY <2>1, <2>2
<1>3. Accounted(b)' <= Ceiling(b)'
  <2>1. Accounted(b) <= Ceiling(b)
    BY <1>1 DEF Books
  <2>2. QED
    BY <1>1, <1>2, <2>1, CeilingType
<1>4. Balanced(w, k, b)
  <2>1. CASE b = a
    BY <2>1
  <2>2. CASE b # a
    <3>1. Gain(reserved, b) = 0 /\ Gain(used, b) = 0
      BY <1>1, <2>2 DEF Gain, TypeOK
    <3>2. ASSUME NEW states \in {{"reserved"}, {"consumed"}, {"reserved", "consumed"}}
          PROVE  RowGain(k, b, states) = 0
      BY <2>2 DEF RowGain, Weight, RowsOf
    <3>3. ASSUME NEW pcs, "idle" \notin pcs PROVE CallGain(w, b, pcs) = 0
      BY <2>2, <3>3 DEF CallGain, Weight, CallsAt
    <3>4. /\ CallGain(w, b, BookingPc \cup ConsumePc \cup ReleasePc) = 0
          /\ CallGain(w, b, ConsumePc) = 0
          /\ CallGain(w, b, BookingPc \cup ReleasePc) = 0
      BY <3>3 DEF BookingPc, ConsumePc, ReleasePc
    <3>5. QED
      BY <3>1, <3>2, <3>4 DEF Balanced
  <2>3. QED
    BY <2>1, <2>2
<1>5. QED
  BY <1>1, <1>3, <1>4, Balance DEF Balanced

\* The two ends of a booking: the row comes to stand for the unit, or the unit
\* goes back.
LEMMA BooksBooked ==
    ASSUME IInv, TypeOK', NEW w \in Worker,
           \/ Insert(w) /\ rows[call[w].run] = NoRow
           \/ Undo(w)
    PROVE  \A b \in Bucket : Books(b)'
<1> USE DEF At, Finish
<1>1. TypeOK /\ call[w].pc \in BookingPc
  BY DEF IInv, Insert, Undo, BookingPc
<1>2. PICK k \in RunKey, a \in Bucket : k = call[w].run /\ a = call[w].bucket
  BY <1>1, CallShape DEF TypeOK, BookingPc, Booking
<1>3. /\ call' = [call EXCEPT ![w] = Idle] /\ call'[w] = Idle
      /\ UNCHANGED <<limit, used>>
  BY <1>1 DEF Insert, Undo, TypeOK
<1>4. /\ CallGain(w, a, BookingPc \cup ConsumePc \cup ReleasePc) = -1
      /\ CallGain(w, a, ConsumePc) = 0
      /\ CallGain(w, a, BookingPc \cup ReleasePc) = -1
  BY <1>1, <1>2, <1>3 DEF CallGain, Weight, CallsAt, Idle, BookingPc, ConsumePc, ReleasePc
<1>5. CASE Insert(w) /\ rows[k] = NoRow
  <2>1. rows' = [rows EXCEPT ![k] = [state |-> "reserved", bucket |-> a]]
        /\ reserved' = reserved
    BY <1>2, <1>5 DEF Insert
  <2>2. Touches(w, k) /\ rows[k].state = "none"
        /\ rows'[k].state = "reserved" /\ rows'[k].bucket = a
    BY <1>1, <1>3, <1>5, <2>1 DEF Touches, TypeOK, NoRow
  <2>3. /\ RowGain(k, a, {"reserved"}) = 1
        /\ RowGain(k, a, {"consumed"}) = 0
        /\ RowGain(k, a, {"reserved", "consumed"}) = 1
    BY <2>2 DEF RowGain, Weight, RowsOf
  <2>4. Gain(reserved, a) = 0 /\ Gain(used, a) = 0
    BY <1>1, <1>3, <2>1 DEF Gain, TypeOK
  <2>5. Balanced(w, k, a)
    BY <1>4, <2>3, <2>4 DEF Balanced
  <2>6. Accounted(a)' <= Accounted(a)
    BY <1>1, <1>3, <2>1 DEF Accounted, TypeOK
  <2>7. QED
    BY <1>2, <1>3, <2>1, <2>2, <2>5, <2>6, BooksShift DEF Idle
<1>6. CASE Undo(w)
  <2>1. rows' = rows /\ reserved' = [reserved EXCEPT ![a] = @ - 1]
    BY <1>2, <1>6 DEF Undo
  <2>2. /\ RowGain(k, a, {"reserved"}) = 0
        /\ RowGain(k, a, {"consumed"}) = 0
        /\ RowGain(k, a, {"reserved", "consumed"}) = 0
    BY <2>1 DEF RowGain, Weight, RowsOf
  <2>3. Gain(reserved, a) = -1 /\ Gain(used, a) = 0
    BY <1>1, <1>3, <2>1 DEF Gain, TypeOK
  <2>4. Balanced(w, k, a)
    BY <1>4, <2>2, <2>3 DEF Balanced
  <2>5. Accounted(a)' <= Accounted(a)
    BY <1>1, <1>3, <2>1 DEF Accounted, TypeOK
  <2>6. Touches(w, k)
    BY <1>1, <1>3, <2>1 DEF Touches, TypeOK
  <2>7. QED
    BY <1>2, <1>3, <2>1, <2>4, <2>5, <2>6, BooksShift DEF Idle
<1>7. QED
  BY <1>2, <1>5, <1>6

\* The flips and their compensations: the row and the call trade places, the
\* counters stay. The call must be the one that owns the row.
LEMMA BooksFlipped ==
    ASSUME IInv, TypeOK', NEW w \in Worker, NEW k \in RunKey, NEW a \in Bucket,
           k = call[w].run, a = call[w].bucket,
           call[w].pc \in SettlePc,
           UNCHANGED <<limit, reserved, used>>,
           \A v \in Worker \ {w} : call'[v] = call[v],
           \A l \in RunKey \ {k} : rows'[l] = rows[l],
           call'[w].pc = "idle" \/ call'[w].bucket = a,
           rows'[k].bucket = a,
           \/ /\ call[w].pc = "flipConsume" /\ rows[k].state = "reserved"
              /\ call'[w].pc = "move" /\ rows'[k].state = "consumed"
           \/ /\ call[w].pc = "flipRelease" /\ rows[k].state = "reserved"
              /\ call'[w].pc = "drop" /\ rows'[k].state = "released"
           \/ /\ call[w].pc \in {"unflipConsume", "unflipRelease"}
              /\ call'[w].pc = "idle" /\ rows'[k].state = "reserved"
    PROVE  \A b \in Bucket : Books(b)'
<1>1. /\ TypeOK /\ rows[k].bucket = a
      /\ call[w].pc = "unflipConsume" => rows[k].state = "consumed"
      /\ call[w].pc = "unflipRelease" => rows[k].state = "released"
  BY DEF IInv, Owns, ConsumePc, ReleasePc
<1>2. Touches(w, k)
  BY DEF Touches
<1>3. Gain(reserved, a) = 0 /\ Gain(used, a) = 0
  BY <1>1 DEF Gain, TypeOK
<1>4. Balanced(w, k, a)
  <2> USE DEF RowGain, CallGain, Weight, RowsOf, CallsAt, Balanced,
              BookingPc, ConsumePc, ReleasePc
  <2>1. CASE call[w].pc = "flipConsume"
    BY <1>1, <1>3, <2>1
  <2>2. CASE call[w].pc = "flipRelease"
    BY <1>1, <1>3, <2>2
  <2>3. CASE call[w].pc = "unflipConsume"
    BY <1>1, <1>3, <2>3
  <2>4. CASE call[w].pc = "unflipRelease"
    BY <1>1, <1>3, <2>4
  <2>5. QED
    BY <2>1, <2>2, <2>3, <2>4
<1>5. Accounted(a)' <= Accounted(a)
  BY <1>1 DEF Accounted, TypeOK
<1>6. QED
  BY <1>1, <1>2, <1>4, <1>5, BooksShift

\* The last statement of a settlement: the unit moves to used, or back.
LEMMA BooksSettled ==
    ASSUME IInv, TypeOK', NEW w \in Worker, Move(w) \/ Drop(w)
    PROVE  \A b \in Bucket : Books(b)'
<1> USE DEF At, Finish
<1>1. TypeOK /\ call[w].pc \in {"move", "drop"}
  BY DEF IInv, Move, Drop
<1>2. PICK k \in RunKey, a \in Bucket : k = call[w].run /\ a = call[w].bucket
  BY <1>1, CallShape DEF TypeOK, Settling
<1>3. /\ call' = [call EXCEPT ![w] = Idle] /\ call'[w] = Idle
      /\ UNCHANGED <<limit, rows>> /\ Touches(w, k)
  BY <1>1 DEF Move, Drop, TypeOK, Touches
<1>4. /\ RowGain(k, a, {"reserved"}) = 0
      /\ RowGain(k, a, {"consumed"}) = 0
      /\ RowGain(k, a, {"reserved", "consumed"}) = 0
  BY <1>3 DEF RowGain, Weight, RowsOf
<1>5. CASE Move(w)
  <2>1. /\ reserved' = [reserved EXCEPT ![a] = @ - 1]
        /\ used' = [used EXCEPT ![a] = @ + 1]
        /\ call[w].pc = "move"
    BY <1>2, <1>5 DEF Move
  <2>2. Gain(reserved, a) = -1 /\ Gain(used, a) = 1
    BY <1>1, <2>1 DEF Gain, TypeOK
  <2>3. /\ CallGain(w, a, BookingPc \cup ConsumePc \cup ReleasePc) = -1
        /\ CallGain(w, a, ConsumePc) = -1
        /\ CallGain(w, a, BookingPc \cup ReleasePc) = 0
    BY <1>2, <1>3, <2>1 DEF CallGain, Weight, CallsAt, Idle, BookingPc, ConsumePc, ReleasePc
  <2>4. Balanced(w, k, a)
    BY <1>4, <2>2, <2>3 DEF Balanced
  <2>5. Accounted(a)' <= Accounted(a)
    BY <1>1, <2>1 DEF Accounted, TypeOK
  <2>6. QED
    BY <1>1, <1>2, <1>3, <2>1, <2>4, <2>5, BooksShift DEF Idle, TypeOK
<1>6. CASE Drop(w)
  <2>1. /\ reserved' = [reserved EXCEPT ![a] = @ - 1]
        /\ used' = used
        /\ call[w].pc = "drop"
    BY <1>2, <1>6 DEF Drop
  <2>2. Gain(reserved, a) = -1 /\ Gain(used, a) = 0
    BY <1>1, <2>1 DEF Gain, TypeOK
  <2>3. /\ CallGain(w, a, BookingPc \cup ConsumePc \cup ReleasePc) = -1
        /\ CallGain(w, a, ConsumePc) = 0
        /\ CallGain(w, a, BookingPc \cup ReleasePc) = -1
    BY <1>2, <1>3, <2>1 DEF CallGain, Weight, CallsAt, Idle, BookingPc, ConsumePc, ReleasePc
  <2>4. Balanced(w, k, a)
    BY <1>4, <2>2, <2>3 DEF Balanced
  <2>5. Accounted(a)' <= Accounted(a)
    BY <1>1, <2>1 DEF Accounted, TypeOK
  <2>6. QED
    BY <1>1, <1>2, <1>3, <2>1, <2>4, <2>5, BooksShift DEF Idle, TypeOK
<1>7. QED
  BY <1>5, <1>6

-----------------------------------------------------------------------------
(***************************************************************************)
(* The ceilings, and the step lemma for the books                          *)
(***************************************************************************)

\* A usage period is opened once, from nothing.
LEMMA EnsureOpens ==
    ASSUME IInv, NEW s \in Subscription, EnsurePeriod(s)
    PROVE  \A p \in Period :
              /\ limit[PlanBucket(p)] <= limit'[PlanBucket(p)]
              /\ p \notin opened' => limit'[PlanBucket(p)] = 0
<1> SUFFICES ASSUME NEW p \in Period
             PROVE  /\ limit[PlanBucket(p)] <= limit'[PlanBucket(p)]
                    /\ p \notin opened' => limit'[PlanBucket(p)] = 0
  OBVIOUS
<1>1. /\ limit \in [Bucket -> Nat] /\ PlanBucket(p) \in Bucket
      /\ p \notin opened => limit[PlanBucket(p)] = 0
  BY BucketsDiffer DEF IInv, TypeOK
<1>2. CASE s.period \in opened
  BY <1>1, <1>2 DEF EnsurePeriod
<1>3. CASE s.period \notin opened
  <2>1. /\ opened' = opened \cup {s.period}
        /\ limit' = [limit EXCEPT ![PlanBucket(s.period)] = s.credits,
                                  ![OverageBucket(s.period)] = s.overage]
    BY <1>3 DEF EnsurePeriod
  <2>2. s.period \in Period /\ s.credits \in Nat
    BY PlanCreditsAssumption DEF Subscription
  <2>3. CASE p = s.period
    <3>1. limit'[PlanBucket(p)] = s.credits
      BY <1>1, <2>1, <2>2, <2>3, BucketsDiffer
    <3>2. QED
      BY <1>1, <1>3, <2>1, <2>2, <2>3, <3>1
  <2>4. CASE p # s.period
    <3>1. limit'[PlanBucket(p)] = limit[PlanBucket(p)]
      BY <1>1, <2>1, <2>2, <2>4, BucketsDiffer
    <3>2. QED
      BY <1>1, <2>1, <2>4, <3>1
  <2>5. QED
    BY <2>3, <2>4
<1>4. QED
  BY <1>2, <1>3

LEMMA CeilingGrows ==
    ASSUME TypeOK, TypeOK',
           \A p \in Period : limit[PlanBucket(p)] <= limit'[PlanBucket(p)],
           NEW b \in Bucket
    PROVE  Ceiling(b) <= Ceiling(b)'
<1>1. CASE b.overage
  BY <1>1, OverageAssumption DEF Ceiling
<1>2. CASE ~b.overage
  <2>1. b = PlanBucket(b.period) /\ b.period \in Period
    BY <1>2 DEF Bucket, PlanBucket
  <2>2. QED
    BY <1>2, <2>1 DEF Ceiling
<1>3. QED
  BY <1>1, <1>2

\* PUT /billing/overage writes no plan limit.
LEMMA PutKeepsPlan ==
    ASSUME TypeOK, NEW w \in Worker, PutPeriod(w), NEW p \in Period
    PROVE  limit'[PlanBucket(p)] = limit[PlanBucket(p)]
<1>1. call[w] \in Adjusting
  BY CallShape DEF PutPeriod, At, TypeOK
<1>2. call[w].loaded.period \in Period
  BY <1>1 DEF Adjusting, Subscription
<1>3. QED
  BY <1>2, BucketsDiffer DEF PutPeriod, TypeOK

HeavyPc == BookingPc \cup ConsumePc \cup ReleasePc

\* Every step keeps the books of every bucket.
LEMMA BooksStep ==
    ASSUME IInv, TypeOK', [Next]_vars
    PROVE  \A b \in Bucket : Books(b)'
<1> USE DEF At, Goto, Finish
<1>a. TypeOK
  BY DEF IInv
<1>b. ASSUME UNCHANGED limit, NEW b \in Bucket PROVE Ceiling(b) <= Ceiling(b)'
  BY <1>a, <1>b, CeilingType DEF Ceiling
<1>c. ASSUME NEW w \in Worker, NEW c, call' = [call EXCEPT ![w] = c], c.pc \notin HeavyPc,
             UNCHANGED <<reserved, used, rows>>,
             \A b \in Bucket : Ceiling(b) <= Ceiling(b)'
      PROVE  \A b \in Bucket : Books(b)'
  <2>1. call'[w].pc \notin HeavyPc /\ \A v \in Worker \ {w} : call'[v] = call[v]
    BY <1>a, <1>c DEF TypeOK
  <2>2. Lighter(w)
    BY <2>1 DEF Lighter, HeavyPc
  <2>3. QED
    BY <1>c, <2>1, <2>2, BooksUntouched
<1>d. Idle.pc \notin HeavyPc
  BY DEF Idle, HeavyPc, BookingPc, ConsumePc, ReleasePc
<1>1. ASSUME NEW w \in Worker, ReserveStep(w) PROVE \A b \in Bucket : Books(b)'
  <2>1. ASSUME NEW k \in RunKey, BeginReserve(w, k) PROVE \A b \in Bucket : Books(b)'
    <3>1. [pc |-> "ensure", run |-> k, loaded |-> subscription].pc \notin HeavyPc
      BY DEF HeavyPc, BookingPc, ConsumePc, ReleasePc
    <3>2. QED
      BY <1>b, <1>c, <2>1, <3>1 DEF BeginReserve
  <2>2. CASE Ensure(w)
    <3>1. call[w] \in Ensuring
      BY <1>a, <2>2, CallShape DEF Ensure, TypeOK
    <3>2. EnsurePeriod(call[w].loaded) /\ call[w].loaded \in Subscription
      BY <2>2, <3>1 DEF Ensure, Ensuring
    <3>3. \A b \in Bucket : Ceiling(b) <= Ceiling(b)'
      BY <1>a, <3>2, EnsureOpens, CeilingGrows
    <3>4. [pc |-> "snapshot", run |-> call[w].run, period |-> call[w].loaded.period,
           overage |-> FALSE].pc \notin HeavyPc
      BY DEF HeavyPc, BookingPc, ConsumePc, ReleasePc
    <3>5. QED
      BY <1>c, <2>2, <3>3, <3>4 DEF Ensure
  <2>3. CASE Snapshot(w) \/ Lookup(w)
    <3>1. UNCHANGED <<limit, reserved, used, rows>>
      BY <2>3 DEF Snapshot, Lookup
    <3>2. /\ call'[w].pc \in {"lookup", "hold", "idle"}
          /\ \A v \in Worker \ {w} : call'[v] = call[v]
      <4>1. call[w] \in Choosing
        BY <1>a, <2>3, CallShape DEF Snapshot, Lookup, TypeOK
      <4>2. QED
        BY <1>a, <2>3, <4>1 DEF Snapshot, Lookup, TypeOK, Idle, Choosing
    <3>3. Lighter(w)
      BY <3>2 DEF Lighter, BookingPc, ConsumePc, ReleasePc
    <3>4. QED
      BY <1>b, <3>1, <3>2, <3>3, BooksUntouched
  <2>4. CASE Hold(w) \/ HoldOverage(w)
    <3>1. call[w] \in Choosing
      BY <1>a, <2>4, CallShape DEF Hold, HoldOverage, TypeOK
    <3>2. PICK a, full :
             /\ a \in Bucket
             /\ TakeUnit(w, a, full)
             /\ full => \/ call' = [call EXCEPT ![w] = Idle]
                        \/ call' = [call EXCEPT ![w].pc = "holdOverage"]
      BY <2>4, <3>1, BucketsDiffer DEF Hold, HoldOverage, Choosing
    <3>3. CASE HasRoom(a)
      BY <2>4, <3>2, <3>3, BooksTake DEF Hold, HoldOverage
    <3>4. CASE ~HasRoom(a)
      <4>1. UNCHANGED <<limit, reserved, used, rows>> /\ full
        BY <3>2, <3>4 DEF TakeUnit
      <4>2. /\ call'[w].pc \in {"holdOverage", "idle"}
            /\ \A v \in Worker \ {w} : call'[v] = call[v]
        BY <1>a, <3>1, <3>2, <4>1 DEF TypeOK, Idle, Choosing
      <4>3. Lighter(w)
        BY <4>2 DEF Lighter, BookingPc, ConsumePc, ReleasePc
      <4>4. QED
        BY <1>b, <4>1, <4>2, <4>3, BooksUntouched
    <3>5. QED
      BY <3>3, <3>4
  <2>5. CASE Insert(w) /\ rows[call[w].run] = NoRow
    BY <2>5, BooksBooked
  <2>6. CASE InsertFails(w) \/ (Insert(w) /\ rows[call[w].run] # NoRow)
    <3>1. call[w] \in Booking /\ call[w].pc = "insert"
      BY <1>a, <2>6, CallShape DEF Insert, InsertFails, TypeOK
    <3>2. call' = [call EXCEPT ![w].pc = "undo"] /\ UNCHANGED <<limit, reserved, used, rows>>
      BY <2>6 DEF Insert, InsertFails
    <3>3. /\ call'[w].pc = "undo" /\ call'[w].bucket = call[w].bucket
          /\ \A v \in Worker \ {w} : call'[v] = call[v]
      BY <1>a, <3>1, <3>2 DEF TypeOK, Booking
    <3>4. Lighter(w)
      BY <3>1, <3>3 DEF Lighter, BookingPc, ConsumePc, ReleasePc
    <3>5. QED
      BY <1>b, <3>2, <3>3, <3>4, BooksUntouched
  <2>7. CASE Undo(w)
    BY <2>7, BooksBooked
  <2>8. QED
    BY <1>1, <2>1, <2>2, <2>3, <2>4, <2>5, <2>6, <2>7 DEF ReserveStep
<1>2. ASSUME NEW w \in Worker, ConsumeStep(w) \/ ReleaseStep(w)
      PROVE  \A b \in Bucket : Books(b)'
  <2>1. ASSUME NEW j \in Job, BeginConsume(w, j) \/ BeginRelease(w, j)
        PROVE  \A b \in Bucket : Books(b)'
    <3>1. /\ [pc |-> "findConsume", job |-> j].pc \notin HeavyPc
          /\ [pc |-> "findRelease", job |-> j].pc \notin HeavyPc
      BY DEF HeavyPc, BookingPc, ConsumePc, ReleasePc
    <3>2. QED
      BY <1>b, <1>c, <2>1, <3>1 DEF BeginConsume, BeginRelease, Begin
  <2>2. CASE FindConsume(w) \/ FindRelease(w)
    <3>1. PICK from \in {"findConsume", "findRelease"},
               to \in {"flipConsume", "flipRelease"} : Find(w, from, to)
      BY <2>2 DEF FindConsume, FindRelease
    <3>2. /\ call'[w].pc \in {"idle", "flipConsume", "flipRelease"}
          /\ \A v \in Worker \ {w} : call'[v] = call[v]
      <4>1. CASE Finish(w)
        BY <1>a, <4>1 DEF Idle, TypeOK
      <4>2. ASSUME NEW k \in ReservedRows(call[w].job),
                   call' = [call EXCEPT ![w] = [pc |-> to, run |-> k,
                                                bucket |-> rows[k].bucket]]
            PROVE  /\ call'[w].pc \in {"idle", "flipConsume", "flipRelease"}
                   /\ \A v \in Worker \ {w} : call'[v] = call[v]
        BY <1>a, <3>1, <4>2 DEF TypeOK
      <4>3. QED
        BY <3>1, <4>1, <4>2 DEF Find
    <3>3. Lighter(w)
      BY <3>2 DEF Lighter, BookingPc, ConsumePc, ReleasePc
    <3>4. QED
      BY <1>b, <3>1, <3>2, <3>3, BooksUntouched DEF Find
  <2>3. ASSUME call[w].pc \in {"flipConsume", "move", "unflipConsume",
                               "flipRelease", "drop", "unflipRelease"}
        PROVE  call[w] \in Settling /\ call[w].run \in RunKey /\ call[w].bucket \in Bucket
    BY <1>a, <2>3, CallShape DEF TypeOK, Settling
  <2>4. CASE FlipConsume(w) \/ FlipRelease(w)
    <3>1. call[w] \in Settling /\ call[w].pc \in {"flipConsume", "flipRelease"}
      BY <2>3, <2>4 DEF FlipConsume, FlipRelease, Flip
    <3>2. CASE rows[call[w].run].state # "reserved"
      <4>1. call' = [call EXCEPT ![w] = Idle] /\ UNCHANGED <<limit, reserved, used, rows>>
        BY <2>4, <3>2 DEF FlipConsume, FlipRelease, Flip
      <4>2. QED
        BY <1>b, <1>c, <1>d, <4>1
    <3>3. CASE rows[call[w].run].state = "reserved"
      <4>1. PICK k \in RunKey, a \in Bucket : k = call[w].run /\ a = call[w].bucket
        BY <2>3, <3>1
      <4>2. /\ call[w].pc \in SettlePc /\ rows[k].bucket = a
        BY <3>1, <4>1 DEF IInv, Owns, SettlePc
      <4>3. rows[k] \in Row
        BY <1>a, <3>3, <4>1 DEF TypeOK, NoRow
      <4>4. /\ UNCHANGED <<limit, reserved, used>>
            /\ \A v \in Worker \ {w} : call'[v] = call[v]
            /\ \A l \in RunKey \ {k} : rows'[l] = rows[l]
            /\ call'[w].bucket = a /\ rows'[k].bucket = a
            /\ \/ /\ call[w].pc = "flipConsume"
                  /\ call'[w].pc = "move" /\ rows'[k].state = "consumed"
               \/ /\ call[w].pc = "flipRelease"
                  /\ call'[w].pc = "drop" /\ rows'[k].state = "released"
        BY <1>a, <2>4, <3>1, <3>3, <4>1, <4>2, <4>3
           DEF FlipConsume, FlipRelease, Flip, TypeOK, Settling, Row
      <4>5. QED
        BY <3>3, <4>1, <4>2, <4>4, BooksFlipped
    <3>4. QED
      BY <3>2, <3>3
  <2>5. CASE Move(w) \/ Drop(w)
    BY <2>5, BooksSettled
  <2>6. CASE MoveFails(w) \/ DropFails(w)
    <3>1. call[w] \in Settling /\ call[w].pc \in {"move", "drop"}
      BY <2>3, <2>6 DEF MoveFails, DropFails, Fails
    <3>2. UNCHANGED <<limit, reserved, used, rows>>
      BY <2>6 DEF MoveFails, DropFails, Fails
    <3>3. /\ \A v \in Worker \ {w} : call'[v] = call[v]
          /\ call'[w].bucket = call[w].bucket
          /\ call[w].pc = "move" => call'[w].pc = "unflipConsume"
          /\ call[w].pc = "drop" => call'[w].pc = "unflipRelease"
      BY <1>a, <2>6, <3>1 DEF MoveFails, DropFails, Fails, TypeOK, Settling
    <3>4. Lighter(w)
      BY <3>1, <3>3 DEF Lighter, BookingPc, ConsumePc, ReleasePc
    <3>5. QED
      BY <1>b, <3>2, <3>3, <3>4, BooksUntouched
  <2>7. CASE UnflipConsume(w) \/ UnflipRelease(w)
    <3>1. call[w] \in Settling /\ call[w].pc \in {"unflipConsume", "unflipRelease"}
      BY <2>3, <2>7 DEF UnflipConsume, UnflipRelease, Unflip
    <3>2. PICK k \in RunKey, a \in Bucket : k = call[w].run /\ a = call[w].bucket
      BY <2>3, <3>1
    <3>3. /\ call[w].pc \in SettlePc /\ rows[k].bucket = a
          /\ call[w].pc = "unflipConsume" => rows[k].state = "consumed"
          /\ call[w].pc = "unflipRelease" => rows[k].state = "released"
      BY <3>1, <3>2 DEF IInv, Owns, SettlePc, ConsumePc, ReleasePc
    <3>4. rows[k] \in Row
      BY <1>a, <3>1, <3>3 DEF TypeOK, NoRow
    <3>5. /\ UNCHANGED <<limit, reserved, used>>
          /\ \A v \in Worker \ {w} : call'[v] = call[v]
          /\ \A l \in RunKey \ {k} : rows'[l] = rows[l]
          /\ call'[w].pc = "idle"
          /\ rows'[k].bucket = a /\ rows'[k].state = "reserved"
      BY <1>a, <2>7, <3>1, <3>2, <3>3, <3>4
         DEF UnflipConsume, UnflipRelease, Unflip, TypeOK, Row, Idle
    <3>6. QED
      BY <3>1, <3>2, <3>3, <3>5, BooksFlipped
  <2>8. QED
    BY <1>2, <2>1, <2>2, <2>4, <2>5, <2>6, <2>7 DEF ConsumeStep, ReleaseStep
<1>3. ASSUME NEW w \in Worker, PutStep(w) PROVE \A b \in Bucket : Books(b)'
  <2>1. ASSUME NEW n \in OverageRequest, BeginPut(w, n) PROVE \A b \in Bucket : Books(b)'
    <3>1. [pc |-> "putSubscription",
           loaded |-> [subscription EXCEPT !.overage = Clamp(n)]].pc \notin HeavyPc
      BY DEF HeavyPc, BookingPc, ConsumePc, ReleasePc
    <3>2. QED
      BY <1>b, <1>c, <2>1, <3>1 DEF BeginPut
  <2>2. CASE PutSubscription(w) \/ PutEnsure(w) \/ PutPeriod(w)
    <3>1. call[w] \in Adjusting /\ call[w].loaded \in Subscription
      BY <1>a, <2>2, CallShape DEF PutSubscription, PutEnsure, PutPeriod, TypeOK, Adjusting
    <3>2. UNCHANGED <<reserved, used, rows>>
      BY <2>2 DEF PutSubscription, PutEnsure, PutPeriod
    <3>3. /\ call'[w].pc \in {"putEnsure", "putPeriod", "idle"}
          /\ \A v \in Worker \ {w} : call'[v] = call[v]
      BY <1>a, <2>2, <3>1 DEF PutSubscription, PutEnsure, PutPeriod, TypeOK, Idle, Adjusting
    <3>4. Lighter(w)
      BY <3>3 DEF Lighter, BookingPc, ConsumePc, ReleasePc
    <3>5. \A b \in Bucket : Ceiling(b) <= Ceiling(b)'
      <4>1. CASE PutSubscription(w)
        BY <1>b, <4>1 DEF PutSubscription
      <4>2. CASE PutEnsure(w)
        BY <1>a, <3>1, <4>2, EnsureOpens, CeilingGrows DEF PutEnsure
      <4>3. CASE PutPeriod(w)
        <5>1. \A p \in Period : limit[PlanBucket(p)] <= limit'[PlanBucket(p)]
          BY <1>a, <4>3, PutKeepsPlan, BucketsDiffer DEF TypeOK
        <5>2. QED
          BY <1>a, <5>1, CeilingGrows
      <4>4. QED
        BY <2>2, <4>1, <4>2, <4>3
    <3>6. QED
      BY <3>2, <3>3, <3>4, <3>5, BooksUntouched
  <2>3. QED
    BY <1>3, <2>1, <2>2 DEF PutStep
<1>4. ASSUME NEW w \in Worker, Interrupt(w) PROVE \A b \in Bucket : Books(b)'
  BY <1>b, <1>c, <1>d, <1>4 DEF Interrupt
<1>5. ASSUME UNCHANGED <<limit, reserved, used, rows, call>> PROVE \A b \in Bucket : Books(b)'
  BY <1>5 DEF IInv, Books, Accounted, Ceiling, RowsOf, CallsAt
<1>6. QED
  BY <1>1, <1>2, <1>3, <1>4, <1>5 DEF Next, vars, SubscriptionEvent

-----------------------------------------------------------------------------
(***************************************************************************)
(* Whose row it is                                                         *)
(***************************************************************************)
OwnPc == ConsumePc \cup ReleasePc

\* Statements that write no row: a call keeps the row it owns, or has just found
\* a reserved one.
LEMMA OwnsUntouched ==
    ASSUME IInv, NEW w \in Worker, rows' = rows,
           \A v \in Worker \ {w} : call'[v] = call[v],
           \/ call'[w].pc \notin SettlePc
           \/ /\ call'[w].pc \in {"flipConsume", "flipRelease"}
              /\ rows[call'[w].run].state = "reserved"
              /\ rows[call'[w].run].bucket = call'[w].bucket
           \/ /\ call[w].pc = "move" /\ call'[w].pc = "unflipConsume"
              /\ call'[w].run = call[w].run /\ call'[w].bucket = call[w].bucket
           \/ /\ call[w].pc = "drop" /\ call'[w].pc = "unflipRelease"
              /\ call'[w].run = call[w].run /\ call'[w].bucket = call[w].bucket
    PROVE  (\A v \in Worker : Owns(v)') /\ (\A u, v \in Worker : Alone(u, v)')
<1>1. ASSUME NEW v \in Worker PROVE Owns(v)'
  <2>1. Owns(v) /\ Owns(w)
    BY DEF IInv
  <2>2. CASE v = w
    BY <2>1, <2>2 DEF Owns, SettlePc, ConsumePc, ReleasePc
  <2>3. CASE v # w
    BY <2>1, <2>3 DEF Owns
  <2>4. QED
    BY <2>2, <2>3
<1>2. ASSUME NEW v \in Worker, call'[v].pc \in OwnPc
      PROVE  call[v].pc \in OwnPc /\ call'[v].run = call[v].run
  <2>1. CASE v = w
    BY <1>2, <2>1 DEF OwnPc, SettlePc, ConsumePc, ReleasePc
  <2>2. CASE v # w
    BY <1>2, <2>2
  <2>3. QED
    BY <2>1, <2>2
<1>3. ASSUME NEW u \in Worker, NEW v \in Worker PROVE Alone(u, v)'
  <2>1. Alone(u, v)
    BY DEF IInv
  <2>2. QED
    BY <1>2, <2>1 DEF Alone, OwnPc
<1>4. QED
  BY <1>1, <1>3

\* Statements that write row k: no other call owns it.
LEMMA OwnsChanged ==
    ASSUME IInv, NEW w \in Worker, NEW k \in RunKey,
           \A v \in Worker \ {w} : call'[v] = call[v],
           \A l \in RunKey \ {k} : rows'[l] = rows[l],
           \A v \in Worker \ {w} : call[v].pc \in OwnPc => call[v].run # k,
           \A v \in Worker : call[v].pc \in SettlePc => call[v].run \in RunKey,
           rows'[k].state # "none",
           rows[k].state = "none" \/ rows'[k].bucket = rows[k].bucket,
           Owns(w)',
           call'[w].pc \in OwnPc => call'[w].run = k
    PROVE  (\A v \in Worker : Owns(v)') /\ (\A u, v \in Worker : Alone(u, v)')
<1>1. ASSUME NEW v \in Worker PROVE Owns(v)'
  <2>1. CASE v = w
    BY <2>1
  <2>2. CASE v # w /\ call[v].run # k
    <3>1. Owns(v) /\ call'[v] = call[v]
      BY <2>2 DEF IInv
    <3>2. call[v].pc \in SettlePc => rows'[call[v].run] = rows[call[v].run]
      BY <2>2
    <3>3. QED
      BY <3>1, <3>2 DEF Owns
  <2>3. CASE v # w /\ call[v].run = k
    <3>1. Owns(v) /\ call'[v] = call[v] /\ call[v].pc \notin OwnPc
      BY <2>3 DEF IInv
    <3>2. QED
      BY <2>3, <3>1 DEF Owns, OwnPc
  <2>4. QED
    BY <2>1, <2>2, <2>3
<1>2. ASSUME NEW u \in Worker, NEW v \in Worker PROVE Alone(u, v)'
  <2>1. Alone(u, v)
    BY DEF IInv
  <2>2. CASE u # w /\ v # w
    BY <2>1, <2>2 DEF Alone
  <2>3. CASE u = w \/ v = w
    BY <2>3 DEF Alone, OwnPc
  <2>4. QED
    BY <2>2, <2>3
<1>3. QED
  BY <1>1, <1>2

LEMMA OwnsStep ==
    ASSUME IInv, TypeOK', [Next]_vars
    PROVE  (\A v \in Worker : Owns(v)') /\ (\A u, v \in Worker : Alone(u, v)')
<1> DEFINE Goal == (\A v \in Worker : Owns(v)') /\ (\A u, v \in Worker : Alone(u, v)')
<1> USE DEF At, Goto, Finish
<1>a. TypeOK
  BY DEF IInv
<1>b. \A v \in Worker : call[v].pc \in SettlePc =>
          call[v] \in Settling /\ call[v].run \in RunKey /\ call[v].bucket \in Bucket
  BY <1>a, CallShape DEF TypeOK, SettlePc, ConsumePc, ReleasePc, Settling
<1>c. \A v \in Worker : call[v].pc \in OwnPc =>
          rows[call[v].run].state \in {"consumed", "released"}
  BY DEF IInv, Owns, OwnPc, SettlePc
<1>1. ASSUME NEW w \in Worker, rows' = rows,
             \A v \in Worker \ {w} : call'[v] = call[v], call'[w].pc \notin SettlePc
      PROVE  Goal
  BY <1>1, OwnsUntouched
<1>2. ASSUME NEW w \in Worker, ReserveStep(w) PROVE Goal
  <2>1. CASE Insert(w) /\ rows[call[w].run] = NoRow
    <3>1. PICK k \in RunKey, a \in Bucket : k = call[w].run /\ a = call[w].bucket
      BY <1>a, <2>1, CallShape DEF Insert, TypeOK, Booking
    <3>2. /\ rows' = [rows EXCEPT ![k] = [state |-> "reserved", bucket |-> a]]
          /\ call' = [call EXCEPT ![w] = Idle] /\ rows[k].state = "none"
      BY <2>1, <3>1 DEF Insert, NoRow
    <3>3. /\ \A v \in Worker \ {w} : call'[v] = call[v]
          /\ \A l \in RunKey \ {k} : rows'[l] = rows[l]
          /\ call'[w].pc = "idle" /\ rows'[k].state = "reserved"
      BY <1>a, <3>2 DEF TypeOK, Idle
    <3>4. Owns(w)' /\ call'[w].pc \notin OwnPc
      BY <3>3 DEF Owns, OwnPc, SettlePc, ConsumePc, ReleasePc
    <3>5. QED
      BY <1>b, <1>c, <3>2, <3>3, <3>4, OwnsChanged
  <2>2. CASE ~(Insert(w) /\ rows[call[w].run] = NoRow)
    <3>1. rows' = rows
      BY <1>2, <2>2 DEF ReserveStep, BeginReserve, Ensure, Snapshot, Lookup, Hold, HoldOverage,
                        TakeUnit, Insert, InsertFails, Undo
    <3>2. call'[w].pc \in {"ensure", "snapshot", "lookup", "hold", "holdOverage",
                           "insert", "undo", "idle"}
          /\ \A v \in Worker \ {w} : call'[v] = call[v]
      <4>1. ASSUME NEW k \in RunKey, BeginReserve(w, k)
            PROVE  call'[w].pc = "ensure" /\ \A v \in Worker \ {w} : call'[v] = call[v]
        BY <1>a, <4>1 DEF BeginReserve, TypeOK
      <4>2. CASE Ensure(w)
        BY <1>a, <4>2 DEF Ensure, TypeOK
      <4>3. CASE Snapshot(w) \/ Lookup(w)
        BY <1>a, <4>3, CallShape DEF Snapshot, Lookup, TypeOK, Idle, Choosing
      <4>4. ASSUME NEW a, NEW full, TakeUnit(w, a, full), call[w] \in Choosing,
                   full => \/ call' = [call EXCEPT ![w] = Idle]
                           \/ call' = [call EXCEPT ![w].pc = "holdOverage"]
            PROVE  call'[w].pc \in {"insert", "idle", "holdOverage"}
                   /\ \A v \in Worker \ {w} : call'[v] = call[v]
        BY <1>a, <4>4 DEF TakeUnit, TypeOK, Idle, Choosing
      <4>5. CASE Hold(w) \/ HoldOverage(w)
        <5>1. call[w] \in Choosing
          BY <1>a, <4>5, CallShape DEF Hold, HoldOverage, TypeOK
        <5>2. QED
          BY <4>4, <4>5, <5>1 DEF Hold, HoldOverage
      <4>6. CASE Insert(w) \/ InsertFails(w)
        BY <1>a, <2>2, <4>6, CallShape DEF Insert, InsertFails, TypeOK, Idle, Booking
      <4>7. CASE Undo(w)
        BY <1>a, <4>7 DEF Undo, TypeOK, Idle
      <4>8. QED
        BY <1>2, <4>1, <4>2, <4>3, <4>5, <4>6, <4>7 DEF ReserveStep
    <3>3. call'[w].pc \notin SettlePc
      BY <3>2 DEF SettlePc, ConsumePc, ReleasePc
    <3>4. QED
      BY <1>1, <3>1, <3>2, <3>3
  <2>3. QED
    BY <2>1, <2>2
<1>3. ASSUME NEW w \in Worker, ConsumeStep(w) \/ ReleaseStep(w) PROVE Goal
  <2>1. ASSUME NEW j \in Job, BeginConsume(w, j) \/ BeginRelease(w, j) PROVE Goal
    <3>1. call'[w].pc \in {"findConsume", "findRelease"} /\ rows' = rows
          /\ \A v \in Worker \ {w} : call'[v] = call[v]
      BY <1>a, <2>1 DEF BeginConsume, BeginRelease, Begin, TypeOK
    <3>2. QED
      BY <1>1, <3>1 DEF SettlePc, ConsumePc, ReleasePc
  <2>2. CASE FindConsume(w) \/ FindRelease(w)
    <3>1. PICK from \in {"findConsume", "findRelease"},
               to \in {"flipConsume", "flipRelease"} : Find(w, from, to)
      BY <2>2 DEF FindConsume, FindRelease
    <3>2. rows' = rows
      BY <3>1 DEF Find
    <3>3. CASE Finish(w)
      <4>1. call'[w].pc = "idle" /\ \A v \in Worker \ {w} : call'[v] = call[v]
        BY <1>a, <3>3 DEF TypeOK, Idle
      <4>2. QED
        BY <1>1, <3>2, <4>1 DEF SettlePc, ConsumePc, ReleasePc
    <3>4. ASSUME NEW k \in ReservedRows(call[w].job),
                 call' = [call EXCEPT ![w] = [pc |-> to, run |-> k, bucket |-> rows[k].bucket]]
          PROVE  Goal
      <4>1. /\ call'[w].pc = to /\ call'[w].run = k /\ call'[w].bucket = rows[k].bucket
            /\ \A v \in Worker \ {w} : call'[v] = call[v]
            /\ rows[k].state = "reserved"
        BY <1>a, <3>4 DEF TypeOK, ReservedRows
      <4>2. QED
        BY <3>1, <3>2, <4>1, OwnsUntouched
    <3>5. QED
      BY <3>1, <3>3, <3>4 DEF Find
  <2>3. CASE FlipConsume(w) \/ FlipRelease(w)
    <3>1. call[w].pc \in {"flipConsume", "flipRelease"}
      BY <2>3 DEF FlipConsume, FlipRelease, Flip
    <3>2. PICK k \in RunKey, a \in Bucket : k = call[w].run /\ a = call[w].bucket
      BY <1>b, <3>1 DEF SettlePc
    <3>3. call[w] \in Settling
      BY <1>b, <3>1 DEF SettlePc
    <3>4. CASE rows[k].state # "reserved"
      <4>1. call'[w].pc = "idle" /\ rows' = rows /\ \A v \in Worker \ {w} : call'[v] = call[v]
        BY <1>a, <2>3, <3>2, <3>4 DEF FlipConsume, FlipRelease, Flip, TypeOK, Idle
      <4>2. QED
        BY <1>1, <4>1 DEF SettlePc, ConsumePc, ReleasePc
    <3>5. CASE rows[k].state = "reserved"
      <4>1. rows[k] \in Row /\ rows[k].bucket = a
        BY <1>a, <3>1, <3>2, <3>5 DEF TypeOK, NoRow, IInv, Owns, SettlePc
      <4>2. /\ \A v \in Worker \ {w} : call'[v] = call[v]
            /\ \A l \in RunKey \ {k} : rows'[l] = rows[l]
            /\ call'[w].run = k /\ call'[w].bucket = a /\ rows'[k].bucket = a
            /\ \/ call'[w].pc = "move" /\ rows'[k].state = "consumed"
               \/ call'[w].pc = "drop" /\ rows'[k].state = "released"
        BY <1>a, <2>3, <3>2, <3>3, <3>5, <4>1
           DEF FlipConsume, FlipRelease, Flip, TypeOK, Settling, Row
      <4>3. Owns(w)'
        BY <4>2 DEF Owns, ConsumePc, ReleasePc
      <4>4. \A v \in Worker \ {w} : call[v].pc \in OwnPc => call[v].run # k
        BY <1>c, <3>5
      <4>5. QED
        BY <1>b, <4>1, <4>2, <4>3, <4>4, OwnsChanged
    <3>6. QED
      BY <3>4, <3>5
  <2>4. CASE Move(w) \/ Drop(w)
    <3>1. call'[w].pc = "idle" /\ rows' = rows /\ \A v \in Worker \ {w} : call'[v] = call[v]
      BY <1>a, <2>4 DEF Move, Drop, TypeOK, Idle
    <3>2. QED
      BY <1>1, <3>1 DEF SettlePc, ConsumePc, ReleasePc
  <2>5. CASE MoveFails(w) \/ DropFails(w)
    <3>1. call[w] \in Settling
      BY <1>a, <2>5, CallShape DEF MoveFails, DropFails, Fails, TypeOK
    <3>2. /\ rows' = rows /\ \A v \in Worker \ {w} : call'[v] = call[v]
          /\ call'[w].run = call[w].run /\ call'[w].bucket = call[w].bucket
          /\ \/ call[w].pc = "move" /\ call'[w].pc = "unflipConsume"
             \/ call[w].pc = "drop" /\ call'[w].pc = "unflipRelease"
      BY <1>a, <2>5, <3>1 DEF MoveFails, DropFails, Fails, TypeOK, Settling
    <3>3. QED
      BY <3>2, OwnsUntouched
  <2>6. CASE UnflipConsume(w) \/ UnflipRelease(w)
    <3>1. call[w].pc \in {"unflipConsume", "unflipRelease"}
      BY <2>6 DEF UnflipConsume, UnflipRelease, Unflip
    <3>2. PICK k \in RunKey : k = call[w].run
      BY <1>b, <3>1 DEF SettlePc, ConsumePc, ReleasePc
    <3>3. /\ call[w].pc = "unflipConsume" => rows[k].state = "consumed"
          /\ call[w].pc = "unflipRelease" => rows[k].state = "released"
      BY <3>1, <3>2 DEF IInv, Owns, SettlePc, ConsumePc, ReleasePc
    <3>4. rows[k] \in Row
      BY <1>a, <3>1, <3>3 DEF TypeOK, NoRow
    <3>5. /\ \A v \in Worker \ {w} : call'[v] = call[v]
          /\ \A l \in RunKey \ {k} : rows'[l] = rows[l]
          /\ call'[w].pc = "idle"
          /\ rows'[k].bucket = rows[k].bucket /\ rows'[k].state = "reserved"
      BY <1>a, <2>6, <3>1, <3>2, <3>3, <3>4
         DEF UnflipConsume, UnflipRelease, Unflip, TypeOK, Row, Idle
    <3>6. Owns(w)' /\ call'[w].pc \notin OwnPc
      BY <3>5 DEF Owns, OwnPc, SettlePc, ConsumePc, ReleasePc
    <3>7. \A v \in Worker \ {w} : call[v].pc \in OwnPc => call[v].run # k
      BY <3>1, <3>2 DEF IInv, Alone, OwnPc, ConsumePc, ReleasePc
    <3>8. QED
      BY <1>b, <3>5, <3>6, <3>7, OwnsChanged
  <2>7. QED
    BY <1>3, <2>1, <2>2, <2>3, <2>4, <2>5, <2>6 DEF ConsumeStep, ReleaseStep
<1>4. ASSUME NEW w \in Worker, PutStep(w) \/ Interrupt(w) PROVE Goal
  <2>1. /\ rows' = rows /\ \A v \in Worker \ {w} : call'[v] = call[v]
        /\ call'[w].pc \in {"putSubscription", "putEnsure", "putPeriod", "idle"}
    <3>1. ASSUME NEW n \in OverageRequest, BeginPut(w, n)
          PROVE  /\ rows' = rows /\ \A v \in Worker \ {w} : call'[v] = call[v]
                 /\ call'[w].pc = "putSubscription"
      BY <1>a, <3>1 DEF BeginPut, TypeOK
    <3>2. CASE PutSubscription(w) \/ PutEnsure(w) \/ PutPeriod(w)
      BY <1>a, <3>2, CallShape
         DEF PutSubscription, PutEnsure, PutPeriod, TypeOK, Idle, Adjusting
    <3>3. CASE Interrupt(w)
      BY <1>a, <3>3 DEF Interrupt, TypeOK, Idle
    <3>4. QED
      BY <1>4, <3>1, <3>2, <3>3 DEF PutStep
  <2>2. QED
    BY <1>1, <2>1 DEF SettlePc, ConsumePc, ReleasePc
<1>5. ASSUME UNCHANGED <<rows, call>> PROVE Goal
  BY <1>5 DEF IInv, Owns, Alone
<1>6. QED
  BY <1>2, <1>3, <1>4, <1>5 DEF Next, vars, SubscriptionEvent

-----------------------------------------------------------------------------
(***************************************************************************)
(* The theorems                                                            *)
(***************************************************************************)
LEMMA UnopenedStep ==
    ASSUME IInv, [Next]_vars
    PROVE  \A p \in Period \ opened' : limit'[PlanBucket(p)] = 0
<1>a. TypeOK
  BY DEF IInv
<1>1. ASSUME NEW w \in Worker, Ensure(w) \/ PutEnsure(w)
      PROVE  \A p \in Period \ opened' : limit'[PlanBucket(p)] = 0
  <2>1. EnsurePeriod(call[w].loaded) /\ call[w].loaded \in Subscription
    BY <1>a, <1>1, CallShape DEF Ensure, PutEnsure, At, TypeOK, Ensuring, Adjusting
  <2>2. QED
    BY <2>1, EnsureOpens
<1>2. ASSUME NEW w \in Worker, PutPeriod(w)
      PROVE  \A p \in Period \ opened' : limit'[PlanBucket(p)] = 0
  BY <1>a, <1>2, PutKeepsPlan DEF IInv, PutPeriod
<1>3. CASE UNCHANGED <<opened, limit>>
  BY <1>3 DEF IInv
<1>4. QED
  BY <1>1, <1>2, <1>3
     DEF Next, vars, ReserveStep, ConsumeStep, ReleaseStep, PutStep, BeginReserve, Snapshot,
         Lookup, Hold, HoldOverage, TakeUnit, Insert, InsertFails, Undo, BeginConsume,
         BeginRelease, Begin, FindConsume, FindRelease, Find, FlipConsume, FlipRelease, Flip,
         Move, Drop, MoveFails, DropFails, Fails, UnflipConsume, UnflipRelease, Unflip,
         BeginPut, PutSubscription, Interrupt, SubscriptionEvent

LEMMA InitInv == Init => IInv
<1> SUFFICES ASSUME Init PROVE IInv
  OBVIOUS
<1>1. TypeOK
  BY InitType
<1>2. \A p \in Period \ opened : limit[PlanBucket(p)] = 0
  BY BucketsDiffer DEF Init
<1>3. \A w \in Worker : call[w].pc = "idle"
  BY DEF Init, Idle
<1>4. ASSUME NEW b \in Bucket PROVE Books(b)
  <2>1. \A pcs : "idle" \notin pcs => CallsAt(b, pcs) = {}
    BY <1>3 DEF CallsAt
  <2>2. \A states : "none" \notin states => RowsOf(b, states) = {}
    BY DEF Init, RowsOf, NoRow
  <2>3. /\ CallsAt(b, BookingPc \cup ConsumePc \cup ReleasePc) = {}
        /\ CallsAt(b, ConsumePc) = {}
        /\ CallsAt(b, BookingPc \cup ReleasePc) = {}
    BY <2>1 DEF BookingPc, ConsumePc, ReleasePc
  <2>4. /\ RowsOf(b, {"reserved"}) = {} /\ RowsOf(b, {"consumed"}) = {}
        /\ RowsOf(b, {"reserved", "consumed"}) = {}
    BY <2>2
  <2>5. /\ Cardinality(RowsOf(b, {"reserved"})) = 0
        /\ Cardinality(RowsOf(b, {"consumed"})) = 0
        /\ Cardinality(RowsOf(b, {"reserved", "consumed"})) = 0
        /\ Cardinality(CallsAt(b, BookingPc \cup ConsumePc \cup ReleasePc)) = 0
        /\ Cardinality(CallsAt(b, ConsumePc)) = 0
        /\ Cardinality(CallsAt(b, BookingPc \cup ReleasePc)) = 0
    BY <2>3, <2>4, FS_EmptySet
  <2>6. used[b] = 0 /\ reserved[b] = 0
    BY DEF Init
  <2>7. Accounted(b) = 0 /\ Ceiling(b) \in Nat
    BY <1>1, <2>6, OverageAssumption DEF Accounted, Ceiling, TypeOK
  <2>8. QED
    BY <2>5, <2>6, <2>7 DEF Books
<1>5. (\A w \in Worker : Owns(w)) /\ (\A v, w \in Worker : Alone(v, w))
  BY <1>3 DEF Owns, Alone, SettlePc, ConsumePc, ReleasePc
<1>6. QED
  BY <1>1, <1>2, <1>4, <1>5 DEF IInv

LEMMA NextInv == IInv /\ [Next]_vars => IInv'
<1> SUFFICES ASSUME IInv, [Next]_vars PROVE IInv'
  OBVIOUS
<1>1. TypeOK'
  BY NextType DEF IInv
<1>2. QED
  BY <1>1, UnopenedStep, BooksStep, OwnsStep DEF IInv

\* The invariant the safety theorems rest on: in every bucket the counters cover
\* the rows and the calls under way, and a call between its two writes is the only
\* one to own its row.
THEOREM Inductive == Spec => []IInv
BY InitInv, NextInv, PTL DEF Spec

\* However many invocations race, retry, fail or stop half way, the runs reserved or
\* charged in a bucket never outnumber its plan allowance, or the overage clamp.
THEOREM NeverOverspends == Spec => []NoOverspend
<1>1. IInv => NoOverspend
  <2> SUFFICES ASSUME IInv, NEW b \in Bucket
               PROVE  Cardinality(RowsOf(b, {"reserved", "consumed"})) <= Ceiling(b)
    BY DEF NoOverspend
  <2>1. /\ Cardinality(RowsOf(b, {"reserved", "consumed"})) \in Nat
        /\ Cardinality(CallsAt(b, BookingPc \cup ReleasePc)) \in Nat
    <3>1. /\ RowsOf(b, {"reserved", "consumed"}) \subseteq RunKey
          /\ CallsAt(b, BookingPc \cup ReleasePc) \subseteq Worker
      BY DEF RowsOf, CallsAt
    <3>2. /\ IsFiniteSet(RowsOf(b, {"reserved", "consumed"}))
          /\ IsFiniteSet(CallsAt(b, BookingPc \cup ReleasePc))
      BY <3>1, FS_Subset, FiniteAssumption
    <3>3. QED
      BY <3>2, FS_CardinalityType
  <2>2. /\ Accounted(b) >= Cardinality(RowsOf(b, {"reserved", "consumed"}))
                           + Cardinality(CallsAt(b, BookingPc \cup ReleasePc))
        /\ Accounted(b) <= Ceiling(b)
    BY DEF IInv, Books
  <2>3. Accounted(b) \in Int /\ Ceiling(b) \in Nat
    BY OverageAssumption DEF IInv, TypeOK, Accounted, Ceiling
  <2>4. QED
    BY <2>1, <2>2, <2>3
<1>2. QED
  BY <1>1, Inductive, PTL

\* No two calls give the same unit back: every reserved row, and every call between
\* two writes, keeps a unit of the reserved counter.
THEOREM RowsStayBacked == Spec => []ReservedBacksRows
<1>1. IInv => ReservedBacksRows
  BY DEF IInv, Books, ReservedBacksRows
<1>2. QED
  BY <1>1, Inductive, PTL

\* A run is charged once at most: used never exceeds the rows whose consumption
\* went through.
THEOREM NeverChargedTwice == Spec => []ChargedOnce
<1>1. IInv => ChargedOnce
  BY DEF IInv, Books, ChargedOnce
<1>2. QED
  BY <1>1, Inductive, PTL

-----------------------------------------------------------------------------
(***************************************************************************)
(* The ledger implements the account. Whatever their statements'            *)
(* interleaving, failures and interruptions, calls are single steps of an   *)
(* account that never holds beyond its ceiling and never changes what has   *)
(* been charged or returned.                                               *)
(*                                                                         *)
(* A run key's fate depends on its row and on whether a call is between its *)
(* two writes on it.  By IInv that is one call at most, and the row says    *)
(* which of the two settlements it is at.                                  *)
(***************************************************************************)
HandPc == ConsumePc \cup ReleasePc

\* The fate of a key with this row, which a consuming or a releasing call may have in hand.
Fated(row, consuming, releasing) ==
    IF row = NoRow
    THEN Unheld
    ELSE [state |-> CASE row.state = "reserved" -> "held"
                      [] row.state = "consumed" -> IF consuming THEN "held" ELSE "charged"
                      [] row.state = "released" -> IF releasing THEN "held" ELSE "returned",
          bucket |-> row.bucket]

LEMMA FateIs ==
    /\ FateOf = [k \in RunKey |->
                    Fated(rows[k], InHand(k, ConsumePc), InHand(k, ReleasePc))]
    /\ FateOf' = [k \in RunKey |->
                    Fated(rows'[k], InHand(k, ConsumePc)', InHand(k, ReleasePc)')]
BY DEF FateOf, FateState, Fated

\* What a row makes of its key.
LEMMA FatedIs ==
    ASSUME NEW row \in Row, NEW c, NEW r
    PROVE  /\ row.state = "reserved" =>
                 Fated(row, c, r) = [state |-> "held", bucket |-> row.bucket]
           /\ row.state = "consumed" =>
                 Fated(row, c, r) =
                    [state |-> IF c THEN "held" ELSE "charged", bucket |-> row.bucket]
           /\ row.state = "released" =>
                 Fated(row, c, r) =
                    [state |-> IF r THEN "held" ELSE "returned", bucket |-> row.bucket]
BY DEF Fated, Row, NoRow

-------------------------------------------------------------------------------
(* Frames                                                                     *)

\* A call that is not between its writes changes no fate without writing a row.
LEMMA FatesUntouched ==
    ASSUME rows' = rows, NEW w \in Worker,
           \A v \in Worker \ {w} : call'[v] = call[v],
           call[w].pc \notin HandPc, call'[w].pc \notin HandPc
    PROVE  FateOf' = FateOf
<1>1. \A k \in RunKey : /\ InHand(k, ConsumePc)' <=> InHand(k, ConsumePc)
                        /\ InHand(k, ReleasePc)' <=> InHand(k, ReleasePc)
  BY DEF InHand, HandPc
<1>2. \A k \in RunKey : Fated(rows'[k], InHand(k, ConsumePc)', InHand(k, ReleasePc)')
                        = Fated(rows[k], InHand(k, ConsumePc), InHand(k, ReleasePc))
  BY <1>1 DEF Fated
<1> QED
  BY <1>2, FateIs

\* A call that works on the row of key k changes no other key's fate.
Works(w, k) ==
    /\ Touches(w, k)
    /\ call[w].pc \in HandPc => call[w].run = k
    /\ call'[w].pc \in HandPc => call'[w].run = k

LEMMA FatesElsewhere ==
    ASSUME NEW w \in Worker, NEW k \in RunKey, Works(w, k)
    PROVE  FateOf' = [FateOf EXCEPT ![k] =
                          Fated(rows'[k], InHand(k, ConsumePc)', InHand(k, ReleasePc)')]
<1>1. \A l \in RunKey \ {k} : /\ InHand(l, ConsumePc)' <=> InHand(l, ConsumePc)
                              /\ InHand(l, ReleasePc)' <=> InHand(l, ReleasePc)
  BY DEF InHand, HandPc, Works, Touches
<1>2. \A l \in RunKey \ {k} : Fated(rows'[l], InHand(l, ConsumePc)', InHand(l, ReleasePc)')
                              = Fated(rows[l], InHand(l, ConsumePc), InHand(l, ReleasePc))
  BY <1>1 DEF Fated, Works, Touches
<1> QED
  BY <1>2, FateIs

\* Nobody else is between its writes on the row of a call that is, or that is about
\* to flip a reserved row.
LEMMA OnlyHand ==
    ASSUME IInv, NEW w \in Worker, NEW k \in RunKey, call[w].run = k,
           call[w].pc \in HandPc \/ rows[k].state = "reserved"
    PROVE  \A v \in Worker \ {w} : ~(call[v].pc \in HandPc /\ call[v].run = k)
<1> SUFFICES ASSUME NEW v \in Worker \ {w}, call[v].pc \in HandPc, call[v].run = k
             PROVE  FALSE
  OBVIOUS
<1>1. CASE call[w].pc \in HandPc
  BY <1>1 DEF IInv, Alone, HandPc
<1>2. CASE rows[k].state = "reserved"
  BY <1>2 DEF IInv, Owns, HandPc, SettlePc
<1> QED
  BY <1>1, <1>2

\* What of the account a step of the ledger leaves alone.
PeriodsKept == opened' = opened /\ \A p \in Period : limit'[PlanBucket(p)] = limit[PlanBucket(p)]

LEMMA Stutter ==
    ASSUME FateOf' = FateOf, PeriodsKept
    PROVE  UNCHANGED Account!vars
BY DEF Account!vars, PeriodsKept

-------------------------------------------------------------------------------
(* Steps that the account does not see                                        *)

\* Choosing, finding and adjusting overage.
Unseen(w) ==
    \/ \E k \in RunKey : BeginReserve(w, k)
    \/ Snapshot(w) \/ Lookup(w) \/ Hold(w) \/ HoldOverage(w) \/ InsertFails(w) \/ Undo(w)
    \/ \E j \in Job : BeginConsume(w, j) \/ BeginRelease(w, j)
    \/ FindConsume(w) \/ FindRelease(w)
    \/ \E n \in OverageRequest : BeginPut(w, n)
    \/ PutSubscription(w) \/ PutPeriod(w)

LEMMA UnseenStutters ==
    ASSUME IInv, NEW w \in Worker, Unseen(w)
    PROVE  UNCHANGED Account!vars
<1> USE DEF At, Goto, Finish, Idle
<1>1. call \in [Worker -> Call] /\ call[w] \in Call
  BY DEF IInv, TypeOK
<1>2. /\ rows' = rows /\ \A v \in Worker \ {w} : call'[v] = call[v]
      /\ call[w].pc \notin HandPc
  BY <1>1 DEF Unseen, HandPc, ConsumePc, ReleasePc, BeginReserve, Snapshot, Lookup, Hold,
       HoldOverage, TakeUnit, InsertFails, Undo, BeginConsume, BeginRelease, Begin,
       FindConsume, FindRelease, Find, BeginPut, PutSubscription, PutPeriod
<1>3. call'[w].pc \notin HandPc
  <2> USE DEF HandPc, ConsumePc, ReleasePc
  <2>1. CASE Snapshot(w)
    <3>1. call[w] \in Choosing
      BY <1>1, <2>1, CallShape DEF Snapshot
    <3>2. call'[w] = [call[w] EXCEPT !.pc = "lookup",
                                     !.overage = limit[OverageBucket(call[w].period)] > 0]
      BY <1>1, <2>1 DEF Snapshot
    <3> QED
      BY <3>1, <3>2 DEF Choosing
  <2>2. CASE (\E k \in RunKey : BeginReserve(w, k)) \/ Lookup(w) \/ InsertFails(w) \/ Undo(w)
    BY <1>1, <2>2, CallShape
       DEF BeginReserve, Lookup, InsertFails, Undo, Choosing, Booking
  <2>3. CASE Hold(w) \/ HoldOverage(w)
    BY <1>1, <2>3, CallShape DEF Hold, HoldOverage, TakeUnit, Choosing
  <2>4. CASE \E j \in Job : BeginConsume(w, j) \/ BeginRelease(w, j)
    BY <1>1, <2>4 DEF BeginConsume, BeginRelease, Begin
  <2>5. CASE FindConsume(w) \/ FindRelease(w)
    BY <1>1, <2>5 DEF FindConsume, FindRelease, Find
  <2>6. CASE (\E n \in OverageRequest : BeginPut(w, n)) \/ PutSubscription(w) \/ PutPeriod(w)
    BY <1>1, <2>6, CallShape DEF BeginPut, PutSubscription, PutPeriod, Adjusting
  <2> QED
    BY <2>1, <2>2, <2>3, <2>4, <2>5, <2>6 DEF Unseen
<1>4. PeriodsKept
  <2>1. CASE PutPeriod(w)
    BY <2>1, PutKeepsPlan DEF PeriodsKept, PutPeriod, IInv
  <2>2. CASE ~PutPeriod(w)
    BY <2>2 DEF Unseen, PeriodsKept, BeginReserve, Snapshot, Lookup, Hold, HoldOverage,
       TakeUnit, InsertFails, Undo, BeginConsume, BeginRelease, Begin, FindConsume,
       FindRelease, Find, BeginPut, PutSubscription
  <2> QED
    BY <2>1, <2>2
<1> QED
  BY <1>2, <1>3, <1>4, FatesUntouched, Stutter

LEMMA SubscriptionStutters ==
    ASSUME NEW p \in Period, NEW n \in PlanCredits, SubscriptionEvent(p, n)
    PROVE  UNCHANGED Account!vars
<1>1. FateOf' = FateOf
  BY DEF SubscriptionEvent, FateOf, FateState, InHand
<1> QED
  BY <1>1, Stutter DEF SubscriptionEvent, PeriodsKept

-------------------------------------------------------------------------------
(* Opening a period                                                           *)

\* The first use of a period opens it with a plan's allowance.
LEMMA EnsureOpensAccount ==
    ASSUME IInv, NEW s \in Subscription, EnsurePeriod(s), FateOf' = FateOf
    PROVE  Account!Next \/ UNCHANGED Account!vars
<1>1. CASE s.period \in opened
  BY <1>1, Stutter DEF EnsurePeriod, PeriodsKept
<1>2. CASE s.period \notin opened
  <2> DEFINE q == s.period
             allowance == [p \in Period |-> limit[PlanBucket(p)]]
  <2>1. q \in Period /\ s.credits \in PlanCredits /\ limit \in [Bucket -> Nat]
    BY DEF Subscription, IInv, TypeOK
  <2>2. /\ opened' = opened \cup {q}
        /\ limit' = [limit EXCEPT ![PlanBucket(q)] = s.credits,
                                  ![OverageBucket(q)] = s.overage]
    BY <1>2 DEF EnsurePeriod
  <2>3. limit'[PlanBucket(q)] = s.credits
    BY <2>1, <2>2, BucketsDiffer
  <2>4. \A p \in Period \ {q} : limit'[PlanBucket(p)] = limit[PlanBucket(p)]
    BY <2>1, <2>2, BucketsDiffer
  <2>5. allowance' = [allowance EXCEPT ![q] = s.credits]
    BY <2>1, <2>3, <2>4
  <2>6. Account!Open(q, s.credits)
    BY <1>2, <2>2, <2>5 DEF Account!Open
  <2> QED
    BY <2>1, <2>6 DEF Account!Next
<1> QED
  BY <1>1, <1>2

LEMMA EnsureRefines ==
    ASSUME IInv, NEW w \in Worker, Ensure(w) \/ PutEnsure(w)
    PROVE  Account!Next \/ UNCHANGED Account!vars
<1> USE DEF At, Goto
<1>1. call \in [Worker -> Call] /\ call[w] \in Call
  BY DEF IInv, TypeOK
<1>2. call[w] \in Ensuring \cup Adjusting /\ call[w].pc \notin HandPc
  BY <1>1, CallShape DEF Ensure, PutEnsure, HandPc, ConsumePc, ReleasePc
<1>3. call[w].loaded \in Subscription /\ EnsurePeriod(call[w].loaded)
  BY <1>2 DEF Ensuring, Adjusting, Ensure, PutEnsure
<1>4. call'[w].pc \notin HandPc
  <2>1. CASE Ensure(w)
    BY <1>1, <2>1 DEF Ensure, HandPc, ConsumePc, ReleasePc
  <2>2. CASE PutEnsure(w)
    BY <1>1, <2>2, CallShape DEF PutEnsure, HandPc, ConsumePc, ReleasePc, Adjusting
  <2> QED
    BY <2>1, <2>2
<1>5. rows' = rows /\ \A v \in Worker \ {w} : call'[v] = call[v]
  BY <1>1 DEF Ensure, PutEnsure
<1>6. FateOf' = FateOf
  BY <1>2, <1>4, <1>5, FatesUntouched
<1> QED
  BY <1>3, <1>6, EnsureOpensAccount

-------------------------------------------------------------------------------
(* Holding                                                                    *)

\* The unit a call has taken for its INSERT is room in the account: the keys held or
\* charged, with those that a call is still releasing, are one less than the units
\* accounted for.
LEMMA RoomToHold ==
    ASSUME IInv, NEW w \in Worker, call[w].pc = "insert"
    PROVE  LET b == call[w].bucket IN
           b \in Bucket /\ Cardinality(Account!Bound(b)) < Account!Ceiling(b)
<1> DEFINE b == call[w].bucket
           R == RowsOf(b, {"reserved", "consumed"})
           C == CallsAt(b, ReleasePc)
           A == CallsAt(b, BookingPc \cup ReleasePc)
           D == {call[v].run : v \in C}
           B == Account!Bound(b)
<1>1. b \in Bucket
  BY CallShape DEF IInv, TypeOK, Booking
<1>2. IsFiniteSet(R) /\ IsFiniteSet(C) /\ IsFiniteSet(A)
  <2>1. R \subseteq RunKey /\ C \subseteq Worker /\ A \subseteq Worker
    BY DEF RowsOf, CallsAt
  <2> HIDE DEF R, C, A
  <2> QED
    BY <2>1, FS_Subset, FiniteAssumption
<1>3. IsFiniteSet(D) /\ Cardinality(D) <= Cardinality(C)
  <2> HIDE DEF C
  <2> DEFINE f == [v \in C |-> call[v].run]
  <2>1. f \in Surjection(C, D)
    BY DEF Surjection
  <2> QED
    BY <1>2, <2>1, FS_Surjection
<1>4. Cardinality(A) >= Cardinality(C) + 1
  <2>1. C \cup {w} \subseteq A /\ w \notin C
    BY <1>1 DEF CallsAt, BookingPc, ReleasePc
  <2> HIDE DEF C, A
  <2>2. Cardinality(C \cup {w}) = Cardinality(C) + 1
    BY <1>2, <2>1, FS_AddElement
  <2>3. Cardinality(C \cup {w}) <= Cardinality(A)
    BY <1>2, <2>1, FS_Subset
  <2> QED
    BY <1>2, <2>2, <2>3, FS_CardinalityType
<1>5. B \subseteq R \cup D
  <2> SUFFICES ASSUME NEW k \in RunKey, FateOf[k].state \in {"held", "charged"},
                      FateOf[k].bucket = b
               PROVE  k \in R \cup D
    BY DEF Account!Bound
  <2>1. FateOf[k] = Fated(rows[k], InHand(k, ConsumePc), InHand(k, ReleasePc))
    BY FateIs
  <2>2. rows[k] \in Row /\ rows[k].bucket = b
    <3>1. rows[k] \in Row \cup {NoRow} /\ rows[k] # NoRow
      BY <2>1 DEF Fated, Unheld, IInv, TypeOK
    <3> QED
      BY <2>1, <3>1 DEF Fated
  <2>3. CASE rows[k].state \in {"reserved", "consumed"}
    BY <2>2, <2>3 DEF RowsOf
  <2>4. CASE rows[k].state = "released"
    <3>1. InHand(k, ReleasePc)
      BY <2>1, <2>2, <2>4, FatedIs
    <3>2. PICK v \in Worker : call[v].pc \in ReleasePc /\ call[v].run = k
      BY <3>1 DEF InHand
    <3>3. call[v].bucket = b
      BY <2>2, <3>2 DEF IInv, Owns, SettlePc
    <3> QED
      BY <3>2, <3>3 DEF CallsAt
  <2> QED
    BY <2>2, <2>3, <2>4 DEF Row
<1>6. Cardinality(B) <= Cardinality(R) + Cardinality(C)
  <2> HIDE DEF B, R, C, D
  <2>1. /\ IsFiniteSet(R \cup D)
        /\ Cardinality(R \cup D) = Cardinality(R) + Cardinality(D) - Cardinality(R \cap D)
    BY <1>2, <1>3, FS_Union
  <2>2. IsFiniteSet(R \cap D)
    BY <1>2, FS_Intersection
  <2>3. Cardinality(B) <= Cardinality(R \cup D) /\ IsFiniteSet(B)
    BY <1>5, <2>1, FS_Subset
  <2>4. /\ Cardinality(R) \in Nat /\ Cardinality(D) \in Nat /\ Cardinality(R \cap D) \in Nat
        /\ Cardinality(B) \in Nat /\ Cardinality(C) \in Nat
    BY <1>2, <1>3, <2>2, <2>3, FS_CardinalityType
  <2> QED
    BY <1>3, <2>1, <2>3, <2>4
<1>7. /\ Accounted(b) >= Cardinality(R) + Cardinality(A)
      /\ Accounted(b) <= Ceiling(b)
  BY <1>1 DEF IInv, Books
<1>8. Accounted(b) \in Int /\ Ceiling(b) \in Nat
  BY <1>1, OverageAssumption DEF IInv, TypeOK, Accounted, Ceiling
<1>9. Account!Ceiling(b) = Ceiling(b)
  <2>1. ~b.overage => b = PlanBucket(b.period) /\ b.period \in Period
    BY <1>1 DEF Bucket, PlanBucket
  <2> QED
    BY <2>1 DEF Account!Ceiling, Ceiling
<1>10. /\ Cardinality(B) \in Nat /\ Cardinality(R) \in Nat
       /\ Cardinality(C) \in Nat /\ Cardinality(A) \in Nat
  <2> HIDE DEF B, R, C, A, D
  <2>1. IsFiniteSet(B)
    BY <1>2, <1>3, <1>5, FS_Union, FS_Subset
  <2> QED
    BY <1>2, <2>1, FS_CardinalityType
<1> HIDE DEF R, C, A, D, B
<1>11. Cardinality(B) < Ceiling(b)
  BY <1>4, <1>6, <1>7, <1>8, <1>10
<1> QED
  BY <1>1, <1>9, <1>11 DEF B

LEMMA InsertRefines ==
    ASSUME IInv, NEW w \in Worker, Insert(w)
    PROVE  Account!Next \/ UNCHANGED Account!vars
<1> USE DEF At, Goto, Finish, Idle
<1>1. call \in [Worker -> Call] /\ call[w].pc = "insert"
  BY DEF IInv, TypeOK, Insert
<1>0. call[w] \in Booking
  BY <1>1, CallShape
<1> PICK k \in RunKey, b \in Bucket : k = call[w].run /\ b = call[w].bucket
  BY <1>0 DEF Booking
<1>2. call[w] \in Booking /\ call[w].run = k /\ call[w].bucket = b
  BY <1>0
<1>3. call[w].pc \notin HandPc /\ \A v \in Worker \ {w} : call'[v] = call[v]
  BY <1>1 DEF HandPc, ConsumePc, ReleasePc, Insert
<1>4. PeriodsKept
  BY DEF Insert, PeriodsKept
<1>5. call'[w].pc \notin HandPc
  BY <1>1, <1>2 DEF Insert, Booking, HandPc, ConsumePc, ReleasePc
<1>6. CASE rows[k] # NoRow
  <2>1. rows' = rows
    BY <1>6 DEF Insert
  <2> QED
    BY <1>3, <1>4, <1>5, <2>1, FatesUntouched, Stutter
<1>7. CASE rows[k] = NoRow
  <2> DEFINE row == [state |-> "reserved", bucket |-> b]
  <2>1. rows' = [rows EXCEPT ![k] = row] /\ rows'[k] = row /\ row \in Row
    BY <1>2, <1>7 DEF Insert, IInv, TypeOK, Row
  <2>2. Works(w, k)
    BY <1>3, <1>5, <2>1 DEF Works, Touches
  <2>3. FateOf' = [FateOf EXCEPT ![k] = [state |-> "held", bucket |-> b]]
    BY <1>2, <2>1, <2>2, FatesElsewhere, FatedIs
  <2>4. FateOf[k] = Account!Unheld
    BY <1>2, <1>7, FateIs DEF Fated, Unheld, Account!Unheld
  <2>5. Cardinality(Account!Bound(b)) < Account!Ceiling(b)
    BY <1>1, <1>2, RoomToHold
  <2>6. Account!Cardinality(Account!Bound(b)) = Cardinality(Account!Bound(b))
    BY DEF Cardinality, Account!Cardinality, IsFiniteSet, Account!IsFiniteSet
  <2>7. Account!Hold(k, b)
    BY <1>4, <2>3, <2>4, <2>5, <2>6 DEF Account!Hold, PeriodsKept
  <2>8. b \in Account!Bucket
    BY <1>2 DEF Bucket, Account!Bucket
  <2> QED
    BY <1>2, <2>7, <2>8 DEF Account!Next
<1> QED
  BY <1>6, <1>7

-------------------------------------------------------------------------------
(* Settling                                                                   *)

\* A call that is to settle a row has its key in hand.
LEMMA InItsHand ==
    ASSUME IInv, NEW w \in Worker, call[w].pc \in SettlePc
    PROVE  /\ call[w] \in Settling /\ call[w].run \in RunKey
           /\ rows[call[w].run] \in Row
           /\ call[w].pc \in ConsumePc => rows[call[w].run].state = "consumed"
           /\ call[w].pc \in ReleasePc => rows[call[w].run].state = "released"
<1>1. call[w] \in Settling /\ call[w].run \in RunKey
  BY CallShape DEF IInv, TypeOK, SettlePc, ConsumePc, ReleasePc, Settling
<1>2. rows[call[w].run] \in Row \cup {NoRow} /\ rows[call[w].run] # NoRow
  BY <1>1 DEF IInv, TypeOK, Owns, NoRow
<1> QED
  BY <1>1, <1>2 DEF IInv, Owns

\* From the flip on, and back, the key in hand is held.
LEMMA HeldThroughout ==
    ASSUME IInv, NEW w \in Worker, NEW k \in RunKey, Works(w, k),
           rows[k] \in Row, rows'[k] \in Row, rows'[k].bucket = rows[k].bucket,
           \/ rows[k].state = "reserved"
           \/ rows[k].state = "consumed" /\ InHand(k, ConsumePc)
           \/ rows[k].state = "released" /\ InHand(k, ReleasePc),
           \/ rows'[k].state = "reserved"
           \/ rows'[k].state = "consumed" /\ InHand(k, ConsumePc)'
           \/ rows'[k].state = "released" /\ InHand(k, ReleasePc)'
    PROVE  FateOf' = FateOf
<1> DEFINE held == [state |-> "held", bucket |-> rows[k].bucket]
<1>1. Fated(rows[k], InHand(k, ConsumePc), InHand(k, ReleasePc)) = held
  BY FatedIs
<1>2. Fated(rows'[k], InHand(k, ConsumePc)', InHand(k, ReleasePc)') = held
  BY FatedIs
<1>3. FateOf' = [FateOf EXCEPT ![k] = held]
  BY <1>2, FatesElsewhere
<1> QED
  BY <1>1, <1>3, FateIs

LEMMA FlipRefines ==
    ASSUME IInv, NEW w \in Worker, FlipConsume(w) \/ FlipRelease(w)
    PROVE  UNCHANGED Account!vars
<1> USE DEF At, Goto, Finish, Idle
<1>1. call \in [Worker -> Call] /\ call[w].pc \in {"flipConsume", "flipRelease"}
  BY DEF IInv, TypeOK, FlipConsume, FlipRelease, Flip
<1> PICK k \in RunKey : k = call[w].run
  BY <1>1, InItsHand DEF SettlePc
<1>2. call[w] \in Settling /\ call[w].run = k /\ rows[k] \in Row
  BY <1>1, InItsHand DEF SettlePc
<1>3. call[w].pc \notin HandPc /\ \A v \in Worker \ {w} : call'[v] = call[v]
  BY <1>1 DEF HandPc, ConsumePc, ReleasePc, FlipConsume, FlipRelease, Flip
<1>4. PeriodsKept
  BY DEF FlipConsume, FlipRelease, Flip, PeriodsKept
<1>5. CASE rows[k].state # "reserved"
  <2>1. rows' = rows /\ call'[w].pc \notin HandPc
    BY <1>1, <1>5 DEF FlipConsume, FlipRelease, Flip, HandPc, ConsumePc, ReleasePc
  <2> QED
    BY <1>3, <1>4, <2>1, FatesUntouched, Stutter
<1>6. CASE rows[k].state = "reserved"
  <2>1. PICK ending \in {"consumed", "released"} :
           /\ rows' = [rows EXCEPT ![k].state = ending]
           /\ call' = [call EXCEPT ![w].pc = IF ending = "consumed" THEN "move" ELSE "drop"]
    BY <1>6 DEF FlipConsume, FlipRelease, Flip
  <2>2. /\ rows'[k] = [state |-> ending, bucket |-> rows[k].bucket]
        /\ \A l \in RunKey \ {k} : rows'[l] = rows[l]
    BY <1>2, <2>1 DEF IInv, TypeOK, Row
  <2>3. /\ call'[w].pc = IF ending = "consumed" THEN "move" ELSE "drop"
        /\ call'[w].run = k
    BY <1>1, <1>2, <2>1 DEF Settling
  <2>4. Works(w, k)
    BY <1>3, <2>2, <2>3 DEF Works, Touches
  <2>5. /\ ending = "consumed" => InHand(k, ConsumePc)'
        /\ ending = "released" => InHand(k, ReleasePc)'
    BY <2>3 DEF InHand, ConsumePc, ReleasePc
  <2>6. rows'[k] \in Row /\ rows'[k].state = ending /\ rows'[k].bucket = rows[k].bucket
    BY <1>2, <2>2 DEF Row
  <2> QED
    BY <1>2, <1>4, <1>6, <2>4, <2>5, <2>6, HeldThroughout, Stutter
<1> QED
  BY <1>5, <1>6

\* The counters cannot be moved, or the row is flipped back: the key stays held.
LEMMA FailureRefines ==
    ASSUME IInv, NEW w \in Worker,
           MoveFails(w) \/ DropFails(w) \/ UnflipConsume(w) \/ UnflipRelease(w)
    PROVE  UNCHANGED Account!vars
<1> USE DEF At, Goto, Finish, Idle
<1>1. call \in [Worker -> Call] /\ call[w].pc \in HandPc
  BY DEF IInv, TypeOK, MoveFails, DropFails, Fails, UnflipConsume, UnflipRelease, Unflip,
         HandPc, ConsumePc, ReleasePc
<1> PICK k \in RunKey : k = call[w].run
  BY <1>1, InItsHand DEF SettlePc, HandPc
<1>2. /\ call[w] \in Settling /\ call[w].run = k /\ rows[k] \in Row
      /\ call[w].pc \in ConsumePc => rows[k].state = "consumed"
      /\ call[w].pc \in ReleasePc => rows[k].state = "released"
  BY <1>1, InItsHand DEF SettlePc, HandPc
<1>3. \A v \in Worker \ {w} : call'[v] = call[v]
  BY <1>1 DEF MoveFails, DropFails, Fails, UnflipConsume, UnflipRelease, Unflip
<1>4. PeriodsKept
  BY DEF MoveFails, DropFails, Fails, UnflipConsume, UnflipRelease, Unflip, PeriodsKept
<1>5. \/ rows[k].state = "consumed" /\ InHand(k, ConsumePc)
      \/ rows[k].state = "released" /\ InHand(k, ReleasePc)
  BY <1>1, <1>2 DEF InHand, HandPc
<1>6. CASE MoveFails(w) \/ DropFails(w)
  <2>1. /\ call'[w].run = k /\ rows' = rows
        /\ call[w].pc \in ConsumePc => call'[w].pc \in ConsumePc
        /\ call[w].pc \in ReleasePc => call'[w].pc \in ReleasePc
    BY <1>1, <1>2, <1>6 DEF MoveFails, DropFails, Fails, ConsumePc, ReleasePc, Settling
  <2>2. Works(w, k)
    BY <1>3, <2>1 DEF Works, Touches
  <2>3. \/ rows'[k].state = "consumed" /\ InHand(k, ConsumePc)'
        \/ rows'[k].state = "released" /\ InHand(k, ReleasePc)'
    BY <1>1, <1>2, <2>1 DEF InHand, HandPc
  <2>4. rows'[k] = rows[k]
    BY <2>1
  <2> QED
    BY <1>2, <1>4, <1>5, <2>2, <2>3, <2>4, HeldThroughout, Stutter
<1>7. CASE UnflipConsume(w) \/ UnflipRelease(w)
  <2>1. rows' = [rows EXCEPT ![k].state = "reserved"] /\ call'[w].pc = "idle"
    BY <1>1, <1>2, <1>7 DEF UnflipConsume, UnflipRelease, Unflip, ConsumePc, ReleasePc
  <2>2. /\ rows'[k] = [state |-> "reserved", bucket |-> rows[k].bucket]
        /\ \A l \in RunKey \ {k} : rows'[l] = rows[l]
    BY <1>2, <2>1 DEF IInv, TypeOK, Row
  <2>3. Works(w, k)
    BY <1>3, <2>1, <2>2 DEF Works, Touches, HandPc, ConsumePc, ReleasePc
  <2>4. rows'[k] \in Row /\ rows'[k].state = "reserved" /\ rows'[k].bucket = rows[k].bucket
    BY <1>2, <2>2 DEF Row
  <2> QED
    BY <1>2, <1>4, <1>5, <2>3, <2>4, HeldThroughout, Stutter
<1> QED
  BY <1>6, <1>7

\* A call between its two writes ends: with the counters moved or without, that is
\* when the account charges the key, or returns it.
LEMMA EndOfCallRefines ==
    ASSUME IInv, NEW w \in Worker, call[w].pc \in HandPc, Finish(w),
           rows' = rows, PeriodsKept
    PROVE  Account!Next
<1> PICK k \in RunKey : k = call[w].run
  BY InItsHand DEF SettlePc, HandPc
<1> DEFINE ending == IF call[w].pc \in ConsumePc THEN "charged" ELSE "returned"
<1>1. /\ call[w].run = k /\ rows[k] \in Row
      /\ call[w].pc \in ConsumePc => rows[k].state = "consumed"
      /\ call[w].pc \in ReleasePc => rows[k].state = "released"
  BY InItsHand DEF SettlePc, HandPc
<1>2. /\ \A v \in Worker \ {w} : call'[v] = call[v]
      /\ call'[w].pc = "idle"
  BY DEF Finish, Idle, IInv, TypeOK
<1>3. Works(w, k)
  BY <1>2 DEF Works, Touches, HandPc, ConsumePc, ReleasePc
<1>4. ~InHand(k, ConsumePc)' /\ ~InHand(k, ReleasePc)'
  <2>1. \A v \in Worker \ {w} : ~(call[v].pc \in HandPc /\ call[v].run = k)
    BY <1>1, OnlyHand
  <2> QED
    BY <1>2, <2>1 DEF InHand, HandPc, ConsumePc, ReleasePc
<1>5. FateOf[k] = [state |-> "held", bucket |-> rows[k].bucket]
  <2>1. \/ rows[k].state = "consumed" /\ InHand(k, ConsumePc)
        \/ rows[k].state = "released" /\ InHand(k, ReleasePc)
    BY <1>1 DEF InHand, HandPc
  <2> QED
    BY <1>1, <2>1, FateIs, FatedIs
<1>6. FateOf' = [FateOf EXCEPT ![k] = [state |-> ending, bucket |-> rows[k].bucket]]
  <2>1. Fated(rows'[k], InHand(k, ConsumePc)', InHand(k, ReleasePc)')
            = [state |-> ending, bucket |-> rows[k].bucket]
    BY <1>1, <1>4, FatedIs DEF HandPc
  <2> QED
    BY <1>1, <1>3, <2>1, FatesElsewhere
<1> HIDE DEF ending
<1>7. Account!Settle(k, ending)
  <2>1. [FateOf[k] EXCEPT !.state = ending] = [state |-> ending, bucket |-> rows[k].bucket]
    BY <1>5
  <2>2. FateOf' = [FateOf EXCEPT ![k].state = ending]
    BY <1>6, <2>1
  <2>3. FateOf[k].state = "held"
    BY <1>5
  <2> QED
    BY <2>2, <2>3 DEF Account!Settle, PeriodsKept
<1>8. ending = "charged" \/ ending = "returned"
  BY DEF ending
<1> QED
  BY <1>1, <1>7, <1>8 DEF Account!Next, Account!Charge, Account!Return

LEMMA SettleRefines ==
    ASSUME IInv, NEW w \in Worker, Move(w) \/ Drop(w) \/ Interrupt(w)
    PROVE  Account!Next \/ UNCHANGED Account!vars
<1>1. Finish(w) /\ rows' = rows /\ PeriodsKept
  BY DEF Move, Drop, Interrupt, PeriodsKept
<1>2. CASE call[w].pc \in HandPc
  BY <1>1, <1>2, EndOfCallRefines
<1>3. CASE call[w].pc \notin HandPc
  <2>1. /\ \A v \in Worker \ {w} : call'[v] = call[v]
        /\ call'[w].pc \notin HandPc
    BY <1>1 DEF Finish, Idle, IInv, TypeOK, HandPc, ConsumePc, ReleasePc
  <2> QED
    BY <1>1, <1>3, <2>1, FatesUntouched, Stutter
<1> QED
  BY <1>2, <1>3

-------------------------------------------------------------------------------
\* Nothing is held before the first call.
LEMMA InitRefines == Init => Account!Init
<1> SUFFICES ASSUME Init PROVE Account!Init
  OBVIOUS
<1>1. \A k \in RunKey : FateOf[k] = Account!Unheld
  BY FateIs DEF Init, Fated, Unheld, Account!Unheld
<1>2. FateOf = [k \in RunKey |-> Account!Unheld]
  BY <1>1, FateIs
<1>3. \A p \in Period : limit[PlanBucket(p)] = 0
  BY BucketsDiffer DEF Init
<1> QED
  BY <1>2, <1>3 DEF Init, Account!Init

\* Every step is a step of the account, or none.
LEMMA NextRefines == IInv /\ [Next]_vars => [Account!Next]_(Account!vars)
<1> SUFFICES ASSUME IInv, [Next]_vars PROVE Account!Next \/ UNCHANGED Account!vars
  OBVIOUS
<1>1. ASSUME NEW w \in Worker, ReserveStep(w)
      PROVE  Account!Next \/ UNCHANGED Account!vars
  BY <1>1, UnseenStutters, EnsureRefines, InsertRefines DEF ReserveStep, Unseen
<1>2. ASSUME NEW w \in Worker, ConsumeStep(w) \/ ReleaseStep(w)
      PROVE  Account!Next \/ UNCHANGED Account!vars
  BY <1>2, UnseenStutters, FlipRefines, SettleRefines, FailureRefines
     DEF ConsumeStep, ReleaseStep, Unseen
<1>3. ASSUME NEW w \in Worker, PutStep(w)
      PROVE  Account!Next \/ UNCHANGED Account!vars
  BY <1>3, UnseenStutters, EnsureRefines DEF PutStep, Unseen
<1>4. ASSUME NEW w \in Worker, Interrupt(w)
      PROVE  Account!Next \/ UNCHANGED Account!vars
  BY <1>4, SettleRefines
<1>5. ASSUME NEW p \in Period, NEW n \in PlanCredits, SubscriptionEvent(p, n)
      PROVE  Account!Next \/ UNCHANGED Account!vars
  BY <1>5, SubscriptionStutters
<1>6. CASE UNCHANGED vars
  <2>1. FateOf' = FateOf
    BY <1>6 DEF vars, FateOf, FateState, InHand
  <2> QED
    BY <1>6, <2>1, Stutter DEF vars, PeriodsKept
<1> QED
  BY <1>1, <1>2, <1>3, <1>4, <1>5, <1>6 DEF Next

\* reserveCredits, consumeReservationForJob and releaseReservationForJob, a handful of
\* statements each that anything may come between, are single steps to their callers:
\* a key is held within the ceiling, then charged or returned, and that is final.
THEOREM LedgerImplementsAccount == Spec => ImplementsAccount
BY InitRefines, NextRefines, Inductive, PTL DEF Spec, ImplementsAccount, Account!Spec

-----------------------------------------------------------------------------
(***************************************************************************)
(* While no call was interrupted: the two lower bounds of Books are         *)
(* equalities                                                              *)
(***************************************************************************)
Exact(b) ==
    /\ reserved[b] = Cardinality(RowsOf(b, {"reserved"})) + Cardinality(CallsAt(b, HeavyPc))
    /\ used[b] + Cardinality(CallsAt(b, ConsumePc)) = Cardinality(RowsOf(b, {"consumed"}))

Evened(w, k, b) ==
    /\ Gain(reserved, b) = RowGain(k, b, {"reserved"}) + CallGain(w, b, HeavyPc)
    /\ Gain(used, b) + CallGain(w, b, ConsumePc) = RowGain(k, b, {"consumed"})

LEMMA ExactBalance ==
    ASSUME NEW w, NEW k, NEW b \in Bucket, TypeOK, TypeOK', Exact(b), Touches(w, k),
           Evened(w, k, b)
    PROVE  Exact(b)'
<1>1. /\ reserved[b] \in Int /\ used[b] \in Int
      /\ reserved'[b] \in Int /\ used'[b] \in Int
  BY DEF TypeOK
<1>2. /\ Cardinality(RowsOf(b, {"reserved"})) \in Nat
      /\ Cardinality(RowsOf(b, {"reserved"})') =
            Cardinality(RowsOf(b, {"reserved"})) + RowGain(k, b, {"reserved"})
  BY RecountRows DEF RowGain
<1>3. /\ Cardinality(RowsOf(b, {"consumed"})) \in Nat
      /\ Cardinality(RowsOf(b, {"consumed"})') =
            Cardinality(RowsOf(b, {"consumed"})) + RowGain(k, b, {"consumed"})
  BY RecountRows DEF RowGain
<1>4. /\ Cardinality(CallsAt(b, HeavyPc)) \in Nat
      /\ Cardinality(CallsAt(b, HeavyPc)') =
            Cardinality(CallsAt(b, HeavyPc)) + CallGain(w, b, HeavyPc)
  BY RecountCalls DEF CallGain
<1>5. /\ Cardinality(CallsAt(b, ConsumePc)) \in Nat
      /\ Cardinality(CallsAt(b, ConsumePc)') =
            Cardinality(CallsAt(b, ConsumePc)) + CallGain(w, b, ConsumePc)
  BY RecountCalls DEF CallGain
<1>6. /\ RowGain(k, b, {"reserved"}) \in Int /\ RowGain(k, b, {"consumed"}) \in Int
      /\ CallGain(w, b, HeavyPc) \in Int /\ CallGain(w, b, ConsumePc) \in Int
  BY DEF RowGain, CallGain, Weight
<1>7. reserved'[b] = Cardinality(RowsOf(b, {"reserved"})') + Cardinality(CallsAt(b, HeavyPc)')
  <2>1. reserved[b] = Cardinality(RowsOf(b, {"reserved"})) + Cardinality(CallsAt(b, HeavyPc))
    BY DEF Exact
  <2>2. reserved'[b] = reserved[b] + (RowGain(k, b, {"reserved"}) + CallGain(w, b, HeavyPc))
    BY <1>1, <1>6 DEF Gain, Evened
  <2>3. QED
    BY <1>1, <1>2, <1>4, <1>6, <2>1, <2>2
<1>8. used'[b] + Cardinality(CallsAt(b, ConsumePc)') = Cardinality(RowsOf(b, {"consumed"})')
  <2>1. used[b] + Cardinality(CallsAt(b, ConsumePc)) = Cardinality(RowsOf(b, {"consumed"}))
    BY DEF Exact
  <2>2. QED
    BY <1>1, <1>3, <1>5, <1>6, <2>1 DEF Gain, Evened
<1>9. QED
  BY <1>7, <1>8 DEF Exact

\* Statements that leave the counters and the rows alone, and neither take a unit in hand
\* nor let one go.
LEMMA ExactUntouched ==
    ASSUME TypeOK, TypeOK', NEW w \in Worker, NEW b \in Bucket, Exact(b),
           \A v \in Worker \ {w} : call'[v] = call[v],
           UNCHANGED <<reserved, used, rows>>,
           call'[w].pc \in HeavyPc <=> call[w].pc \in HeavyPc,
           call'[w].pc \in ConsumePc <=> call[w].pc \in ConsumePc,
           call[w].pc \in HeavyPc => call'[w].bucket = call[w].bucket
    PROVE  Exact(b)'
<1> PICK k : k = call[w].run
  OBVIOUS
<1>1. Touches(w, k) /\ Gain(reserved, b) = 0 /\ Gain(used, b) = 0
  BY DEF Touches, Gain, TypeOK
<1>2. RowGain(k, b, {"reserved"}) = 0 /\ RowGain(k, b, {"consumed"}) = 0
  BY DEF RowGain, Weight, RowsOf
<1>3. CallGain(w, b, HeavyPc) = 0 /\ CallGain(w, b, ConsumePc) = 0
  BY DEF CallGain, Weight, CallsAt, HeavyPc
<1> QED
  BY <1>1, <1>2, <1>3, ExactBalance DEF Evened

LEMMA ExactReserve ==
    ASSUME IInv, TypeOK', NEW w \in Worker, ReserveStep(w), NEW b \in Bucket, Exact(b)
    PROVE  Exact(b)'
<1> USE DEF At, Goto, Finish
<1>a. TypeOK /\ call[w] \in Call
  BY DEF IInv, TypeOK
<1>b. \A x : x \in HeavyPc <=> x \in {"insert", "undo", "move", "unflipConsume",
                                      "drop", "unflipRelease"}
  BY DEF HeavyPc, BookingPc, ConsumePc, ReleasePc
<1>c. \A x : x \in ConsumePc <=> x \in {"move", "unflipConsume"}
  BY DEF ConsumePc
<1>1. CASE \E k \in RunKey : BeginReserve(w, k)
  <2>1. /\ call[w].pc = "idle" /\ call'[w].pc = "ensure"
        /\ \A v \in Worker \ {w} : call'[v] = call[v]
        /\ UNCHANGED <<reserved, used, rows>>
    BY <1>a, <1>1 DEF BeginReserve, TypeOK
  <2> QED
    BY <1>a, <1>b, <1>c, <2>1, ExactUntouched
<1>2. CASE Ensure(w)
  <2>1. /\ call[w].pc = "ensure" /\ call'[w].pc = "snapshot"
        /\ \A v \in Worker \ {w} : call'[v] = call[v]
        /\ UNCHANGED <<reserved, used, rows>>
    BY <1>a, <1>2 DEF Ensure, TypeOK
  <2> QED
    BY <1>a, <1>b, <1>c, <2>1, ExactUntouched
<1>3. CASE Snapshot(w) \/ Lookup(w)
  <2>1. call[w] \in Choosing
    BY <1>a, <1>3, CallShape DEF Snapshot, Lookup
  <2>2. /\ call[w].pc \in {"snapshot", "lookup"} /\ call'[w].pc \in {"lookup", "hold", "idle"}
        /\ \A v \in Worker \ {w} : call'[v] = call[v]
        /\ UNCHANGED <<reserved, used, rows>>
    BY <1>a, <1>3, <2>1 DEF Snapshot, Lookup, TypeOK, Idle, Choosing
  <2> QED
    BY <1>a, <1>b, <1>c, <2>2, ExactUntouched
<1>4. CASE Hold(w) \/ HoldOverage(w)
  <2>1. call[w] \in Choosing /\ call[w].pc \in {"hold", "holdOverage"}
    BY <1>a, <1>4, CallShape DEF Hold, HoldOverage
  <2>2. PICK a, full :
           /\ a \in Bucket
           /\ TakeUnit(w, a, full)
           /\ full => \/ call' = [call EXCEPT ![w] = Idle]
                      \/ call' = [call EXCEPT ![w].pc = "holdOverage"]
    BY <1>4, <2>1, BucketsDiffer DEF Hold, HoldOverage, Choosing
  <2>3. CASE HasRoom(a)
    <3>1. PICK k : k = call[w].run
      OBVIOUS
    <3>2. /\ call' = [call EXCEPT ![w] = [pc |-> "insert", run |-> k, bucket |-> a]]
          /\ reserved' = [reserved EXCEPT ![a] = @ + 1]
          /\ rows' = rows /\ used' = used
      BY <2>2, <2>3, <3>1 DEF TakeUnit
    <3>3. Touches(w, k) /\ call'[w].pc = "insert" /\ call'[w].bucket = a
      BY <1>a, <3>2 DEF Touches, TypeOK
    <3>4. Gain(reserved, b) = (IF b = a THEN 1 ELSE 0) /\ Gain(used, b) = 0
      BY <1>a, <3>2 DEF TypeOK, Gain
    <3>5. RowGain(k, b, {"reserved"}) = 0 /\ RowGain(k, b, {"consumed"}) = 0
      BY <3>2 DEF RowGain, Weight, RowsOf
    <3>6. CallGain(w, b, HeavyPc) = (IF b = a THEN 1 ELSE 0) /\ CallGain(w, b, ConsumePc) = 0
      BY <1>b, <1>c, <2>1, <3>3 DEF CallGain, Weight, CallsAt
    <3> QED
      BY <1>a, <3>3, <3>4, <3>5, <3>6, ExactBalance DEF Evened
  <2>4. CASE ~HasRoom(a)
    <3>1. UNCHANGED <<reserved, used, rows>> /\ full
      BY <2>2, <2>4 DEF TakeUnit
    <3>2. /\ call'[w].pc \in {"holdOverage", "idle"}
          /\ \A v \in Worker \ {w} : call'[v] = call[v]
      BY <1>a, <2>1, <2>2, <3>1 DEF TypeOK, Idle, Choosing
    <3> QED
      BY <1>a, <1>b, <1>c, <2>1, <3>1, <3>2, ExactUntouched
  <2> QED
    BY <2>3, <2>4
<1>5. CASE Insert(w) \/ InsertFails(w) \/ Undo(w)
  <2>1. call[w] \in Booking
    BY <1>a, <1>5, CallShape DEF Insert, InsertFails, Undo
  <2>2. PICK k \in RunKey, a \in Bucket : k = call[w].run /\ a = call[w].bucket
    BY <2>1 DEF Booking
  <2>3. CASE Insert(w) /\ rows[k] = NoRow
    <3>1. /\ rows' = [rows EXCEPT ![k] = [state |-> "reserved", bucket |-> a]]
          /\ call' = [call EXCEPT ![w] = Idle]
          /\ reserved' = reserved /\ used' = used /\ call[w].pc = "insert"
      BY <2>2, <2>3 DEF Insert
    <3>2. /\ Touches(w, k) /\ call'[w].pc = "idle" /\ rows[k].state = "none"
          /\ rows'[k].state = "reserved" /\ rows'[k].bucket = a
      BY <1>a, <2>3, <3>1 DEF Touches, TypeOK, NoRow, Idle
    <3>3. Gain(reserved, b) = 0 /\ Gain(used, b) = 0
      BY <1>a, <3>1 DEF TypeOK, Gain
    <3>4. RowGain(k, b, {"reserved"}) = (IF b = a THEN 1 ELSE 0) /\ RowGain(k, b, {"consumed"}) = 0
      BY <3>2 DEF RowGain, Weight, RowsOf
    <3>5. CallGain(w, b, HeavyPc) = (IF b = a THEN -1 ELSE 0) /\ CallGain(w, b, ConsumePc) = 0
      BY <1>b, <1>c, <2>2, <3>1, <3>2 DEF CallGain, Weight, CallsAt
    <3> QED
      BY <1>a, <3>2, <3>3, <3>4, <3>5, ExactBalance DEF Evened
  <2>4. CASE InsertFails(w) \/ (Insert(w) /\ rows[k] # NoRow)
    <3>1. /\ call' = [call EXCEPT ![w].pc = "undo"] /\ UNCHANGED <<reserved, used, rows>>
          /\ call[w].pc = "insert"
      BY <2>2, <2>4 DEF Insert, InsertFails
    <3>2. /\ call'[w].pc = "undo" /\ call'[w].bucket = call[w].bucket
          /\ \A v \in Worker \ {w} : call'[v] = call[v]
      BY <1>a, <2>1, <3>1 DEF TypeOK, Booking
    <3> QED
      BY <1>a, <1>b, <1>c, <3>1, <3>2, ExactUntouched
  <2>5. CASE Undo(w)
    <3>1. /\ reserved' = [reserved EXCEPT ![a] = @ - 1] /\ call' = [call EXCEPT ![w] = Idle]
          /\ rows' = rows /\ used' = used /\ call[w].pc = "undo"
      BY <2>2, <2>5 DEF Undo
    <3>2. Touches(w, k) /\ call'[w].pc = "idle"
      BY <1>a, <3>1 DEF Touches, TypeOK, Idle
    <3>3. Gain(reserved, b) = (IF b = a THEN -1 ELSE 0) /\ Gain(used, b) = 0
      BY <1>a, <3>1 DEF TypeOK, Gain
    <3>4. RowGain(k, b, {"reserved"}) = 0 /\ RowGain(k, b, {"consumed"}) = 0
      BY <3>1 DEF RowGain, Weight, RowsOf
    <3>5. CallGain(w, b, HeavyPc) = (IF b = a THEN -1 ELSE 0) /\ CallGain(w, b, ConsumePc) = 0
      BY <1>b, <1>c, <2>2, <3>1, <3>2 DEF CallGain, Weight, CallsAt
    <3> QED
      BY <1>a, <3>2, <3>3, <3>4, <3>5, ExactBalance DEF Evened
  <2> QED
    BY <1>5, <2>2, <2>3, <2>4, <2>5
<1> QED
  BY <1>1, <1>2, <1>3, <1>4, <1>5 DEF ReserveStep

LEMMA ExactSettle ==
    ASSUME IInv, TypeOK', NEW w \in Worker, ConsumeStep(w) \/ ReleaseStep(w),
           NEW b \in Bucket, Exact(b)
    PROVE  Exact(b)'
<1> USE DEF At, Goto, Finish
<1>a. TypeOK /\ call[w] \in Call
  BY DEF IInv, TypeOK
<1>b. \A x : x \in HeavyPc <=> x \in {"insert", "undo", "move", "unflipConsume",
                                      "drop", "unflipRelease"}
  BY DEF HeavyPc, BookingPc, ConsumePc, ReleasePc
<1>c. \A x : x \in ConsumePc <=> x \in {"move", "unflipConsume"}
  BY DEF ConsumePc
<1>1. CASE \E j \in Job : BeginConsume(w, j) \/ BeginRelease(w, j)
  <2>1. /\ call[w].pc = "idle" /\ call'[w].pc \in {"findConsume", "findRelease"}
        /\ \A v \in Worker \ {w} : call'[v] = call[v]
        /\ UNCHANGED <<reserved, used, rows>>
    BY <1>a, <1>1 DEF BeginConsume, BeginRelease, Begin, TypeOK
  <2> QED
    BY <1>a, <1>b, <1>c, <2>1, ExactUntouched
<1>2. CASE FindConsume(w) \/ FindRelease(w)
  <2>1. PICK from \in {"findConsume", "findRelease"},
             to \in {"flipConsume", "flipRelease"} : Find(w, from, to)
    BY <1>2 DEF FindConsume, FindRelease
  <2>2. /\ call[w].pc \in {"findConsume", "findRelease"}
        /\ UNCHANGED <<reserved, used, rows>>
    BY <2>1 DEF Find
  <2>3. /\ call'[w].pc \in {"idle", "flipConsume", "flipRelease"}
        /\ \A v \in Worker \ {w} : call'[v] = call[v]
    <3>1. CASE Finish(w)
      BY <1>a, <3>1 DEF Idle, TypeOK
    <3>2. ASSUME NEW k \in ReservedRows(call[w].job),
                 call' = [call EXCEPT ![w] = [pc |-> to, run |-> k, bucket |-> rows[k].bucket]]
          PROVE  /\ call'[w].pc \in {"idle", "flipConsume", "flipRelease"}
                 /\ \A v \in Worker \ {w} : call'[v] = call[v]
      BY <1>a, <2>1, <3>2 DEF TypeOK
    <3> QED
      BY <2>1, <3>1, <3>2 DEF Find
  <2> QED
    BY <1>a, <1>b, <1>c, <2>2, <2>3, ExactUntouched
<1>3. CASE call[w].pc \in {"flipConsume", "move", "unflipConsume",
                           "flipRelease", "drop", "unflipRelease"}
  <2>1. call[w] \in Settling
    BY <1>a, <1>3, CallShape
  <2>2. PICK k \in RunKey, a \in Bucket : k = call[w].run /\ a = call[w].bucket
    BY <2>1 DEF Settling
  <2>3. /\ rows[k].state # "none" /\ rows[k].bucket = a
        /\ call[w].pc \in {"move", "unflipConsume"} => rows[k].state = "consumed"
        /\ call[w].pc \in {"drop", "unflipRelease"} => rows[k].state = "released"
    BY <1>3, <2>2 DEF IInv, Owns, SettlePc, ConsumePc, ReleasePc
  <2>4. rows[k] \in Row
    BY <1>a, <2>3 DEF TypeOK, NoRow
  <2>5. CASE FlipConsume(w) \/ FlipRelease(w)
    <3>1. /\ call[w].pc \in {"flipConsume", "flipRelease"} /\ UNCHANGED <<reserved, used>>
      BY <2>5 DEF FlipConsume, FlipRelease, Flip
    <3>2. CASE rows[k].state # "reserved"
      <4>1. call' = [call EXCEPT ![w] = Idle] /\ rows' = rows
        BY <2>2, <2>5, <3>2 DEF FlipConsume, FlipRelease, Flip
      <4>2. call'[w].pc = "idle" /\ \A v \in Worker \ {w} : call'[v] = call[v]
        BY <1>a, <4>1 DEF TypeOK, Idle
      <4> QED
        BY <1>a, <1>b, <1>c, <3>1, <4>1, <4>2, ExactUntouched
    <3>3. CASE rows[k].state = "reserved"
      <4>1. /\ Touches(w, k) /\ call'[w].bucket = a /\ rows'[k].bucket = a
            /\ \/ call'[w].pc = "move" /\ rows'[k].state = "consumed"
               \/ call'[w].pc = "drop" /\ rows'[k].state = "released"
        BY <1>a, <2>1, <2>2, <2>3, <2>4, <2>5, <3>3
           DEF FlipConsume, FlipRelease, Flip, TypeOK, Settling, Row, Touches
      <4>2. Gain(reserved, b) = 0 /\ Gain(used, b) = 0
        BY <1>a, <3>1 DEF TypeOK, Gain
      <4>3. RowGain(k, b, {"reserved"}) = (IF b = a THEN -1 ELSE 0)
        BY <2>3, <3>3, <4>1 DEF RowGain, Weight, RowsOf
      <4>4. CallGain(w, b, HeavyPc) = (IF b = a THEN 1 ELSE 0)
        BY <1>b, <2>2, <3>1, <4>1 DEF CallGain, Weight, CallsAt
      <4>5. CallGain(w, b, ConsumePc) = RowGain(k, b, {"consumed"})
            /\ CallGain(w, b, ConsumePc) \in Int
        BY <1>c, <2>2, <2>3, <3>1, <3>3, <4>1 DEF CallGain, RowGain, Weight, CallsAt, RowsOf
      <4> QED
        BY <1>a, <4>1, <4>2, <4>3, <4>4, <4>5, ExactBalance DEF Evened
    <3> QED
      BY <3>2, <3>3
  <2>6. CASE Move(w)
    <3>1. /\ reserved' = [reserved EXCEPT ![a] = @ - 1] /\ used' = [used EXCEPT ![a] = @ + 1]
          /\ call' = [call EXCEPT ![w] = Idle] /\ rows' = rows /\ call[w].pc = "move"
      BY <2>2, <2>6 DEF Move
    <3>2. Touches(w, k) /\ call'[w].pc = "idle"
      BY <1>a, <3>1 DEF Touches, TypeOK, Idle
    <3>3. /\ Gain(reserved, b) = (IF b = a THEN -1 ELSE 0)
          /\ Gain(used, b) = (IF b = a THEN 1 ELSE 0)
      BY <1>a, <3>1 DEF TypeOK, Gain
    <3>4. RowGain(k, b, {"reserved"}) = 0 /\ RowGain(k, b, {"consumed"}) = 0
      BY <3>1 DEF RowGain, Weight, RowsOf
    <3>5. /\ CallGain(w, b, HeavyPc) = (IF b = a THEN -1 ELSE 0)
          /\ CallGain(w, b, ConsumePc) = (IF b = a THEN -1 ELSE 0)
      BY <1>b, <1>c, <2>2, <3>1, <3>2 DEF CallGain, Weight, CallsAt
    <3> QED
      BY <1>a, <3>2, <3>3, <3>4, <3>5, ExactBalance DEF Evened
  <2>7. CASE Drop(w)
    <3>1. /\ reserved' = [reserved EXCEPT ![a] = @ - 1] /\ used' = used
          /\ call' = [call EXCEPT ![w] = Idle] /\ rows' = rows /\ call[w].pc = "drop"
      BY <2>2, <2>7 DEF Drop
    <3>2. Touches(w, k) /\ call'[w].pc = "idle"
      BY <1>a, <3>1 DEF Touches, TypeOK, Idle
    <3>3. Gain(reserved, b) = (IF b = a THEN -1 ELSE 0) /\ Gain(used, b) = 0
      BY <1>a, <3>1 DEF TypeOK, Gain
    <3>4. RowGain(k, b, {"reserved"}) = 0 /\ RowGain(k, b, {"consumed"}) = 0
      BY <3>1 DEF RowGain, Weight, RowsOf
    <3>5. CallGain(w, b, HeavyPc) = (IF b = a THEN -1 ELSE 0) /\ CallGain(w, b, ConsumePc) = 0
      BY <1>b, <1>c, <2>2, <3>1, <3>2 DEF CallGain, Weight, CallsAt
    <3> QED
      BY <1>a, <3>2, <3>3, <3>4, <3>5, ExactBalance DEF Evened
  <2>8. CASE MoveFails(w) \/ DropFails(w)
    <3>1. UNCHANGED <<reserved, used, rows>>
      BY <2>8 DEF MoveFails, DropFails, Fails
    <3>2. /\ \A v \in Worker \ {w} : call'[v] = call[v]
          /\ call'[w].bucket = call[w].bucket
          /\ \/ call[w].pc = "move" /\ call'[w].pc = "unflipConsume"
             \/ call[w].pc = "drop" /\ call'[w].pc = "unflipRelease"
      BY <1>a, <2>1, <2>8 DEF MoveFails, DropFails, Fails, TypeOK, Settling
    <3> QED
      BY <1>a, <1>b, <1>c, <3>1, <3>2, ExactUntouched
  <2>9. CASE UnflipConsume(w) \/ UnflipRelease(w)
    <3>1. /\ UNCHANGED <<reserved, used>> /\ call[w].pc \in {"unflipConsume", "unflipRelease"}
      BY <2>9 DEF UnflipConsume, UnflipRelease, Unflip
    <3>2. /\ Touches(w, k) /\ call'[w].pc = "idle"
          /\ rows'[k].bucket = a /\ rows'[k].state = "reserved"
      BY <1>a, <2>2, <2>3, <2>4, <2>9
         DEF UnflipConsume, UnflipRelease, Unflip, TypeOK, Row, Idle, Touches
    <3>3. Gain(reserved, b) = 0 /\ Gain(used, b) = 0
      BY <1>a, <3>1 DEF TypeOK, Gain
    <3>4. RowGain(k, b, {"reserved"}) = (IF b = a THEN 1 ELSE 0)
      BY <2>3, <3>1, <3>2 DEF RowGain, Weight, RowsOf
    <3>5. CallGain(w, b, HeavyPc) = (IF b = a THEN -1 ELSE 0)
      BY <1>b, <2>2, <3>1, <3>2 DEF CallGain, Weight, CallsAt
    <3>6. CallGain(w, b, ConsumePc) = RowGain(k, b, {"consumed"})
          /\ CallGain(w, b, ConsumePc) \in Int
      BY <1>c, <2>2, <2>3, <3>1, <3>2 DEF CallGain, RowGain, Weight, CallsAt, RowsOf
    <3> QED
      BY <1>a, <3>2, <3>3, <3>4, <3>5, <3>6, ExactBalance DEF Evened
  <2> QED
    BY <1>3, <2>5, <2>6, <2>7, <2>8, <2>9
       DEF ConsumeStep, ReleaseStep, BeginConsume, BeginRelease, Begin, FindConsume,
           FindRelease, Find
<1> QED
  BY <1>1, <1>2, <1>3
     DEF ConsumeStep, ReleaseStep, FlipConsume, FlipRelease, Flip, Move, Drop, MoveFails,
         DropFails, Fails, UnflipConsume, UnflipRelease, Unflip

LEMMA ExactPut ==
    ASSUME IInv, TypeOK', NEW w \in Worker, PutStep(w), NEW b \in Bucket, Exact(b)
    PROVE  Exact(b)'
<1> USE DEF At, Goto, Finish
<1>a. TypeOK /\ call[w] \in Call
  BY DEF IInv, TypeOK
<1>b. \A x : x \in HeavyPc <=> x \in {"insert", "undo", "move", "unflipConsume",
                                      "drop", "unflipRelease"}
  BY DEF HeavyPc, BookingPc, ConsumePc, ReleasePc
<1>c. \A x : x \in ConsumePc <=> x \in {"move", "unflipConsume"}
  BY DEF ConsumePc
<1>1. CASE \E n \in OverageRequest : BeginPut(w, n)
  <2>1. /\ call[w].pc = "idle" /\ call'[w].pc = "putSubscription"
        /\ \A v \in Worker \ {w} : call'[v] = call[v]
        /\ UNCHANGED <<reserved, used, rows>>
    BY <1>a, <1>1 DEF BeginPut, TypeOK
  <2> QED
    BY <1>a, <1>b, <1>c, <2>1, ExactUntouched
<1>2. CASE PutSubscription(w) \/ PutEnsure(w) \/ PutPeriod(w)
  <2>1. call[w] \in Adjusting
    BY <1>a, <1>2, CallShape DEF PutSubscription, PutEnsure, PutPeriod
  <2>2. /\ call[w].pc \in {"putSubscription", "putEnsure", "putPeriod"}
        /\ call'[w].pc \in {"putEnsure", "putPeriod", "idle"}
        /\ \A v \in Worker \ {w} : call'[v] = call[v]
        /\ UNCHANGED <<reserved, used, rows>>
    BY <1>a, <1>2, <2>1 DEF PutSubscription, PutEnsure, PutPeriod, TypeOK, Idle, Adjusting
  <2> QED
    BY <1>a, <1>b, <1>c, <2>2, ExactUntouched
<1> QED
  BY <1>1, <1>2 DEF PutStep

\* The steps of the run's instance that no call is interrupted in are the ledger's.
LEMMA UninterruptedIs ==
    ASSUME Uninterrupted!Next
    PROVE  /\ Next
           /\ \/ \E w \in Worker :
                   ReserveStep(w) \/ ConsumeStep(w) \/ ReleaseStep(w) \/ PutStep(w)
              \/ UNCHANGED <<limit, reserved, used, rows, call>>
<1> USE DEF At, Goto, Finish, Uninterrupted!At, Uninterrupted!Goto, Uninterrupted!Finish,
            Uninterrupted!Idle, Idle
<1>1. ASSUME NEW w \in Worker, Uninterrupted!ReserveStep(w)
      PROVE  ReserveStep(w)
  BY <1>1 DEF Uninterrupted!ReserveStep, Uninterrupted!BeginReserve, Uninterrupted!Ensure,
       Uninterrupted!EnsurePeriod, Uninterrupted!PlanBucket, Uninterrupted!OverageBucket,
       Uninterrupted!Snapshot, Uninterrupted!Lookup, Uninterrupted!Hold,
       Uninterrupted!HoldOverage, Uninterrupted!TakeUnit, Uninterrupted!HasRoom,
       Uninterrupted!Insert, Uninterrupted!NoRow, Uninterrupted!InsertFails,
       Uninterrupted!Undo,
       ReserveStep, BeginReserve, Ensure, EnsurePeriod, PlanBucket, OverageBucket,
       Snapshot, Lookup, Hold, HoldOverage, TakeUnit, HasRoom, Insert, NoRow, InsertFails, Undo
<1>2. ASSUME NEW w \in Worker, Uninterrupted!ConsumeStep(w)
      PROVE  ConsumeStep(w)
  BY <1>2 DEF Uninterrupted!ConsumeStep, Uninterrupted!BeginConsume, Uninterrupted!Begin,
       Uninterrupted!FindConsume, Uninterrupted!Find, Uninterrupted!ReservedRows,
       Uninterrupted!FlipConsume, Uninterrupted!Flip, Uninterrupted!Move,
       Uninterrupted!MoveFails, Uninterrupted!Fails, Uninterrupted!UnflipConsume,
       Uninterrupted!Unflip,
       ConsumeStep, BeginConsume, Begin, FindConsume, Find, ReservedRows, FlipConsume, Flip,
       Move, MoveFails, Fails, UnflipConsume, Unflip
<1>3. ASSUME NEW w \in Worker, Uninterrupted!ReleaseStep(w)
      PROVE  ReleaseStep(w)
  BY <1>3 DEF Uninterrupted!ReleaseStep, Uninterrupted!BeginRelease, Uninterrupted!Begin,
       Uninterrupted!FindRelease, Uninterrupted!Find, Uninterrupted!ReservedRows,
       Uninterrupted!FlipRelease, Uninterrupted!Flip, Uninterrupted!Drop,
       Uninterrupted!DropFails, Uninterrupted!Fails, Uninterrupted!UnflipRelease,
       Uninterrupted!Unflip,
       ReleaseStep, BeginRelease, Begin, FindRelease, Find, ReservedRows, FlipRelease, Flip,
       Drop, DropFails, Fails, UnflipRelease, Unflip
<1>4. ASSUME NEW w \in Worker, Uninterrupted!PutStep(w)
      PROVE  PutStep(w)
  BY <1>4 DEF Uninterrupted!PutStep, Uninterrupted!BeginPut, Uninterrupted!Clamp,
       Uninterrupted!PutSubscription, Uninterrupted!PutEnsure, Uninterrupted!EnsurePeriod,
       Uninterrupted!PlanBucket, Uninterrupted!OverageBucket, Uninterrupted!PutPeriod,
       PutStep, BeginPut, Clamp, PutSubscription, PutEnsure, EnsurePeriod, PlanBucket,
       OverageBucket, PutPeriod
<1>5. ASSUME NEW w \in Worker, Uninterrupted!Interrupt(w)
      PROVE  FALSE
  BY <1>5 DEF Uninterrupted!Interrupt
<1>6. ASSUME NEW p \in Period, NEW n \in PlanCredits, Uninterrupted!SubscriptionEvent(p, n)
      PROVE  SubscriptionEvent(p, n)
  BY <1>6 DEF Uninterrupted!SubscriptionEvent, SubscriptionEvent
<1>7. CASE \E w \in Worker :
             \/ Uninterrupted!ReserveStep(w) \/ Uninterrupted!ConsumeStep(w)
             \/ Uninterrupted!ReleaseStep(w) \/ Uninterrupted!PutStep(w)
             \/ Uninterrupted!Interrupt(w)
  <2>1. PICK w \in Worker : ReserveStep(w) \/ ConsumeStep(w) \/ ReleaseStep(w) \/ PutStep(w)
    BY <1>1, <1>2, <1>3, <1>4, <1>5, <1>7, Zenon
  <2> QED
    BY <2>1, Zenon DEF Next
<1>8. CASE \E p \in Period, n \in PlanCredits : Uninterrupted!SubscriptionEvent(p, n)
  <2>1. \E p \in Period, n \in PlanCredits : SubscriptionEvent(p, n)
    BY <1>6, <1>8, Zenon
  <2>2. UNCHANGED <<limit, reserved, used, rows, call>>
    BY <2>1 DEF SubscriptionEvent
  <2>3. Next
    BY <2>1, Zenon DEF Next
  <2> QED
    BY <2>2, <2>3
<1> QED
  BY <1>7, <1>8, Zenon DEF Uninterrupted!Next

ExactInv == IInv /\ (~interrupted => \A b \in Bucket : Exact(b))

LEMMA ExactBegins == MCInit => ExactInv
<1> SUFFICES ASSUME MCInit PROVE IInv /\ \A b \in Bucket : Exact(b)
  BY DEF ExactInv
<1>1. IInv
  BY InitInv DEF MCInit
<1>2. ASSUME NEW b \in Bucket
      PROVE  Exact(b)
  <2>1. /\ RowsOf(b, {"reserved"}) = {} /\ RowsOf(b, {"consumed"}) = {}
        /\ CallsAt(b, HeavyPc) = {} /\ CallsAt(b, ConsumePc) = {}
    BY DEF MCInit, Init, RowsOf, CallsAt, NoRow, Idle, HeavyPc, BookingPc, ConsumePc, ReleasePc
  <2>2. reserved[b] = 0 /\ used[b] = 0
    BY DEF MCInit, Init
  <2> QED
    BY <2>1, <2>2, FS_EmptySet DEF Exact
<1> QED
  BY <1>1, <1>2

LEMMA ExactStep ==
    ASSUME ExactInv, [MCNext]_<<vars, interrupted>>
    PROVE  ExactInv'
<1>1. CASE Uninterrupted!Next /\ UNCHANGED interrupted
  <2>1. IInv /\ IInv' /\ TypeOK'
    BY <1>1, UninterruptedIs, NextInv DEF ExactInv, IInv
  <2>2. ASSUME NEW b \in Bucket, Exact(b)
        PROVE  Exact(b)'
    <3>1. CASE UNCHANGED <<limit, reserved, used, rows, call>>
      BY <2>2, <3>1 DEF Exact, RowsOf, CallsAt
    <3> QED
      BY <1>1, <2>1, <2>2, <3>1, UninterruptedIs, ExactReserve, ExactSettle, ExactPut
  <2> QED
    BY <1>1, <2>1, <2>2 DEF ExactInv
<1>2. CASE \E w \in Worker : Interrupt(w) /\ interrupted' = TRUE
  <2>1. Next
    BY <1>2 DEF Next
  <2> QED
    BY <1>2, <2>1, NextInv DEF ExactInv
<1>3. CASE UNCHANGED <<vars, interrupted>>
  <2>1. IInv' /\ UNCHANGED <<reserved, used, rows, call, interrupted>>
    BY <1>3, NextInv DEF ExactInv, vars
  <2> QED
    BY <2>1 DEF ExactInv, Exact, RowsOf, CallsAt
<1> QED
  BY <1>1, <1>2, <1>3 DEF MCNext

\* Whatever calls race, retry and fail half way and compensate, with none interrupted and
\* none under way the counters are what the rows say: the compensations of reserveCredits,
\* consume and release (entitlements.ts:217-219, 275-286, 310-319) lose and invent nothing.
THEOREM CountersAreExact == MCSpec => []ExactUnlessInterrupted
<1>1. ExactInv => ExactUnlessInterrupted
  <2> SUFFICES ASSUME ExactInv, ~interrupted, Quiet, NEW b \in Bucket
               PROVE  /\ reserved[b] = Cardinality(RowsOf(b, {"reserved"}))
                      /\ used[b] = Cardinality(RowsOf(b, {"consumed"}))
    BY DEF ExactUnlessInterrupted, SettledExactly
  <2>1. CallsAt(b, HeavyPc) = {} /\ CallsAt(b, ConsumePc) = {}
    BY DEF Quiet, At, CallsAt, HeavyPc, BookingPc, ConsumePc, ReleasePc
  <2>2. Cardinality({}) = 0 /\ reserved[b] \in Int /\ used[b] \in Int
    BY FS_EmptySet DEF ExactInv, IInv, TypeOK
  <2>3. /\ Cardinality(RowsOf(b, {"reserved"})) \in Nat
        /\ Cardinality(RowsOf(b, {"consumed"})) \in Nat
    <3>1. IsFiniteSet(RowsOf(b, {"reserved"})) /\ IsFiniteSet(RowsOf(b, {"consumed"}))
      BY FiniteAssumption, FS_Subset DEF RowsOf
    <3> QED
      BY <3>1, FS_CardinalityType
  <2> QED
    BY <2>1, <2>2, <2>3 DEF ExactInv, Exact
<1> QED
  BY <1>1, ExactBegins, ExactStep, PTL DEF MCSpec
=============================================================================
