---------------------------- MODULE CreditLedger -----------------------------
(***************************************************************************)
(* The credit ledger of services/entitlements.ts, one D1 statement a step.  *)
(*                                                                         *)
(* D1 has no multi-statement transaction here, so every operation is a      *)
(* sequence of single-statement conditional UPDATEs and SELECTs that the    *)
(* calls of concurrent Worker invocations interleave. The database is two   *)
(* tables: usage_periods (the counters and limits of each period, split     *)
(* here into a plan bucket and an overage bucket) and                       *)
(* optimization_credit_reservations (one row per run key). A call is at one *)
(* of the statements of reserveCredits, consumeReservationForJob,           *)
(* releaseReservationForJob or of the overage settings route of             *)
(* routes/billing.ts. A call may stop between any two statements: its       *)
(* invocation is evicted, or a statement outside its try block throws.      *)
(*                                                                         *)
(* Every caller passes units: 1, so a credit is a unit here too.            *)
(***************************************************************************)
EXTENDS Integers, FiniteSets

CONSTANTS
    Worker,         \* concurrent invocations, one ledger call each
    RunKey,         \* run keys: job_<id>, rerun_<id>_<ms>
    Job,            \* optimization jobs
    JobOf,          \* JobOf[k]: the job run key k was minted for
    Period,         \* billing periods a subscription row may point to
    PlanCredits,    \* monthlyCredits of the plans a subscription may be on
    OverageRequest, \* limits an owner may ask for (0: overage off)
    MaxOverage,     \* the clamp on them (200_000 in the code)
    Interruptible   \* whether calls may stop half way

ASSUME JobOfAssumption == JobOf \in [RunKey -> Job]
ASSUME PlanCreditsAssumption == PlanCredits \subseteq Nat
ASSUME OverageAssumption == OverageRequest \subseteq Nat /\ MaxOverage \in Nat
ASSUME InterruptibleAssumption == Interruptible \in BOOLEAN
ASSUME FiniteAssumption == IsFiniteSet(Worker) /\ IsFiniteSet(RunKey)

VARIABLES
    subscription,   \* the subscriptions row: the period, plan and overage in force
    opened,         \* the periods whose usage_periods row exists
    limit,          \* limit[b]: credit_limit, overage_limit_credits (0 when off)
    reserved,       \* reserved[b]: credits_reserved, overage_credits_reserved
    used,           \* used[b]: credits_used, overage_credits_used
    rows,           \* rows[k]: the reservation row of run key k
    call            \* call[w]: the ledger call invocation w is executing

vars == <<subscription, opened, limit, reserved, used, rows, call>>

Bucket == [period: Period, overage: BOOLEAN]

PlanBucket(p)    == [period |-> p, overage |-> FALSE]
OverageBucket(p) == [period |-> p, overage |-> TRUE]

Subscription == [period: Period, credits: PlanCredits, overage: 0..MaxOverage]

NoRow == [state |-> "none"]
Row   == [state: {"reserved", "consumed", "released"}, bucket: Bucket]

(***************************************************************************)
(* The calls, by the statement they are about to execute and what they      *)
(* have in hand there.                                                     *)
(***************************************************************************)
Idle      == [pc |-> "idle"]
Ensuring  == [pc: {"ensure"}, run: RunKey, loaded: Subscription]
Choosing  == [pc: {"snapshot", "lookup", "hold", "holdOverage"},
              run: RunKey, period: Period, overage: BOOLEAN]
Booking   == [pc: {"insert", "undo"}, run: RunKey, bucket: Bucket]
Finding   == [pc: {"findConsume", "findRelease"}, job: Job]
Settling  == [pc: {"flipConsume", "move", "unflipConsume",
                   "flipRelease", "drop", "unflipRelease"},
              run: RunKey, bucket: Bucket]
Adjusting == [pc: {"putSubscription", "putEnsure", "putPeriod"}, loaded: Subscription]

Call == {Idle} \cup Ensuring \cup Choosing \cup Booking \cup Finding
               \cup Settling \cup Adjusting

At(w, pc)   == call[w].pc = pc
Goto(w, pc) == call' = [call EXCEPT ![w].pc = pc]
Finish(w)   == call' = [call EXCEPT ![w] = Idle]

-----------------------------------------------------------------------------
(***************************************************************************)
(* reserveCredits                                                          *)
(***************************************************************************)

\* The caller has loaded the subscription row it passes in; it may be stale by
\* the time the statements below execute.
BeginReserve(w, k) ==
    /\ At(w, "idle")
    /\ call' = [call EXCEPT ![w] = [pc |-> "ensure", run |-> k, loaded |-> subscription]]
    /\ UNCHANGED <<subscription, opened, limit, reserved, used, rows>>

\* INSERT OR IGNORE of the usage_periods row, from the subscription s in hand.
EnsurePeriod(s) ==
    IF s.period \in opened
    THEN UNCHANGED <<opened, limit>>
    ELSE /\ opened' = opened \cup {s.period}
         /\ limit' = [limit EXCEPT ![PlanBucket(s.period)] = s.credits,
                                   ![OverageBucket(s.period)] = s.overage]

Ensure(w) ==
    /\ At(w, "ensure")
    /\ EnsurePeriod(call[w].loaded)
    /\ call' = [call EXCEPT ![w] = [pc |-> "snapshot", run |-> call[w].run,
                                    period |-> call[w].loaded.period,
                                    overage |-> FALSE]]
    /\ UNCHANGED <<subscription, reserved, used, rows>>

\* The SELECT of the period row: its overage_enabled flag is used later.
Snapshot(w) ==
    /\ At(w, "snapshot")
    /\ call' = [call EXCEPT ![w].pc = "lookup",
                            ![w].overage = limit[OverageBucket(call[w].period)] > 0]
    /\ UNCHANGED <<subscription, opened, limit, reserved, used, rows>>

\* A run key that already has a live reservation is answered with it.
Lookup(w) ==
    /\ At(w, "lookup")
    /\ IF rows[call[w].run].state \in {"reserved", "consumed"}
       THEN Finish(w)
       ELSE Goto(w, "hold")
    /\ UNCHANGED <<subscription, opened, limit, reserved, used, rows>>

\* Mutant of HasRoom: forgets the units that are held.
HasRoomForUsed(b) == used[b] + 1 <= limit[b]

HasRoom(b) == used[b] + reserved[b] + 1 <= limit[b]

\* The conditional UPDATE that takes a unit of bucket b, on to the INSERT; `full`
\* is where the call goes when no row changed.
TakeUnit(w, b, full) ==
    /\ IF HasRoom(b)
       THEN /\ reserved' = [reserved EXCEPT ![b] = @ + 1]
            /\ call' = [call EXCEPT ![w] = [pc |-> "insert", run |-> call[w].run,
                                            bucket |-> b]]
       ELSE UNCHANGED reserved /\ full
    /\ UNCHANGED <<subscription, opened, limit, used, rows>>

Hold(w) ==
    /\ At(w, "hold")
    /\ TakeUnit(w, PlanBucket(call[w].period),
                IF call[w].overage THEN Goto(w, "holdOverage") ELSE Finish(w))

HoldOverage(w) ==
    /\ At(w, "holdOverage")
    /\ TakeUnit(w, OverageBucket(call[w].period), Finish(w))

\* Mutant of Insert: a released row is replaced instead of refused.
InsertOrReplace(w) ==
    /\ At(w, "insert")
    /\ IF rows[call[w].run].state \in {"none", "released"}
       THEN /\ rows' = [rows EXCEPT ![call[w].run] =
                            [state |-> "reserved", bucket |-> call[w].bucket]]
            /\ Finish(w)
       ELSE /\ Goto(w, "undo")
            /\ UNCHANGED rows
    /\ UNCHANGED <<subscription, opened, limit, reserved, used>>

\* run_key is UNIQUE: the INSERT of a key that has a row fails.
Insert(w) ==
    /\ At(w, "insert")
    /\ IF rows[call[w].run] = NoRow
       THEN /\ rows' = [rows EXCEPT ![call[w].run] =
                            [state |-> "reserved", bucket |-> call[w].bucket]]
            /\ Finish(w)
       ELSE /\ Goto(w, "undo")
            /\ UNCHANGED rows
    /\ UNCHANGED <<subscription, opened, limit, reserved, used>>

InsertFails(w) ==
    /\ At(w, "insert")
    /\ Goto(w, "undo")
    /\ UNCHANGED <<subscription, opened, limit, reserved, used, rows>>

\* Mutant of Undo: the catch block forgets the counter.
UndoForgets(w) ==
    /\ At(w, "undo")
    /\ Finish(w)
    /\ UNCHANGED <<subscription, opened, limit, reserved, used, rows>>

\* decrementReserved in the catch block; the SELECT after it only chooses the answer.
Undo(w) ==
    /\ At(w, "undo")
    /\ reserved' = [reserved EXCEPT ![call[w].bucket] = @ - 1]
    /\ Finish(w)
    /\ UNCHANGED <<subscription, opened, limit, used, rows>>

-----------------------------------------------------------------------------
(***************************************************************************)
(* consumeReservationForJob and releaseReservationForJob: find a reserved   *)
(* row of the job, flip its state, then move the counters; a failure of the *)
(* last statement is compensated by flipping the state back.               *)
(***************************************************************************)
Begin(w, j, pc) ==
    /\ At(w, "idle")
    /\ call' = [call EXCEPT ![w] = [pc |-> pc, job |-> j]]
    /\ UNCHANGED <<subscription, opened, limit, reserved, used, rows>>

BeginConsume(w, j) == Begin(w, j, "findConsume")
BeginRelease(w, j) == Begin(w, j, "findRelease")

ReservedRows(j) == {k \in RunKey : JobOf[k] = j /\ rows[k].state = "reserved"}

\* .first() of an unordered SELECT: any reserved row of the job, or none.
Find(w, from, to) ==
    /\ At(w, from)
    /\ \/ /\ ReservedRows(call[w].job) = {}
          /\ Finish(w)
       \/ \E k \in ReservedRows(call[w].job) :
             call' = [call EXCEPT ![w] = [pc |-> to, run |-> k, bucket |-> rows[k].bucket]]
    /\ UNCHANGED <<subscription, opened, limit, reserved, used, rows>>

FindConsume(w) == Find(w, "findConsume", "flipConsume")
FindRelease(w) == Find(w, "findRelease", "flipRelease")

\* Mutant of Flip: the UPDATE without its AND state = 'reserved'.
FlipUnguarded(w, from, ending, to) ==
    /\ At(w, from)
    /\ rows' = [rows EXCEPT ![call[w].run].state = ending]
    /\ Goto(w, to)
    /\ UNCHANGED <<subscription, opened, limit, reserved, used>>

\* UPDATE ... SET state = ending WHERE id = ? AND state = 'reserved'; a call whose
\* row another call flipped first (changes # 1) returns.
Flip(w, from, ending, to) ==
    /\ At(w, from)
    /\ IF rows[call[w].run].state = "reserved"
       THEN /\ rows' = [rows EXCEPT ![call[w].run].state = ending]
            /\ Goto(w, to)
       ELSE /\ Finish(w)
            /\ UNCHANGED rows
    /\ UNCHANGED <<subscription, opened, limit, reserved, used>>

FlipConsume(w) == Flip(w, "flipConsume", "consumed", "move")
FlipRelease(w) == Flip(w, "flipRelease", "released", "drop")

\* The unit goes from reserved to used ...
Move(w) ==
    /\ At(w, "move")
    /\ reserved' = [reserved EXCEPT ![call[w].bucket] = @ - 1]
    /\ used' = [used EXCEPT ![call[w].bucket] = @ + 1]
    /\ Finish(w)
    /\ UNCHANGED <<subscription, opened, limit, rows>>

\* ... or back to the allowance.
Drop(w) ==
    /\ At(w, "drop")
    /\ reserved' = [reserved EXCEPT ![call[w].bucket] = @ - 1]
    /\ Finish(w)
    /\ UNCHANGED <<subscription, opened, limit, used, rows>>

\* The counter UPDATE throws: on to the catch block.
Fails(w, from, to) ==
    /\ At(w, from)
    /\ Goto(w, to)
    /\ UNCHANGED <<subscription, opened, limit, reserved, used, rows>>

MoveFails(w) == Fails(w, "move", "unflipConsume")
DropFails(w) == Fails(w, "drop", "unflipRelease")

\* UPDATE ... SET state = 'reserved' WHERE id = ? AND state = ending, then rethrow.
Unflip(w, from, ending) ==
    /\ At(w, from)
    /\ rows' = IF rows[call[w].run].state = ending
               THEN [rows EXCEPT ![call[w].run].state = "reserved"]
               ELSE rows
    /\ Finish(w)
    /\ UNCHANGED <<subscription, opened, limit, reserved, used>>

UnflipConsume(w) == Unflip(w, "unflipConsume", "consumed")
UnflipRelease(w) == Unflip(w, "unflipRelease", "released")

-----------------------------------------------------------------------------
(***************************************************************************)
(* The rest of the world: PUT /billing/overage, the Polar webhook's upsert  *)
(* of the subscription row, and calls that stop half way.                  *)
(***************************************************************************)

Clamp(n) == IF n > MaxOverage THEN MaxOverage ELSE n

\* The settings are kept as one number, the limit in force: 0 when overage is off.
BeginPut(w, n) ==
    /\ At(w, "idle")
    /\ call' = [call EXCEPT ![w] = [pc |-> "putSubscription",
                                    loaded |-> [subscription EXCEPT !.overage = Clamp(n)]]]
    /\ UNCHANGED <<subscription, opened, limit, reserved, used, rows>>

PutSubscription(w) ==
    /\ At(w, "putSubscription")
    /\ subscription' = [subscription EXCEPT !.overage = call[w].loaded.overage]
    /\ Goto(w, "putEnsure")
    /\ UNCHANGED <<opened, limit, reserved, used, rows>>

PutEnsure(w) ==
    /\ At(w, "putEnsure")
    /\ EnsurePeriod(call[w].loaded)
    /\ Goto(w, "putPeriod")
    /\ UNCHANGED <<subscription, reserved, used, rows>>

PutPeriod(w) ==
    /\ At(w, "putPeriod")
    /\ limit' = [limit EXCEPT ![OverageBucket(call[w].loaded.period)] =
                                  call[w].loaded.overage]
    /\ Finish(w)
    /\ UNCHANGED <<subscription, opened, reserved, used, rows>>

\* A subscription event moves the row to a period and a plan; events carry no order.
SubscriptionEvent(p, n) ==
    /\ subscription' = [subscription EXCEPT !.period = p, !.credits = n]
    /\ UNCHANGED <<opened, limit, reserved, used, rows, call>>

Interrupt(w) ==
    /\ Interruptible
    /\ ~At(w, "idle")
    /\ Finish(w)
    /\ UNCHANGED <<subscription, opened, limit, reserved, used, rows>>

-----------------------------------------------------------------------------
Init ==
    /\ subscription \in [period: Period, credits: PlanCredits, overage: {0}]
    /\ opened = {}
    /\ limit = [b \in Bucket |-> 0]
    /\ reserved = [b \in Bucket |-> 0]
    /\ used = [b \in Bucket |-> 0]
    /\ rows = [k \in RunKey |-> NoRow]
    /\ call = [w \in Worker |-> Idle]

ReserveStep(w) ==
    \/ \E k \in RunKey : BeginReserve(w, k)
    \/ Ensure(w) \/ Snapshot(w) \/ Lookup(w) \/ Hold(w) \/ HoldOverage(w)
    \/ Insert(w) \/ InsertFails(w) \/ Undo(w)

ConsumeStep(w) ==
    \/ \E j \in Job : BeginConsume(w, j)
    \/ FindConsume(w) \/ FlipConsume(w) \/ Move(w) \/ MoveFails(w) \/ UnflipConsume(w)

ReleaseStep(w) ==
    \/ \E j \in Job : BeginRelease(w, j)
    \/ FindRelease(w) \/ FlipRelease(w) \/ Drop(w) \/ DropFails(w) \/ UnflipRelease(w)

PutStep(w) ==
    \/ \E n \in OverageRequest : BeginPut(w, n)
    \/ PutSubscription(w) \/ PutEnsure(w) \/ PutPeriod(w)

Next ==
    \/ \E w \in Worker : \/ ReserveStep(w)
                         \/ ConsumeStep(w)
                         \/ ReleaseStep(w)
                         \/ PutStep(w)
                         \/ Interrupt(w)
    \/ \E p \in Period, n \in PlanCredits : SubscriptionEvent(p, n)

Spec == Init /\ [][Next]_vars

-----------------------------------------------------------------------------
(***************************************************************************)
(* Properties                                                              *)
(***************************************************************************)

\* Every variable holds what its declaration says; in particular an overage limit,
\* in the subscription or in a period's row, is never above the clamp.
TypeOK ==
    /\ subscription \in Subscription
    /\ opened \subseteq Period
    /\ limit \in [Bucket -> Nat]
    /\ \A p \in Period : limit[OverageBucket(p)] <= MaxOverage
    /\ reserved \in [Bucket -> Int]
    /\ used \in [Bucket -> Int]
    /\ rows \in [RunKey -> Row \cup {NoRow}]
    /\ call \in [Worker -> Call]

RowsOf(b, states) == {k \in RunKey : rows[k].state \in states /\ rows[k].bucket = b}
CallsAt(b, pcs)   == {w \in Worker : call[w].pc \in pcs /\ call[w].bucket = b}

\* Calls that hold a unit no reserved row stands for.
BookingPc == {"insert", "undo"}
ConsumePc == {"move", "unflipConsume"}
ReleasePc == {"drop", "unflipRelease"}

Ceiling(b) == IF b.overage THEN MaxOverage ELSE limit[b]

\* The runs reserved or consumed in a bucket never outnumber the plan allowance
\* its period was opened with (the clamp, for overage), whatever calls race,
\* retry, fail or stop half way. reserveCredits, consume and release.
NoOverspend ==
    \A b \in Bucket : Cardinality(RowsOf(b, {"reserved", "consumed"})) <= Ceiling(b)

\* Every reserved row, and every call between its two writes, is backed by a unit
\* of the reserved counter: no two calls ever give the same unit back, so the
\* counter never goes below what is outstanding (nor below zero).
ReservedBacksRows ==
    \A b \in Bucket :
        reserved[b] >= Cardinality(RowsOf(b, {"reserved"}))
                       + Cardinality(CallsAt(b, BookingPc \cup ConsumePc \cup ReleasePc))

\* A run is charged at most once: the used counter never exceeds the rows whose
\* consumption has gone through both writes of consumeReservationForJob.
ChargedOnce ==
    \A b \in Bucket :
        used[b] + Cardinality(CallsAt(b, ConsumePc))
            <= Cardinality(RowsOf(b, {"consumed"}))

\* With no call under way the counters are exactly what the rows say, for every
\* bucket: the compensations undo what a failed statement left half done, whatever
\* other calls did in between. (For calls that are never interrupted.)
Quiet == \A w \in Worker : At(w, "idle")
SettledExactly ==
    Quiet => \A b \in Bucket :
                /\ reserved[b] = Cardinality(RowsOf(b, {"reserved"}))
                /\ used[b] = Cardinality(RowsOf(b, {"consumed"}))

-----------------------------------------------------------------------------
(***************************************************************************)
(* The inductive invariant behind NoOverspend, ReservedBacksRows and        *)
(* ChargedOnce: what one bucket's counters are worth, and whose the rows    *)
(* are that calls between two writes have flipped.                         *)
(***************************************************************************)
SettlePc == {"flipConsume", "flipRelease"} \cup ConsumePc \cup ReleasePc

\* The units a bucket's two counters account for.
Accounted(b) == used[b] + reserved[b]

Books(b) ==
    /\ reserved[b] >= Cardinality(RowsOf(b, {"reserved"}))
                      + Cardinality(CallsAt(b, BookingPc \cup ConsumePc \cup ReleasePc))
    /\ used[b] + Cardinality(CallsAt(b, ConsumePc)) <= Cardinality(RowsOf(b, {"consumed"}))
    /\ Accounted(b) >= Cardinality(RowsOf(b, {"reserved", "consumed"}))
                       + Cardinality(CallsAt(b, BookingPc \cup ReleasePc))
    /\ Accounted(b) <= Ceiling(b)

Owns(w) ==
    call[w].pc \in SettlePc =>
        /\ rows[call[w].run].state # "none"
        /\ rows[call[w].run].bucket = call[w].bucket
        /\ call[w].pc \in ConsumePc => rows[call[w].run].state = "consumed"
        /\ call[w].pc \in ReleasePc => rows[call[w].run].state = "released"

Alone(v, w) ==
    /\ call[v].pc \in ConsumePc \cup ReleasePc
    /\ call[w].pc \in ConsumePc \cup ReleasePc
    /\ call[v].run = call[w].run
    => v = w

IInv ==
    /\ TypeOK
    /\ \A p \in Period \ opened : limit[PlanBucket(p)] = 0
    /\ \A b \in Bucket : Books(b)
    /\ \A w \in Worker : Owns(w)
    /\ \A v, w \in Worker : Alone(v, w)

-----------------------------------------------------------------------------
(***************************************************************************)
(* The ledger implements the account: a row that is flipped but whose       *)
(* counters have not moved yet is still held.                              *)
(***************************************************************************)
InHand(k, pcs) == \E w \in Worker : call[w].pc \in pcs /\ call[w].run = k

FateState(k) ==
    CASE rows[k].state = "reserved" -> "held"
      [] rows[k].state = "consumed" -> IF InHand(k, ConsumePc) THEN "held" ELSE "charged"
      [] rows[k].state = "released" -> IF InHand(k, ReleasePc) THEN "held" ELSE "returned"

Unheld == [state |-> "unheld"]

FateOf == [k \in RunKey |-> IF rows[k] = NoRow
                            THEN Unheld
                            ELSE [state |-> FateState(k), bucket |-> rows[k].bucket]]

Account == INSTANCE CreditAccount WITH
              allowance <- [p \in Period |-> limit[PlanBucket(p)]],
              fate <- FateOf

\* Seen from outside, every call is one step of the account: once a run key is
\* charged or returned nothing changes that, and it never holds beyond the ceiling.
ImplementsAccount == Account!Spec
=============================================================================
