---------------------------- MODULE CreditAccount ----------------------------
(***************************************************************************)
(* What the credit ledger of services/entitlements.ts promises its         *)
(* callers, with each operation as one step.                               *)
(*                                                                         *)
(* A run key names one paid run (1 credit = 1 URL + 1 viewport). Its fate   *)
(* starts unheld, may be held against one bucket of one billing period,     *)
(* and ends charged or returned; a fate that has ended never changes. The   *)
(* keys held or charged in a bucket never outnumber its ceiling: the plan   *)
(* allowance the period was opened with, or the overage an owner may opt    *)
(* in to at most.                                                          *)
(*                                                                         *)
(* CreditLedger is shown to implement this module.                          *)
(***************************************************************************)
EXTENDS Naturals, FiniteSets

CONSTANTS
    RunKey,       \* the run keys callers reserve under
    Period,       \* the billing periods of one subscription
    PlanCredits,  \* the allowances a plan may grant
    MaxOverage    \* the most overage credits an owner can opt in to

VARIABLES
    opened,       \* the periods whose usage row exists
    allowance,    \* allowance[p]: the plan credits period p was opened with
    fate          \* fate[k]: what has become of run key k

vars == <<opened, allowance, fate>>

\* A period's credits come in two buckets: the plan's, and the overage.
Bucket == [period: Period, overage: BOOLEAN]

Unheld == [state |-> "unheld"]

Fate == {Unheld} \cup [state: {"held", "charged", "returned"}, bucket: Bucket]

Ceiling(b) == IF b.overage THEN MaxOverage ELSE allowance[b.period]

\* The keys that take up room in bucket b.
Bound(b) ==
    {k \in RunKey : /\ fate[k].state \in {"held", "charged"}
                    /\ fate[k].bucket = b}

-----------------------------------------------------------------------------
Init ==
    /\ opened = {}
    /\ allowance = [p \in Period |-> 0]
    /\ fate = [k \in RunKey |-> Unheld]

\* The first use of a period fixes its allowance.
Open(p, n) ==
    /\ p \notin opened
    /\ opened' = opened \cup {p}
    /\ allowance' = [allowance EXCEPT ![p] = n]
    /\ UNCHANGED fate

Hold(k, b) ==
    /\ fate[k] = Unheld
    /\ Cardinality(Bound(b)) < Ceiling(b)
    /\ fate' = [fate EXCEPT ![k] = [state |-> "held", bucket |-> b]]
    /\ UNCHANGED <<opened, allowance>>

Settle(k, ending) ==
    /\ fate[k].state = "held"
    /\ fate' = [fate EXCEPT ![k].state = ending]
    /\ UNCHANGED <<opened, allowance>>

Charge(k) == Settle(k, "charged")
Return(k) == Settle(k, "returned")

Next ==
    \/ \E p \in Period, n \in PlanCredits : Open(p, n)
    \/ \E k \in RunKey : \/ \E b \in Bucket : Hold(k, b)
                         \/ Charge(k)
                         \/ Return(k)

Spec == Init /\ [][Next]_vars
=============================================================================
