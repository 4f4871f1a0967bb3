--------------------------- MODULE MCCreditLedger ----------------------------
(* An instance of CreditLedger for TLC: two runs of one job, an allowance smaller *)
(* than the number of run keys, and every mix of calls on them.                *)
EXTENDS CreditLedger, TLC

CONSTANTS k1, k2, j1

RunKeys == {k1, k2}
JobOfRun == [k \in RunKeys |-> j1]
Symmetry == Permutations(Worker)

\* History: whether some call was stopped half way.
VARIABLE interrupted

Uninterrupted == INSTANCE CreditLedger WITH Interruptible <- FALSE

MCInit == Init /\ interrupted = FALSE
MCNext ==
    \/ Uninterrupted!Next /\ UNCHANGED interrupted
    \/ \E w \in Worker : Interrupt(w) /\ interrupted' = TRUE
MCSpec == MCInit /\ [][MCNext]_<<vars, interrupted>>

\* As long as no call was stopped half way, the counters of every bucket are exactly
\* what its rows say whenever no call is under way.
ExactUnlessInterrupted == ~interrupted => SettledExactly
=============================================================================
