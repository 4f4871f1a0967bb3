------------------------------- MODULE Purchase -------------------------------
(***************************************************************************)
(* What a browser tab of the dashboard knows of the account's plan: the      *)
(* billing part of refreshFleetData, the verification of a purchase after    *)
(* the checkout (both in DashboardContext), and the layout's gate. The jobs  *)
(* that the same refresh reads are Fleet.                                    *)
(***************************************************************************)
EXTENDS Naturals

CONSTANTS
    Refresh,        \* refreshes in flight at once
    Check,          \* checks of the verification in flight at once
    None,
    MaxAttempts,    \* checks before the verification gives up (20 in the code)
    MaxOutages      \* bound on the billing reads that fail

VARIABLES
    subscribed,     \* what GET /billing/status would say now
    plan,           \* billingData: "active", "inactive", or None before the first answer
    spot,           \* the page: "gate" (the onboarding flow), "open" to all, or "closed"
    verifying,      \* isVerifyingPurchase
    attempts,
    answer,         \* answer[c]: None, "sent", or what a read has found
    outages

glance == <<subscribed, plan, spot, verifying, attempts, answer, outages>>

Put(c, what) == answer' = [answer EXCEPT ![c] = what]

\* The provider's webhook, after a checkout.
Activate ==
    /\ ~subscribed /\ verifying
    /\ subscribed' = TRUE
    /\ UNCHANGED <<plan, spot, verifying, attempts, answer, outages>>

\* A link. (The overlay of the verification has none.)
Visit(p) ==
    /\ p # spot /\ ~verifying /\ spot' = p
    /\ UNCHANGED <<subscribed, plan, verifying, attempts, answer, outages>>

\* The layout's effect, which does not ask whether a purchase is being verified.
Gate ==
    /\ plan = "inactive" /\ spot = "closed"
    /\ spot' = "gate"
    /\ UNCHANGED <<subscribed, plan, verifying, attempts, answer, outages>>

\* A refresh: a timer, or a command, whatever it was for.
Send(r) ==
    /\ answer[r] = None
    /\ Put(r, "sent")
    /\ UNCHANGED <<subscribed, plan, spot, verifying, attempts, outages>>

ReadStatus(c) ==
    /\ answer[c] = "sent"
    /\ \/ Put(c, IF subscribed THEN "active" ELSE "inactive") /\ UNCHANGED outages
       \/ outages < MaxOutages /\ outages' = outages + 1 /\ Put(c, "failed")
    /\ UNCHANGED <<subscribed, plan, spot, verifying, attempts>>

\* Fail closed: a plan that could not be read is no plan.
Apply(r) ==
    /\ answer[r] \notin {None, "sent"}
    /\ plan' = IF answer[r] = "active" THEN "active" ELSE "inactive"
    /\ Put(r, None)
    /\ UNCHANGED <<subscribed, spot, verifying, attempts, outages>>

\* The interval of the verification, whose checks may overtake each other. (The count
\* stops where it no longer matters.)
Tick(v) ==
    /\ verifying /\ answer[v] = None
    /\ attempts' = IF attempts < MaxAttempts THEN attempts + 1 ELSE attempts
    /\ Put(v, "sent")
    /\ UNCHANGED <<subscribed, plan, spot, verifying, outages>>

\* Mutant of GivesUp: the attempts are looked at in the catch block.
GivesUpOnFailure(v) == answer[v] = "failed" /\ attempts >= MaxAttempts

GivesUp(v) == attempts >= MaxAttempts

Hear(v) ==
    /\ answer[v] \notin {None, "sent"}
    /\ IF answer[v] = "active" THEN verifying' = FALSE /\ plan' = "active"
       ELSE verifying' = (verifying /\ ~GivesUp(v)) /\ UNCHANGED plan
    /\ Put(v, None)
    /\ UNCHANGED <<subscribed, spot, attempts, outages>>

\* The tab opens, perhaps on the way back from a checkout; its first refresh is sent.
Init ==
    /\ subscribed \in BOOLEAN /\ verifying \in BOOLEAN
    /\ spot \in {"gate", "open", "closed"}
    /\ plan = None /\ attempts = 0 /\ outages = 0
    /\ \E r \in Refresh : answer = [c \in Refresh \cup Check |-> IF c = r THEN "sent" ELSE None]

Next ==
    \/ Activate \/ Gate
    \/ \E p \in {"gate", "open", "closed"} : Visit(p)
    \/ \E r \in Refresh : Send(r) \/ Apply(r)
    \/ \E v \in Check : Tick(v) \/ Hear(v)
    \/ \E c \in Refresh \cup Check : ReadStatus(c)

\* The interval fires, and a request that was sent is answered or fails.
Fairness ==
    /\ WF_glance(\E v \in Check : Tick(v))
    /\ \A v \in Check : WF_glance(ReadStatus(v) \/ Hear(v))

Spec == Init /\ [][Next]_glance /\ Fairness

-----------------------------------------------------------------------------
\* The screen that waits for a purchase goes away by itself, also when the webhook never
\* comes and when the checks overtake each other.
VerificationEnds == verifying ~> ~verifying
================================================================================
