------------------------------ MODULE SiteHealth ------------------------------
(***************************************************************************)
(* Does a site serve optimized pages, and does its owner know? The plugin     *)
(* looks at its own home page (class-health-check.php), every day and when an *)
(* administrator comes by, reports what it found to the edge (POST             *)
(* /auth/heartbeat), and purges the host's cache when that serves something    *)
(* else (self_heal_purge). The list of sites (GET /sites) derives a status    *)
(* from the last report and the last job.                                    *)
(*                                                                         *)
(* Of the twelve checks of a report only the one of the served page is kept,  *)
(* and of its deployment command nothing (see ConfigSync). Ages are in days,   *)
(* cut off where they no longer matter; what expires sooner does at any time.  *)
(***************************************************************************)
EXTENDS Naturals

CONSTANTS
    None,
    MaxPins,        \* bound on the times that the host pins a page
    MaxFaults       \* bound on the reports that do not arrive

VARIABLES
    served,     \* the fingerprint of the served home page: ok, stale or missing
    curable,    \* whether a purge reaches the cache that pins it
    loopback,   \* wp_instant_health_loopback: what the last look saw; None
    health,     \* wp_instant_health, the plugin's report: what it says and its age; None
    throttled,  \* transients: "push" and "heal", of what was done a short while ago
    report,     \* sites.health_json
    job,        \* the site's latest job: queued (or processing), completed, or failed
                \* (or in need of attention)
    score,      \* of the last audit: None, low or good
    mode,       \* live, test, or inactive without a subscription
    visit,      \* an administrator's request, at its second step
    pins, faults

checkup == <<served, curable, loopback, health, throttled, report, job, score, mode,
             visit, pins, faults>>

Old == 4
Older(r, bound) == IF r = None \/ r.age = bound THEN r ELSE [r EXCEPT !.age = @ + 1]

-----------------------------------------------------------------------------
\* The host's cache keeps a page from before, or the plugin is updated under it.
Pin ==
    /\ pins < MaxPins /\ pins' = pins + 1
    /\ served' \in {"stale", "missing"}
    /\ UNCHANGED <<curable, loopback, health, throttled, report, job, score, mode, visit, faults>>

\* Jobs come and go whatever visitors see.
Job ==
    /\ job' \in IF job = "queued" THEN {"completed", "failed"} ELSE {"queued"}
    /\ UNCHANGED <<served, curable, loopback, health, throttled, report, score, mode, visit, pins, faults>>

\* The owner tests or deploys, the subscription ends or comes back.
Toggle ==
    /\ mode' \in {"live", "test", "inactive"} \ {mode}
    /\ UNCHANGED <<served, curable, loopback, health, throttled, report, job, score, visit,
                   pins, faults>>

Day ==
    /\ health' = Older(health, 1) /\ report' = Older(report, Old)
    /\ UNCHANGED <<served, curable, loopback, throttled, job, score, mode, visit, pins, faults>>

ForgetLoopback ==
    /\ loopback # None /\ loopback' = None
    /\ UNCHANGED <<served, curable, health, throttled, report, job, score, mode, visit, pins, faults>>

Forget(t) ==
    /\ t \in throttled /\ throttled' = throttled \ {t}
    /\ UNCHANGED <<served, curable, loopback, health, report, job, score, mode, visit, pins, faults>>

-----------------------------------------------------------------------------
\* run(): a look at the page, or the last one if that was just now.
Look == IF loopback = None THEN served ELSE loopback

Run ==
    /\ loopback' = Look
    /\ health' = [says |-> Look, age |-> 0]

\* push_to_edge(), from a connected plugin: the stored report arrives, or does not.
Push(r) ==
    \/ report' = r /\ UNCHANGED faults
    \/ faults < MaxFaults /\ faults' = faults + 1 /\ UNCHANGED report

\* self_heal_purge(): a plugin in test mode leaves the caches alone.
Heal(r) ==
    IF mode # "test" /\ r.says # "ok" /\ "heal" \notin throttled
    THEN /\ throttled' = throttled \cup {"heal"}
         /\ served' = IF curable THEN "ok" ELSE served
    ELSE UNCHANGED <<throttled, served>>

\* The daily cron.
Heartbeat ==
    /\ Run /\ Push(health') /\ Heal(health')
    /\ UNCHANGED <<curable, job, score, mode, visit, pins>>

\* An administrator's page: maybe_run() if the last report is not of the last minutes,
\* then maybe_push().
MaybeRun ==
    /\ ~visit /\ visit' = TRUE
    /\ \/ Run
       \/ health # None /\ health.age = 0 /\ UNCHANGED <<loopback, health>>
    /\ UNCHANGED <<served, curable, throttled, report, job, score, mode, pins, faults>>

MaybePush ==
    /\ visit /\ visit' = FALSE
    /\ IF "push" \in throttled \/ health = None
       THEN UNCHANGED <<throttled, report, faults>>
       ELSE throttled' = throttled \cup {"push"} /\ Push(health)
    /\ UNCHANGED <<served, curable, loopback, health, job, score, mode, pins>>

\* POST /sites/:id/purge: the dashboard's command has the plugin purge all caches, its own
\* and the host's, if it arrives.
Purge ==
    /\ served' = IF curable THEN "ok" ELSE served
    /\ UNCHANGED <<curable, loopback, health, throttled, report, job, score, mode, visit, pins, faults>>

-----------------------------------------------------------------------------
\* Mutant of Status: what jobs have completed counts first.
StatusByJobs ==
    IF mode = "inactive" THEN "disconnected"
    ELSE IF job = "queued" THEN "optimizing"
    ELSE IF job = "completed" THEN "optimized" ELSE "attention"

\* GET /sites: the first that applies.
Status ==
    LET fingerprint == IF report = None THEN None ELSE report.says IN
    IF mode = "inactive" THEN "disconnected"
    ELSE IF job = "queued" THEN "optimizing"
    ELSE IF job = "failed" \/ score = "low" THEN "attention"
    ELSE IF mode = "test" THEN "attention"
    ELSE IF report # None /\ report.age <= 3 /\ fingerprint # "ok" THEN "attention"
    ELSE IF job = "completed" \/ (score = "good" /\ fingerprint = "ok") THEN "optimized"
    ELSE "connected"

Init ==
    /\ served = "ok" /\ curable \in BOOLEAN
    /\ loopback = None /\ health = None /\ throttled = {} /\ report = None
    /\ job = "completed" /\ score \in {None, "low", "good"}
    /\ mode \in {"live", "test"} /\ visit = FALSE
    /\ pins = 0 /\ faults = 0

Next ==
    \/ Pin \/ Job \/ Toggle \/ Day \/ ForgetLoopback
    \/ \E t \in {"push", "heal"} : Forget(t)
    \/ Heartbeat \/ MaybeRun \/ MaybePush \/ Purge

\* Cron runs the heartbeat, transients expire.
Fairness ==
    /\ WF_checkup(Heartbeat) /\ WF_checkup(ForgetLoopback)
    /\ \A t \in {"push", "heal"} : WF_checkup(Forget(t))

Spec == Init /\ [][Next]_checkup /\ Fairness

-----------------------------------------------------------------------------
\* "A site whose served HTML carries no current fingerprint must NOT read optimized just
\* because extraction jobs completed": it is healed or reported, again and again, unless
\* its reports stop to arrive. (After three days without one it does read so.)
UnservedIsNoticed == []<>(served = "ok" \/ Status # "optimized")
================================================================================
