-------------------------------- MODULE Fleet --------------------------------
(***************************************************************************)
(* The jobs of one account in one browser tab of the dashboard: the list of  *)
(* DashboardContext and its polling, the commands of the jobs tab and of the *)
(* palette, and the onboarding flow, over the edge's GET /optimize/jobs. The *)
(* list is a copy read some time ago. Timers, commands and navigation read   *)
(* it again, and the answers of overlapping reads are applied in whatever    *)
(* order they come. The plan that the same refresh reads is Purchase; what   *)
(* the edge does with a dispatch, Dispatch and JobPipeline.                  *)
(***************************************************************************)
EXTENDS Naturals, Sequences, SequencesExt

CONSTANTS
    Job,            \* the account's jobs, 1..N in the order they are made
    Read,           \* the slots, 1..N, of the calls in flight at once
    None,
    PageSize,       \* jobs of one page (50 in the code)
    MaxChanges,     \* bound on jobs made or run again
    MaxLost,        \* bound on failed requests and lost answers
    MaxClicks       \* bound on commands, "load older" and the flow's buttons

Path == {"overview", "jobs", "onboarding"}
Failed == [failed |-> TRUE]

VARIABLES
    job,        \* job[j]: the row in D1, [at, status], or None
    list,       \* the jobs shown, newest first
    cursor,     \* nextCursor of the last page shown, or 0
    path,       \* where the tab is
    loading,    \* isLoading: the first refresh has not ended
    step,       \* the step of the onboarding flow, or 0: not on screen
    launched,   \* jobDispatched of the flow
    call,       \* call[r]: what a request is about to do, and what it has read
    changes, lost, clicks

screen == <<path, loading, step, launched>>
bounds == <<changes, lost, clicks>>
fleet  == <<job, list, cursor, screen, call, bounds>>

Quiet == [pc |-> "idle", arg |-> None, jobs |-> None]
Free(r) == call[r].pc = "idle" /\ \A q \in Read : q < r => call[q].pc # "idle"
Begin(r, what, arg) == call' = [call EXCEPT ![r] = [Quiet EXCEPT !.pc = what, !.arg = arg]]
End(r) == call' = [call EXCEPT ![r] = Quiet]
Lose == lost < MaxLost /\ lost' = lost + 1
Click == clicks < MaxClicks /\ clicks' = clicks + 1
Change == changes < MaxChanges /\ changes' = changes + 1

-----------------------------------------------------------------------------
(***************************************************************************)
(* The edge                                                                *)
(***************************************************************************)
Made == {j \in Job : job[j] # None}

\* GET /optimize/jobs: the newest jobs created before a second, and where to go on.
\* Rows of one second come in the order of their ids.
PageFrom(before) ==
    LET newer(i, j) == job[i].at > job[j].at \/ (job[i].at = job[j].at /\ i > j)
        found == SetToSortSeq({j \in Made : before = 0 \/ job[j].at < before}, newer)
        more  == Len(found) > PageSize
        rows  == [n \in 1..(IF more THEN PageSize ELSE Len(found)) |->
                    [id |-> found[n], status |-> job[found[n]].status]]
    IN  [rows |-> rows, next |-> IF more THEN job[found[PageSize]].at ELSE 0]

Latest == IF Made = {} THEN 1
          ELSE CHOOSE t \in {job[j].at : j \in Made} : \A j \in Made : job[j].at <= t

\* A dispatch makes a queued job, in the second of the newest one or in a later one.
Create ==
    /\ Change
    /\ \E j \in Job \ Made, t \in {Latest, Latest + 1} :
          /\ \A i \in Job \ Made : j <= i
          /\ job' = [job EXCEPT ![j] = [at |-> t, status |-> "active"]]

\* POST /optimize/jobs/:id/rerun: a job that is not active becomes the newest.
Renew(j) ==
    /\ job[j].status # "active" /\ Change
    /\ job' = [job EXCEPT ![j] = [at |-> Latest + 1, status |-> "active"]]

\* The queue consumer settles a job.
Settle(j) ==
    /\ job[j] # None /\ job[j].status = "active"
    /\ \E s \in {"completed", "failed", "needs_attention"} :
          job' = [job EXCEPT ![j].status = s]
    /\ UNCHANGED <<list, cursor, screen, call, bounds>>

-----------------------------------------------------------------------------
(***************************************************************************)
(* refreshFleetData, and who calls it                                      *)
(***************************************************************************)
Shows(status) == \E n \in DOMAIN list : list[n].status = status

\* The page at p: the onboarding flow of an account with a plan begins at its second
\* step when it appears, and forgets everything when it disappears.
Show(p, load) ==
    LET flow == p = "onboarding" /\ ~load
    IN  /\ path' = p /\ loading' = load
        /\ step' = IF ~flow THEN 0 ELSE IF step = 0 THEN 2 ELSE step
        /\ launched' = (launched /\ flow)

Navigate(p) ==
    /\ p # path
    /\ Show(p, loading)
    /\ UNCHANGED <<job, list, cursor, call, bounds>>

\* Mutant of Polled: the jobs page has no timer of its own.
PolledIfActive == Shows("active")

Polled == Shows("active") \/ path = "jobs"

Poll(r) ==
    /\ Polled /\ Free(r)
    /\ Begin(r, "refresh", None)
    /\ UNCHANGED <<job, list, cursor, screen, bounds>>

ReadJobs(r) ==
    /\ call[r].pc = "refresh" /\ call[r].jobs = None
    /\ \/ call' = [call EXCEPT ![r].jobs = PageFrom(0)] /\ UNCHANGED lost
       \/ Lose /\ call' = [call EXCEPT ![r].jobs = Failed]
    /\ UNCHANGED <<job, list, cursor, screen, changes, clicks>>

\* A page that could not be read leaves the list as it is.
Apply(r) ==
    /\ call[r].pc = "refresh" /\ call[r].jobs # None
    /\ IF call[r].jobs = Failed THEN UNCHANGED <<list, cursor>>
       ELSE list' = call[r].jobs.rows /\ cursor' = call[r].jobs.next
    /\ Show(path, FALSE)
    /\ End(r)
    /\ UNCHANGED <<job, bounds>>

\* loadMoreJobs: the button is not disabled while it loads.
LoadOlder(r) ==
    /\ path = "jobs" /\ ~loading /\ cursor # 0 /\ Free(r) /\ Click
    /\ Begin(r, "older", cursor)
    /\ UNCHANGED <<job, list, cursor, screen, changes, lost>>

ReadOlder(r) ==
    /\ call[r].pc = "older" /\ call[r].jobs = None
    /\ \/ call' = [call EXCEPT ![r].jobs = PageFrom(call[r].arg)] /\ UNCHANGED lost
       \/ Lose /\ End(r)
    /\ UNCHANGED <<job, list, cursor, screen, changes, clicks>>

ShowOlder(r) ==
    /\ call[r].pc = "older" /\ call[r].jobs # None
    /\ list' = list \o call[r].jobs.rows /\ cursor' = call[r].jobs.next
    /\ End(r)
    /\ UNCHANGED <<job, screen, bounds>>

-----------------------------------------------------------------------------
(***************************************************************************)
(* Commands: the request, and a refresh if it is known to have succeeded   *)
(***************************************************************************)
\* handleRunOptimization and handleDispatchNewJob, from a tab or the palette.
RunOptimization(r) ==
    /\ step # 3 /\ Free(r) /\ Click
    /\ Begin(r, "dispatch", None)
    /\ UNCHANGED <<job, list, cursor, screen, changes, lost>>

\* handleRerunJob, from a row of the jobs tab; handleRetryAll does so for several.
Rerun(r) ==
    /\ path = "jobs" /\ ~loading /\ Free(r) /\ Click
    /\ \E n \in DOMAIN list : Begin(r, "rerun", list[n].id)
    /\ UNCHANGED <<job, list, cursor, screen, changes, lost>>

Do(r) ==
    \/ call[r].pc = "dispatch" /\ Create
    \/ call[r].pc = "rerun" /\ Renew(call[r].arg)

\* Done and the answer heard, done and the answer lost, or refused: a failure is a toast
\* and nothing else.
Serve(r) ==
    /\ call[r].pc \in {"dispatch", "rerun"}
    /\ \/ Do(r) /\ Begin(r, "refresh", None) /\ UNCHANGED lost
       \/ Do(r) /\ Lose /\ End(r)
       \/ End(r) /\ UNCHANGED <<job, changes, lost>>
    /\ UNCHANGED <<list, cursor, screen, clicks>>

-----------------------------------------------------------------------------
(***************************************************************************)
(* OnboardingFlow                                                          *)
(***************************************************************************)
\* The buttons between its steps, the third of which needs a site.
Turn ==
    /\ Click
    /\ \/ step \in {1, 2, 3} /\ step' = step + 1
       \/ step \in {2, 3} /\ step' = step - 1
    /\ UNCHANGED <<job, list, cursor, path, loading, launched, call, changes, lost>>

\* handleLaunchOptimization: once, and again when the newest job shown has failed.
Launch(r) ==
    /\ step = 3 /\ Free(r) /\ Click
    /\ launched => list # <<>> /\ list[1].status = "failed"
    /\ launched' = TRUE
    /\ Begin(r, "dispatch", None)
    /\ UNCHANGED <<job, list, cursor, path, loading, step, changes, lost>>

\* The effect that ends the flow: the newest job shown is completed.
Advance ==
    /\ step = 3 /\ list # <<>> /\ list[1].status = "completed"
    /\ step' = 4 /\ launched' = FALSE
    /\ UNCHANGED <<job, list, cursor, path, loading, call, bounds>>

-----------------------------------------------------------------------------
Init ==
    /\ \E old \in BOOLEAN : job = [j \in Job |-> IF old /\ j = 1 THEN [at |-> 1, status |-> "completed"]
                                                  ELSE None]
    /\ list = <<>> /\ cursor = 0
    /\ path \in Path /\ loading = TRUE /\ step = 0 /\ launched = FALSE
    /\ call = [r \in Read |-> IF r = 1 THEN [Quiet EXCEPT !.pc = "refresh"] ELSE Quiet]
    /\ changes = 0 /\ lost = 0 /\ clicks = 0

Reading(r) == ReadJobs(r) \/ Apply(r) \/ ReadOlder(r) \/ ShowOlder(r)

Next ==
    \/ \E j \in Job : Settle(j)
    \/ \E p \in Path : Navigate(p)
    \/ \E r \in Read : Poll(r) \/ Reading(r) \/ LoadOlder(r)
    \/ \E r \in Read : RunOptimization(r) \/ Rerun(r) \/ Serve(r) \/ Launch(r)
    \/ Turn \/ Advance

\* The timer fires, and requests that were sent are answered or fail.
Fairness ==
    /\ WF_fleet(\E r \in Read : Poll(r))
    /\ \A r \in Read : WF_fleet(Reading(r)) /\ WF_fleet(Serve(r))

Spec == Init /\ [][Next]_fleet /\ Fairness

-----------------------------------------------------------------------------
\* A list that shows a running job, or is looked at on the jobs page, is again and again
\* the edge's newest page, whatever late answers, failed reads and older pages were put
\* into it meanwhile.
ListCatchesUp == []<>(Shows("active") \/ path = "jobs" => list = PageFrom(0).rows)
================================================================================
