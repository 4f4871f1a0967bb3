------------------------------ MODULE CriticalCss ------------------------------
(***************************************************************************)
(* The critical CSS of one page in the plugin: what a render does with it    *)
(* (transformer/class-critical-css.php), the cron chain that orders it from  *)
(* the edge and polls for it (run_async_optimize in class-plugin.php), and   *)
(* the push that delivers it (class-optimize-callback.php). The edge is here  *)
(* only what the plugin sees of it: JobPipeline and Dispatch are its models.  *)
(*                                                                         *)
(* A version is what page_fingerprint tells apart. Timers are ages or rests   *)
(* counted in ticks, cut off where the code stops telling them apart. The    *)
(* URL is canonical, in scope and not internal: the other cases return early. *)
(* Renders run side by side; WP-Cron runs one event of the page at a time.    *)
(***************************************************************************)
EXTENDS Naturals, FiniteSets

CONSTANTS
    Render,         \* renders in progress at once
    None,
    Grace,          \* age of a dispatch from which the local fallback serves (10 min)
    Throttle,       \* wpins_dispatch_<url> (10 min)
    JobsTTL,        \* wpins_jobs_<url> (30 min)
    Heal,           \* age of a dispatch from which it may be repeated (6 h)
    MaxAttempts,    \* polls of a chain (30)
    MaxEdits, MaxFaults

ASSUME TimerAssumption ==
    /\ {Grace, Throttle, JobsTTL, Heal, MaxAttempts} \subseteq Nat \ {0}
    /\ JobsTTL > 1          \* and polls are a minute apart
    /\ {MaxEdits, MaxFaults} \subseteq Nat
    /\ Grace <= Heal
ASSUME NoneAssumption == None \notin Nat

Viewport == {"mobile", "desktop"}
Version == 1..(MaxEdits + 1)
Batch == {1, 2}         \* the jobs of the last two dispatches

VARIABLES
    sheets,     \* its stylesheets: inlined whole ("inline"), readable by the local fallback
                \* ("local"), or neither ("remote")
    version,    \* the page's content
    fingerprint,\* wp_instant_css_fingerprints: the version last dispatched, or None
    age,        \* age of wp_instant_css_dispatched, or None
    throttle,   \* ticks left of the throttle transient
    chain,      \* wpins_jobs: the batch, the viewports still polled, ticks left; or None
    event,      \* the scheduled events of the page: "first", or a poll with its attempt
    css,        \* css[v]: the version whose critical CSS is on disk, or None
    proc,       \* renders: the statement each is about to execute
    cron,       \* the event WP-Cron is running
    jobs,       \* jobs[b][v]: the status of the edge's job, as it is told
    object,     \* object[v]: the version whose CSS is under the URL's key in R2, or None
    edits, faults,
    paid        \* history: the version the edge was told to extract, if it is the one marked, no
                \* job failed and no other event or render was under way; the ticks since the mark

disk == <<css, fingerprint, age, throttle, chain>>
page == <<sheets, version>>
edge == <<jobs, object>>
vars == <<page, disk, event, proc, cron, edge, edits, faults, paid>>

Idle == [pc |-> "idle"]
CronAt(pc) == cron.pc = pc
Fault == faults < MaxFaults /\ faults' = faults + 1

Fresh == \A v \in Viewport : css[v] # None
\* wp_schedule_single_event: an event with the same arguments is not scheduled again.
Scheduled(kind, attempt, due) ==
    IF \E e \in event : e.kind = kind /\ e.attempt = attempt THEN event
    ELSE event \cup {[kind |-> kind, attempt |-> attempt, due |-> due]}

-----------------------------------------------------------------------------
(***************************************************************************)
(* A render of the page                                                    *)
(***************************************************************************)
\* maybe_local_fallback.
FallbackServes == sheets = "local" /\ age # None /\ age >= Grace

\* The render has something to serve and orders nothing.
Satisfied(v) == sheets # "inline" /\ (css[v] # None \/ FallbackServes)

\* Mutant of AlreadyDone: a version that was dispatched is done.
AlreadyTold(seen) == age # None /\ fingerprint = seen

\* The version was dispatched, and delivered or given too little time.
AlreadyDone(seen) ==
    /\ age # None /\ fingerprint = seen
    /\ Fresh \/ age < Heal

\* Mutant of MayDispatch: the throttle is all that is looked at.
ThrottleOnly(seen) == chain = None /\ throttle = 0

\* maybe_dispatch_generation, up to its first write.
MayDispatch(seen) ==
    /\ chain = None
    /\ ~AlreadyDone(seen)
    /\ fingerprint = seen => throttle = 0

Begin(r, v) ==
    /\ proc[r].pc = "idle" /\ ~Satisfied(v)
    /\ MayDispatch(version)
    /\ proc' = [proc EXCEPT ![r] = [pc |-> "mark", version |-> version]]
    /\ UNCHANGED <<page, disk, event, cron, edge, edits, faults, paid>>

Mark(r) ==
    /\ proc[r].pc = "mark"
    /\ throttle' = Throttle /\ age' = 0 /\ fingerprint' = proc[r].version
    /\ event' = Scheduled("first", 0, 0)
    /\ proc' = [proc EXCEPT ![r] = Idle]
    /\ UNCHANGED <<page, css, chain, cron, edge, edits, faults, paid>>

\* The content changes: the purger drops the fingerprint and the CSS (invalidate_url).
Edit ==
    /\ edits < MaxEdits /\ edits' = edits + 1
    /\ version' = version + 1
    /\ fingerprint' = None
    /\ css' = [v \in Viewport |-> None]
    /\ UNCHANGED <<sheets, age, throttle, chain, event, proc, cron, edge, faults, paid>>

\* The files grow older than 30 days: whatever was paid for them is long ago.
Expire(v) ==
    /\ css[v] # None /\ Fault
    /\ css' = [css EXCEPT ![v] = None]
    /\ paid' = [paid EXCEPT !.version = None]
    /\ UNCHANGED <<page, fingerprint, age, throttle, chain, event, proc, cron, edge, edits>>

-----------------------------------------------------------------------------
(***************************************************************************)
(* run_async_optimize                                                      *)
(***************************************************************************)
Run(e) ==
    /\ CronAt("idle") /\ e \in event /\ e.due = 0
    /\ event' = event \ {e}
    /\ cron' = IF chain = None
               THEN IF Fresh THEN Idle ELSE [pc |-> "dispatch"]
               ELSE [pc |-> "poll", batch |-> chain.batch, attempt |-> e.attempt,
                     left |-> chain.left, todo |-> chain.left]
    /\ UNCHANGED <<page, disk, proc, edge, edits, faults, paid>>

Unused(b) == \A v \in Viewport : jobs[b][v] # "queued"

\* POST /dispatch: two jobs and their credits. The answer may be lost.
Dispatch(b) ==
    /\ CronAt("dispatch") /\ Unused(b)
    /\ jobs' = [jobs EXCEPT ![b] = [v \in Viewport |-> "queued"]]
    /\ \/ cron' = [pc |-> "chain", batch |-> b, version |-> version] /\ UNCHANGED faults
       \/ Fault /\ cron' = Idle
    /\ UNCHANGED <<page, disk, event, proc, object, edits, paid>>

\* The edge refuses: no credit, too many jobs, out of reach.
Refused ==
    /\ CronAt("dispatch") /\ Fault
    /\ cron' = Idle
    /\ UNCHANGED <<page, disk, event, proc, edge, edits, paid>>

SetChain ==
    /\ CronAt("chain")
    /\ chain' = [batch |-> cron.batch, left |-> Viewport, ttl |-> JobsTTL]
    /\ event' = Scheduled("poll", 1, 1)
    /\ cron' = Idle
    /\ paid' = [version |-> IF /\ fingerprint = cron.version
                              /\ event = {} /\ \A r \in Render : proc[r].pc = "idle"
                              /\ \A v \in Viewport : jobs[cron.batch][v] \in {"queued", "done"}
                           THEN cron.version ELSE None,
                age |-> age]
    /\ UNCHANGED <<page, css, fingerprint, age, throttle, proc, edge, edits, faults>>

\* GET /status/:job_id. (It is told to the site's key alone: a refusal is no answer.)
Told(b, v) == jobs[b][v]

\* GET /css: the object of the latest completed job of the URL and viewport. They all
\* write the same key, so it is what was written last.
Downloaded(v) == object[v]

\* One get_job_status, and the download. No answer, or "needs_attention", is as good as
\* "queued"; a download that fails ends the polling of its job all the same.
Poll(v) ==
    /\ CronAt("poll") /\ v \in cron.todo
    /\ \/ /\ Told(cron.batch, v) = "done"
          /\ \/ css' = [css EXCEPT ![v] = Downloaded(v)] /\ UNCHANGED faults
             \/ Fault /\ UNCHANGED css
          /\ cron' = [cron EXCEPT !.todo = @ \ {v}, !.left = @ \ {v}]
       \/ /\ Told(cron.batch, v) = "failed"
          /\ cron' = [cron EXCEPT !.todo = @ \ {v}, !.left = @ \ {v}]
          /\ UNCHANGED <<css, faults>>
       \/ /\ \/ Told(cron.batch, v) \in {"queued", "needs_attention"} /\ UNCHANGED faults
             \/ Fault
          /\ cron' = [cron EXCEPT !.todo = @ \ {v}]
          /\ UNCHANGED css
    /\ UNCHANGED <<page, fingerprint, age, throttle, chain, event, proc, edge, edits, paid>>

\* Nothing left to poll, or the last attempt: the chain ends. (The page is purged.)
EndChain ==
    /\ CronAt("poll") /\ cron.todo = {}
    /\ cron.left = {} \/ cron.attempt >= MaxAttempts
    /\ chain' = None /\ cron' = Idle
    /\ UNCHANGED <<page, css, fingerprint, age, throttle, event, proc, edge, edits, faults, paid>>

PollAgain ==
    /\ CronAt("poll") /\ cron.todo = {} /\ cron.left # {} /\ cron.attempt < MaxAttempts
    /\ chain' = [batch |-> cron.batch, left |-> cron.left, ttl |-> JobsTTL]
    /\ event' = Scheduled("poll", cron.attempt + 1, 1)
    /\ cron' = Idle
    /\ UNCHANGED <<page, css, fingerprint, age, throttle, proc, edge, edits, faults, paid>>

\* PHP dies.
CronDies ==
    /\ ~CronAt("idle") /\ Fault
    /\ cron' = Idle
    /\ UNCHANGED <<page, disk, event, proc, edge, edits, paid>>

-----------------------------------------------------------------------------
(***************************************************************************)
(* The edge, as seen from here                                             *)
(***************************************************************************)
\* The push of a job's CSS as the plugin takes it: no different from a download.
Pushed(v) == css' = [css EXCEPT ![v] = version]

\* A job is done: its CSS is that of the version now, and is pushed, once, with no retry:
\* the push may get lost.
JobDone(b, v) ==
    /\ jobs[b][v] = "queued"
    /\ jobs' = [jobs EXCEPT ![b][v] = "done"]
    /\ object' = [object EXCEPT ![v] = version]
    /\ \/ Pushed(v) /\ UNCHANGED faults
       \/ Fault /\ UNCHANGED css
    /\ UNCHANGED <<page, fingerprint, age, throttle, chain, event, proc, cron, edits, paid>>

\* It fails for good, or the origin challenges the browser.
JobFails(b, v) ==
    /\ jobs[b][v] = "queued" /\ Fault
    /\ \E status \in {"failed", "needs_attention"} : jobs' = [jobs EXCEPT ![b][v] = status]
    /\ paid' = [paid EXCEPT !.version = None]
    /\ UNCHANGED <<page, disk, event, proc, cron, object, edits>>

-----------------------------------------------------------------------------
Older(a, cap) == IF a = None \/ a >= cap THEN a ELSE a + 1
Less(n) == IF n = 0 THEN 0 ELSE n - 1

\* Requests and runs of PHP are shorter than a tick; WP-Cron is less than one late.
Tick ==
    /\ CronAt("idle") /\ \A r \in Render : proc[r].pc = "idle"
    /\ \A e \in event : e.due > 0
    /\ age' = Older(age, Heal)
    /\ throttle' = Less(throttle)
    /\ chain' = IF chain = None \/ chain.ttl = 1 THEN None ELSE [chain EXCEPT !.ttl = @ - 1]
    /\ event' = {[e EXCEPT !.due = Less(@)] : e \in event}
    /\ paid' = [paid EXCEPT !.age = Older(@, Heal)]
    /\ UNCHANGED <<page, css, fingerprint, proc, cron, edge, edits, faults>>

Init ==
    /\ sheets \in {"inline", "local", "remote"} /\ version = 1
    /\ fingerprint = None /\ age = None /\ throttle = 0 /\ chain = None /\ event = {}
    /\ css = [v \in Viewport |-> None]
    /\ proc = [r \in Render |-> Idle] /\ cron = Idle
    /\ jobs = [b \in Batch |-> [v \in Viewport |-> "none"]]
    /\ object = [v \in Viewport |-> None]
    /\ edits = 0 /\ faults = 0
    /\ paid = [version |-> None, age |-> None]

Cron == \E e \in event : Run(e)
Working ==
    (\E b \in Batch : Dispatch(b)) \/ SetChain \/ (\E v \in Viewport : Poll(v)) \/ EndChain \/ PollAgain

Next ==
    \/ \E r \in Render, v \in Viewport : Begin(r, v)
    \/ \E r \in Render : Mark(r)
    \/ Edit \/ \E v \in Viewport : Expire(v)
    \/ Cron \/ Working \/ Refused \/ CronDies
    \/ \E b \in Batch, v \in Viewport : JobDone(b, v) \/ JobFails(b, v)
    \/ Tick

\* Visitors keep coming, on either kind of device; WP-Cron and the edge do their work.
Fairness ==
    /\ \A r \in Render : WF_vars(Mark(r))
    /\ \A v \in Viewport : SF_vars(\E r \in Render : Begin(r, v))
    /\ WF_vars(Cron) /\ WF_vars(Working) /\ WF_vars(Tick)
    /\ \A b \in Batch, v \in Viewport : WF_vars(JobDone(b, v))

Spec == Init /\ [][Next]_vars /\ Fairness

-----------------------------------------------------------------------------

\* Once the plugin has been told of a version's jobs, that version is not dispatched again
\* until Heal ticks after it was marked, unless a job fails or the files expire: a push that
\* overtakes the polls, an abandoned poll or a lost answer does not pay for it twice. (Two
\* renders, or versions, that are under way at once do: paid leaves them out.)
PaidOncePerVersion ==
    [][\A b \in Batch : Dispatch(b) => paid.version # version \/ paid.age = Heal]_vars

\* However deliveries fail, a page that the fallback cannot serve has CSS for both
\* viewports in the end.
EventuallyStyled == sheets # "local" => <>[]Fresh

================================================================================
