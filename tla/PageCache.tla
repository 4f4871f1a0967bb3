------------------------------- MODULE PageCache -------------------------------
(***************************************************************************)
(* The plugin's static page cache, for one URL and one device: the files    *)
(* of its entry under pages/, the drop-in that serves them before WordPress *)
(* loads (advanced-cache.php), the requests that render the page and write  *)
(* it (CacheManager::write_cache), and those that change what the site      *)
(* shows and purge it (CachePurger, AutoPurge, OptimizeCallback).           *)
(*                                                                         *)
(*   html    <hash>.html, served while it is younger than its TTL           *)
(*   gz      <hash>.html.gz, its compressed twin (.br is written, served    *)
(*           and purged the same way, and left out)                         *)
(*   stale   <hash>.html.stale, what a soft purge renames html to           *)
(*                                                                         *)
(* PHP requests run side by side and share nothing but the file system, the *)
(* purge lock and the options table: one file operation is one step. A file *)
(* is what was rendered: the version of the site it shows (v), the version  *)
(* the site had when it was written (at) and its age. Every change of the   *)
(* site, of its content, its configuration or its critical CSS, is a new    *)
(* version. A day or more passes at once, between requests.                 *)
(***************************************************************************)
EXTENDS Naturals, FiniteSets

CONSTANTS
    Renderer,       \* PHP requests that render the page
    Purger,         \* PHP requests that change the site and purge
    None,
    Kinds,          \* the purges there are: see PurgeKind
    MaxVersion,     \* bound on the site's versions
    MaxFaults       \* bound on killed requests and failed writes

PurgeKind == {"soft", "push", "hard", "all"}

ASSUME ActorAssumption == Renderer \cap Purger = {} /\ None \notin Renderer \cup Purger
ASSUME KindsAssumption == Kinds \subseteq PurgeKind
ASSUME BoundAssumption == MaxVersion \in Nat \ {0} /\ MaxFaults \in Nat

VARIABLES
    version,    \* the site's version
    gone,       \* the page was deleted: it renders as a 404
    html, gz, stale,    \* the entry's files, None when there is no such file
    dir,        \* the directory of the entry exists
    lock,       \* who holds .purge_lock (flock)
    proc,       \* where each request is, and what it has in hand
    queued,     \* the URL is in wp_instant_warm_queue
    event,      \* a wp_instant_cache_warm cron event is scheduled
    purged,     \* history: the last change whose purge removed what it had to
    hardPurged, \* history: the same, of the purges that leave no stale copy
    faults

files == <<html, gz, stale>>
history == <<purged, hardPurged>>
vars == <<version, gone, html, gz, stale, dir, lock, proc, queued, event,
          purged, hardPurged, faults>>

Actor == Renderer \cup Purger
Versions == 1..MaxVersion

Fresh == 0      \* younger than 24 hours
Old == 1        \* older than that, within the TTL of seven days
Expired == 2

File == [v : Versions, at : Versions, age : {Fresh, Old, Expired}]

\* Where a request is; the version that a renderer has read; the kind and the version of a
\* purger's change.
Process == [pc : {"idle", "readqueue", "emptyqueue", "mkdir", "probe", "unprobe", "gz",
                  "html", "unstale", "begin", "stale", "swap", "unlock", "enqueue",
                  "schedule"},
            v : 0..MaxVersion, kind : Kinds \cup {None}, no : 0..MaxVersion]

Rendering(v) == [pc |-> "mkdir", v |-> v, kind |-> None, no |-> 0]
Bringing(kind, no) == [pc |-> "begin", v |-> 0, kind |-> kind, no |-> no]
Idle == [pc |-> "idle", v |-> 0, kind |-> None, no |-> 0]
At(a, pc) == proc[a].pc = pc
Goto(a, pc) == proc' = [proc EXCEPT ![a].pc = pc]
Rest(a) == proc' = [proc EXCEPT ![a] = Idle]
Later(a, b) == IF a >= b THEN a ELSE b

-----------------------------------------------------------------------------
(***************************************************************************)
(* Serving: the drop-in                                                    *)
(***************************************************************************)
\* Mutant: an entry never expires.
LiveForever(f) == f # None

Live(f) == f # None /\ f.age < Expired
Servable(f) == f # None /\ f.age = Fresh

\* The versions a visitor may be shown without WordPress: a fresh entry, through
\* its twin if there is one, else a stale copy less than a day old.
Served ==
    IF Live(html) THEN {html.v} \cup {f.v : f \in {gz} \ {None}}
    ELSE IF Servable(stale) THEN {stale.v} ELSE {}

\* A request that reaches WordPress: the page is read and transformed as it is
\* now. A page that is gone answers 404, which is never cached.
Render(r) ==
    proc' = [proc EXCEPT ![r] = IF gone THEN Idle ELSE Rendering(version)]

\* The stale copy is shown, and the beacon in it has the page rendered again
\* (when it is not throttled).
VisitStale(r) ==
    /\ At(r, "idle")
    /\ ~Live(html) /\ Servable(stale)
    /\ Render(r)
    /\ UNCHANGED <<version, gone, files, dir, lock, queued, event, history, faults>>

\* Neither copy can be shown. A stale copy that is too old is dropped.
VisitMiss(r) ==
    /\ At(r, "idle")
    /\ ~Live(html) /\ ~Servable(stale)
    /\ stale' = None
    /\ Render(r)
    /\ UNCHANGED <<version, gone, html, gz, dir, lock, queued, event, history, faults>>

-----------------------------------------------------------------------------
(***************************************************************************)
(* CacheWarmer::run. WP-Cron takes the event off its list and calls it; the  *)
(* queue is read, emptied, and its URLs rendered past the drop-in. (A queue  *)
(* of one URL is never longer than a batch.)                                *)
(***************************************************************************)
CronRun(r) ==
    /\ At(r, "idle") /\ event
    /\ event' = FALSE
    /\ Goto(r, "readqueue")
    /\ UNCHANGED <<version, gone, files, dir, lock, queued, history, faults>>

ReadQueue(r) ==
    /\ At(r, "readqueue")
    /\ IF queued THEN Goto(r, "emptyqueue") ELSE Rest(r)
    /\ UNCHANGED <<version, gone, files, dir, lock, queued, event, history, faults>>

EmptyQueue(r) ==
    /\ At(r, "emptyqueue")
    /\ queued' = FALSE
    /\ Render(r)
    /\ UNCHANGED <<version, gone, files, dir, lock, event, history, faults>>

-----------------------------------------------------------------------------
(***************************************************************************)
(* write_cache                                                             *)
(***************************************************************************)
Written(r) == [v |-> proc[r].v, at |-> version, age |-> Fresh]

MakeDir(r) ==
    /\ At(r, "mkdir")
    /\ dir' = TRUE
    /\ Goto(r, "probe")
    /\ UNCHANGED <<version, gone, files, lock, queued, event, history, faults>>

\* is_purge_locked takes the lock to see whether it is free. A request that does
\* not get it writes nothing.
Probe(r) ==
    /\ At(r, "probe")
    /\ IF lock = None THEN lock' = r /\ Goto(r, "unprobe")
                      ELSE Rest(r) /\ UNCHANGED lock
    /\ UNCHANGED <<version, gone, files, dir, queued, event, history, faults>>

EndProbe(r) ==
    /\ At(r, "unprobe")
    /\ lock' = None
    /\ Goto(r, "gz")
    /\ UNCHANGED <<version, gone, files, dir, queued, event, history, faults>>

\* Each file lands by a rename, which fails when the directory is gone: the
\* twins without consequence, the page by ending the write.
WriteTwin(r) ==
    /\ At(r, "gz")
    /\ Goto(r, "html")
    /\ \/ /\ gz' = IF dir THEN Written(r) ELSE gz
          /\ UNCHANGED faults
       \/ /\ faults < MaxFaults /\ faults' = faults + 1
          /\ UNCHANGED gz
    /\ UNCHANGED <<version, gone, html, stale, dir, lock, queued, event, history>>

WritePage(r) ==
    /\ At(r, "html")
    /\ IF dir THEN html' = Written(r) /\ Goto(r, "unstale")
              ELSE Rest(r) /\ UNCHANGED html
    /\ UNCHANGED <<version, gone, gz, stale, dir, lock, queued, event, history, faults>>

DropStale(r) ==
    /\ At(r, "unstale")
    /\ stale' = None
    /\ Rest(r)
    /\ UNCHANGED <<version, gone, html, gz, dir, lock, queued, event, history, faults>>

-----------------------------------------------------------------------------
(***************************************************************************)
(* Purges. The site changes in the course of the request; what it purges is *)
(* queued and purged at its end (flush_queue), or by the callback that       *)
(* brought the change:                                                      *)
(*   soft   a post or its comments changed: purge_url                       *)
(*   push   critical CSS arrived: purge_url, the page is not warmed         *)
(*   hard   the post was deleted or unpublished: purge_url, hard            *)
(*   all    a menu, a term or the configuration changed: purge_all_static   *)
(***************************************************************************)
Change(p) ==
    /\ At(p, "idle") /\ version < MaxVersion
    /\ version' = version + 1
    /\ \E kind \in Kinds :
         /\ gone' = (gone \/ kind = "hard")
         /\ proc' = [proc EXCEPT ![p] = Bringing(kind, version + 1)]
    /\ UNCHANGED <<files, dir, lock, queued, event, history, faults>>

\* The purge of p has returned: its URLs are handed to the warmer. `done` tells
\* whether it went through the files or left them to another purge.
Returned(p, done) ==
    /\ IF proc[p].kind = "push" THEN Rest(p) ELSE Goto(p, "enqueue")
    /\ purged' = IF done THEN Later(purged, proc[p].no) ELSE purged
    /\ hardPurged' = IF done /\ proc[p].kind \in {"hard", "all"}
                     THEN Later(hardPurged, proc[p].no) ELSE hardPurged

\* purge_url renames the page away, or deletes it,
PurgePage(p) ==
    /\ At(p, "begin") /\ proc[p].kind # "all"
    /\ html' = None
    /\ IF proc[p].kind = "hard"
       THEN Goto(p, "stale") /\ UNCHANGED stale
       ELSE Goto(p, "gz") /\ stale' = IF html # None THEN html ELSE stale
    /\ UNCHANGED <<version, gone, gz, dir, lock, queued, event, history, faults>>

PurgeStale(p) ==
    /\ At(p, "stale")
    /\ stale' = None
    /\ Goto(p, "gz")
    /\ UNCHANGED <<version, gone, html, gz, dir, lock, queued, event, history, faults>>

\* Mutant: the twins are left where they are.
PurgeTwinNot(p) ==
    /\ At(p, "gz") /\ p \in Purger
    /\ UNCHANGED gz
    /\ Returned(p, TRUE)
    /\ UNCHANGED <<version, gone, html, stale, dir, lock, queued, event, faults>>

\* and then its twins. (What a soft purge renames them to is never read.)
PurgeTwin(p) ==
    /\ At(p, "gz") /\ p \in Purger
    /\ gz' = None
    /\ Returned(p, TRUE)
    /\ UNCHANGED <<version, gone, html, stale, dir, lock, queued, event, faults>>

\* purge_all_static. When the lock is taken, another purge is taken to be in
\* flight and to cover this one.
TakeLock(p) ==
    /\ At(p, "begin") /\ proc[p].kind = "all"
    /\ IF lock = None
       THEN lock' = p /\ Goto(p, "swap") /\ UNCHANGED history
       ELSE Returned(p, FALSE) /\ UNCHANGED lock
    /\ UNCHANGED <<version, gone, files, dir, queued, event, faults>>

\* The pages directory is renamed away and an empty one made. The old one is
\* deleted under the lock.
SwapPages(p) ==
    /\ At(p, "swap")
    /\ html' = None /\ gz' = None /\ stale' = None /\ dir' = FALSE
    /\ Goto(p, "unlock")
    /\ UNCHANGED <<version, gone, lock, queued, event, history, faults>>

Unlock(p) ==
    /\ At(p, "unlock")
    /\ lock' = None
    /\ Returned(p, TRUE)
    /\ UNCHANGED <<version, gone, files, dir, queued, event, faults>>

\* CacheWarmer::queue writes the option, then schedules a run if none is.
Enqueue(p) ==
    /\ At(p, "enqueue")
    /\ queued' = TRUE
    /\ Goto(p, "schedule")
    /\ UNCHANGED <<version, gone, files, dir, lock, event, history, faults>>

Schedule(p) ==
    /\ At(p, "schedule")
    /\ event' = TRUE
    /\ Rest(p)
    /\ UNCHANGED <<version, gone, files, dir, lock, queued, history, faults>>

-----------------------------------------------------------------------------
(***************************************************************************)
(* Time and faults                                                         *)
(***************************************************************************)

Aged(f) == IF f = None THEN None ELSE [f EXCEPT !.age = IF @ < Expired THEN @ + 1 ELSE @]

TimePasses ==
    /\ \A a \in Actor : At(a, "idle")
    /\ html' = Aged(html) /\ stale' = Aged(stale)
    /\ UNCHANGED <<version, gone, gz, dir, lock, proc, queued, event, history, faults>>

\* The request is killed; the system releases its lock.
Crash(a) ==
    /\ ~At(a, "idle") /\ faults < MaxFaults
    /\ Rest(a)
    /\ lock' = IF lock = a THEN None ELSE lock
    /\ faults' = faults + 1
    /\ UNCHANGED <<version, gone, files, dir, queued, event, history>>

-----------------------------------------------------------------------------
Init ==
    /\ version = 1 /\ gone = FALSE
    /\ html = None /\ gz = None /\ stale = None
    /\ dir = FALSE /\ lock = None
    /\ proc = [a \in Actor |-> Idle]
    /\ queued = FALSE /\ event = FALSE
    /\ purged = 1 /\ hardPurged = 1
    /\ faults = 0

WriteStep(r) == ReadQueue(r) \/ EmptyQueue(r) \/ MakeDir(r) \/ Probe(r) \/ EndProbe(r) \/ WriteTwin(r)
                \/ WritePage(r) \/ DropStale(r)
PurgeStep(p) == PurgePage(p) \/ PurgeStale(p) \/ PurgeTwin(p) \/ TakeLock(p)
                \/ SwapPages(p) \/ Unlock(p) \/ Enqueue(p) \/ Schedule(p)

Next ==
    \/ \E r \in Renderer : VisitStale(r) \/ VisitMiss(r) \/ CronRun(r) \/ WriteStep(r)
    \/ \E p \in Purger : Change(p) \/ PurgeStep(p)
    \/ TimePasses
    \/ \E a \in Actor : Crash(a)

Spec == Init /\ [][Next]_vars

\* A PHP request runs on; the site is visited again and again, and time passes.
Fairness ==
    /\ \A r \in Renderer : WF_vars(WriteStep(r))
    /\ \A p \in Purger : WF_vars(PurgeStep(p))
    /\ WF_vars(\E r \in Renderer : VisitStale(r) \/ VisitMiss(r))
    /\ WF_vars(\E r \in Renderer : CronRun(r))
    /\ WF_vars(TimePasses)

FairSpec == Spec /\ Fairness

-----------------------------------------------------------------------------
(***************************************************************************)
(* Properties                                                              *)
(***************************************************************************)
\* The shape of the state.
Reading == {"idle", "readqueue", "emptyqueue"}
Writing == {"mkdir", "probe", "unprobe", "gz", "html", "unstale"}
Purging == {"begin", "stale", "gz", "swap", "unlock", "enqueue", "schedule"}

RendererOK(q) == q.pc \in Reading \cup Writing /\ (q.pc \in Writing => q.v \in Versions)
PurgerOK(q) ==
    /\ q.pc \in {"idle"} \cup Purging
    /\ q.pc \in Purging => q.kind \in Kinds /\ q.no \in Versions

TypeOK ==
    /\ version \in Versions /\ gone \in BOOLEAN
    /\ html \in File \cup {None} /\ gz \in File \cup {None} /\ stale \in File \cup {None}
    /\ dir \in BOOLEAN /\ lock \in Actor \cup {None}
    /\ proc \in [Actor -> Process]
    /\ \A r \in Renderer : RendererOK(proc[r])
    /\ \A p \in Purger : PurgerOK(proc[p])
    /\ queued \in BOOLEAN /\ event \in BOOLEAN
    /\ purged \in Versions /\ hardPurged \in Versions /\ faults \in 0..MaxFaults

\* A file, if there is one, was written when the site had that version.
Since(f, no) == f # None => f.at >= no

\* What is on disk was written after the last change whose purge went through:
\* no interleaving of writes, soft purges and the swap brings back what a purge
\* removed, and no stale copy outlives a hard or a full purge.
PurgeTakesEffect ==
    /\ Since(html, purged) /\ Since(gz, purged)
    /\ Since(stale, hardPurged)

\* Whoever holds the purge lock is about to release it, and nobody else is
\* between taking and releasing it.
Locked(a) == At(a, "unprobe") \/ At(a, "swap") \/ At(a, "unlock")
LockIsHeld == \A a \in Actor : Locked(a) <=> lock = a

\* Every URL in the warm queue has a run coming: scheduled, begun and yet to
\* read the queue, or about to be scheduled by the request that queued it. Only
\* a killed request leaves a queue that waits for the next purge.
QueueHasRun ==
    queued /\ faults = 0 =>
        \/ event
        \/ \E r \in Renderer : At(r, "readqueue") \/ At(r, "emptyqueue")
        \/ \E p \in Purger : At(p, "schedule")

\* Whatever raced and whoever was killed, a site that stops changing is shown as
\* it is from some time on: no version but the last is served by the drop-in,
\* and none if the page was deleted. A render that was read before a purge and
\* written after it is served until its TTL ends.
Reconverges == <>[](Served \subseteq IF gone THEN {} ELSE {version})

-----------------------------------------------------------------------------
(***************************************************************************)
(* The strengthening that is inductive (PageCacheProofs)                   *)
(***************************************************************************)
\* No purge is of a change that is yet to come, and those that leave no stale copy count
\* among all.
PurgesArePast ==
    /\ hardPurged <= purged /\ purged <= version
    /\ \A p \in Purger : proc[p].no <= version

\* Each kind of purge has its own steps.
OfKind(q) ==
    /\ q.pc \in {"swap", "unlock"} => q.kind = "all"
    /\ q.pc = "stale" => q.kind = "hard"
    /\ q.pc = "gz" => q.kind # "all"

StepsOfKind == \A p \in Purger : OfKind(proc[p])

\* What a purge under way has removed does not come back: only what is written since.
HalfDone(q) ==
    /\ q.pc \in {"stale", "gz", "unlock"} => Since(html, q.no)
    /\ q.pc = "gz" /\ q.kind = "hard" => Since(stale, q.no)
    /\ q.pc = "unlock" => Since(gz, q.no) /\ Since(stale, q.no)

HalfPurged == \A p \in Purger : HalfDone(proc[p])

IInv ==
    /\ TypeOK /\ LockIsHeld /\ PurgeTakesEffect
    /\ PurgesArePast /\ StepsOfKind /\ HalfPurged
=============================================================================
