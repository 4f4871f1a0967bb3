----------------------------- MODULE PluginProofs -----------------------------
(***************************************************************************)
(* Proofs about what a plugin keeps in files. Of the entry of a page           *)
(* (PageCache), for any number of requests and changes: a purge takes effect    *)
(* whatever is written beside it, its lock has one holder, and what is queued    *)
(* for the warmer has a run coming. Of rum.json (Telemetry): a step down is      *)
(* decided on views that came since the last.                                  *)
(*                                                                         *)
(* PurgeTakesEffect is not inductive: a purge counts once it has returned, and  *)
(* by then files it removed may have been written again. HalfPurged says what   *)
(* is true of the files while a purge is half way. DecidedOnFreshViews speaks of  *)
(* a decision that has been taken: TrafficInv says of the file that the views    *)
(* of its hours since the step add up to no more than were recorded since, of a  *)
(* beacon that has the file truncated, the same of what it will write, and of a   *)
(* run that is about to step down, the same of what it counted. Sums are folds   *)
(* over the hours: the lemmas about them are proved by a smallest counterexample. *)
(***************************************************************************)
EXTENDS MCPageCache, FiniteSetTheorems, WellFoundedInduction, TLAPS

USE ActorAssumption, BoundAssumption

\* A request that takes a step is the only one that does.
LEMMA OneMoves ==
    ASSUME TypeOK, NEW a \in Actor, NEW q \in Process, proc' = [proc EXCEPT ![a] = q]
    PROVE  /\ proc' \in [Actor -> Process] /\ proc'[a] = q
           /\ \A b \in Actor : b # a => proc'[b] = proc[b]
BY DEF TypeOK

LEMMA IdleOK == Idle \in Process /\ Idle.pc = "idle" /\ Idle.no = 0
BY DEF Idle, Process

\* The next statement, of the same request.
LEMMA GotoOK ==
    ASSUME TypeOK, NEW a \in Actor,
           NEW pc \in Reading \cup Writing \cup Purging, Goto(a, pc)
    PROVE  \E q \in Process :
              /\ proc' = [proc EXCEPT ![a] = q]
              /\ q.pc = pc /\ q.v = proc[a].v /\ q.kind = proc[a].kind /\ q.no = proc[a].no
<1>1. proc[a] \in Process
  BY DEF TypeOK
<1>2. [proc[a] EXCEPT !.pc = pc] \in Process
  BY <1>1 DEF Process, Reading, Writing, Purging
<1>3. proc' = [proc EXCEPT ![a] = [proc[a] EXCEPT !.pc = pc]]
  BY DEF Goto
<1> WITNESS [proc[a] EXCEPT !.pc = pc] \in Process
<1> QED
  BY <1>1, <1>3 DEF Process

LEMMA ActorsDiffer ==
    /\ \A r \in Renderer : r \in Actor /\ r \notin Purger /\ r # None
    /\ \A p \in Purger : p \in Actor /\ p \notin Renderer /\ p # None
BY DEF Actor

-----------------------------------------------------------------------------
LEMMA InitInv == Init => IInv
<1> SUFFICES ASSUME Init PROVE IInv
  OBVIOUS
<1>1. \A a \in Actor : proc[a] = Idle
  BY DEF Init
<1>2. TypeOK
  <2>1. proc \in [Actor -> Process]
    BY IdleOK DEF Init
  <2>2. RendererOK(Idle) /\ PurgerOK(Idle)
    BY IdleOK DEF RendererOK, PurgerOK, Reading, Writing, Purging
  <2>3. /\ \A r \in Renderer : RendererOK(proc[r])
        /\ \A p \in Purger : PurgerOK(proc[p])
    BY <1>1, <2>2, ActorsDiffer
  <2>4. version \in Versions /\ purged \in Versions /\ hardPurged \in Versions
    BY DEF Init, Versions
  <2>5. faults \in 0..MaxFaults
    BY DEF Init
  <2> QED
    BY <2>1, <2>3, <2>4, <2>5 DEF Init, TypeOK
<1>3. LockIsHeld
  BY <1>1, IdleOK, ActorsDiffer DEF Init, LockIsHeld, Locked, At, Actor
<1>4. PurgeTakesEffect /\ StepsOfKind /\ HalfPurged
  BY <1>1, IdleOK, ActorsDiffer
     DEF Init, PurgeTakesEffect, Since, StepsOfKind, OfKind, HalfPurged, HalfDone
<1>5. PurgesArePast
  BY <1>1, IdleOK, ActorsDiffer DEF Init, PurgesArePast
<1> QED
  BY <1>2, <1>3, <1>4, <1>5 DEF IInv

-----------------------------------------------------------------------------
(* The requests that render: what they write is of the version there is.       *)

\* A file that is as it was, or written now, or gone, is recent enough for whatever the one
\* before was, unless that was of a change to come.
LEMMA SinceKept ==
    ASSUME NEW f, NEW g, NEW no \in Nat, Since(f, no), version \in Nat, no <= version,
           g = f \/ g = None \/ g.at = version
    PROVE  Since(g, no)
BY DEF Since

LEMMA RendererKeeps ==
    ASSUME IInv, NEW r \in Renderer, NEW q \in Process,
           proc' = [proc EXCEPT ![r] = q],
           q.pc \in Reading \cup Writing, q.pc \in Writing => q.v \in Versions,
           UNCHANGED <<version, gone, history>>,
           html' \in File \cup {None}, html' = html \/ html'.at = version,
           gz' \in File \cup {None}, gz' = gz \/ gz'.at = version,
           stale' \in {stale, None},
           lock' \in Actor \cup {None}, q.pc = "unprobe" <=> lock' = r,
           \A b \in Actor : b # r => (lock' = b <=> lock = b),
           dir' \in BOOLEAN, queued' \in BOOLEAN, event' \in BOOLEAN,
           faults' \in 0..MaxFaults
    PROVE  IInv'
<1>0. TypeOK /\ r \in Actor
  BY ActorsDiffer DEF IInv
<1>1. /\ proc' \in [Actor -> Process] /\ proc'[r] = q
      /\ \A b \in Actor : b # r => proc'[b] = proc[b]
  BY <1>0, OneMoves
<1>2. \A p \in Purger : proc'[p] = proc[p] /\ proc[p] \in Process /\ proc[p].no \in Nat
  BY <1>0, <1>1, ActorsDiffer DEF TypeOK, Process
<1>3. version \in Nat /\ purged \in Nat /\ hardPurged \in Nat
  BY <1>0 DEF TypeOK, Versions
<1>4. TypeOK'
  <2>1. \A x \in Renderer : RendererOK(proc'[x])
    <3>1. RendererOK(q)
      BY DEF RendererOK
    <3> QED
      BY <1>0, <1>1, <3>1, ActorsDiffer DEF TypeOK
  <2>2. \A p \in Purger : PurgerOK(proc'[p])
    BY <1>0, <1>2 DEF TypeOK
  <2> QED
    BY <1>0, <1>1, <2>1, <2>2 DEF TypeOK, history
<1>5. LockIsHeld'
  <2>1. \A b \in Actor : b # r => (Locked(b)' <=> Locked(b))
    BY <1>1 DEF Locked, At
  <2>2. Locked(r)' <=> q.pc = "unprobe"
    BY <1>1 DEF Locked, At, Reading, Writing
  <2> QED
    BY <2>1, <2>2, <1>0 DEF IInv, LockIsHeld
<1>6. PurgeTakesEffect'
  BY <1>3, SinceKept DEF IInv, PurgeTakesEffect, PurgesArePast, history
<1>7. PurgesArePast' /\ StepsOfKind'
  BY <1>2 DEF IInv, PurgesArePast, StepsOfKind, history
<1>8. HalfPurged'
  <2> SUFFICES ASSUME NEW p \in Purger PROVE HalfDone(proc[p])'
    BY DEF HalfPurged
  <2>1. proc[p].no <= version /\ proc[p].no \in Nat
    BY <1>2 DEF IInv, PurgesArePast
  <2>2. HalfDone(proc[p]) /\ proc'[p] = proc[p]
    BY <1>2 DEF IInv, HalfPurged
  <2> QED
    BY <2>1, <2>2, <1>3, SinceKept DEF HalfDone
<1> QED
  BY <1>4, <1>5, <1>6, <1>7, <1>8 DEF IInv

\* A request that has read the page is about to write it.
LEMMA RenderOK ==
    ASSUME TypeOK, NEW r \in Renderer, Render(r)
    PROVE  \E q \in Process : /\ proc' = [proc EXCEPT ![r] = q]
                              /\ q.pc \in {"idle", "mkdir"}
                              /\ q.pc \in Writing => q.v \in Versions
<1>1. CASE gone
  BY <1>1, IdleOK DEF Render, Writing
<1>2. CASE ~gone
  <2>1. Rendering(version) \in Process /\ Rendering(version).pc = "mkdir"
        /\ Rendering(version).v \in Versions
    BY DEF Rendering, Process, TypeOK, Versions
  <2> QED
    BY <1>2, <2>1 DEF Render
<1> QED
  BY <1>1, <1>2

\* The visits, and the run of the warmer: nothing is written yet.
LEMMA VisitKeeps ==
    ASSUME IInv, NEW r \in Renderer,
           VisitStale(r) \/ VisitMiss(r) \/ CronRun(r) \/ ReadQueue(r) \/ EmptyQueue(r)
    PROVE  IInv'
<1>0. TypeOK /\ r \in Actor
  BY ActorsDiffer DEF IInv
<1>1. lock # r
  BY <1>0 DEF IInv, LockIsHeld, Locked, At, VisitStale, VisitMiss, CronRun, ReadQueue, EmptyQueue
<1>2. \E q \in Process : /\ proc' = [proc EXCEPT ![r] = q]
                         /\ q.pc \in Reading \cup {"mkdir"}
                         /\ q.pc \in Writing => q.v \in Versions
  <2>1. CASE VisitStale(r) \/ VisitMiss(r) \/ EmptyQueue(r)
    BY <2>1, <1>0, RenderOK DEF VisitStale, VisitMiss, EmptyQueue, Reading
  <2>2. CASE CronRun(r) \/ ReadQueue(r)
    <3>1. CASE Rest(r)
      BY <3>1, IdleOK DEF Rest, Reading, Writing
    <3>2. CASE Goto(r, "readqueue")
      BY <3>2, <1>0, GotoOK DEF Reading, Writing
    <3>3. CASE Goto(r, "emptyqueue")
      BY <3>3, <1>0, GotoOK DEF Reading, Writing
    <3> QED
      BY <2>2, <3>1, <3>2, <3>3 DEF CronRun, ReadQueue
  <2> QED
    BY <2>1, <2>2
<1>3. PICK q \in Process : /\ proc' = [proc EXCEPT ![r] = q]
                           /\ q.pc \in Reading \cup {"mkdir"}
                           /\ q.pc \in Writing => q.v \in Versions
  BY <1>2
<1>4. q.pc \in Reading \cup Writing /\ q.pc # "unprobe"
  BY <1>3 DEF Reading, Writing
<1>5. /\ UNCHANGED <<version, gone, history, lock, dir, html, gz, faults>>
      /\ stale' \in {stale, None} /\ queued' \in BOOLEAN /\ event' \in BOOLEAN
  BY <1>0 DEF VisitStale, VisitMiss, CronRun, ReadQueue, EmptyQueue, TypeOK, files
<1> QED
  BY <1>0, <1>1, <1>3, <1>4, <1>5, RendererKeeps DEF TypeOK

\* What is written is of the version there is.
LEMMA WriteKeeps ==
    ASSUME IInv, NEW r \in Renderer,
           MakeDir(r) \/ Probe(r) \/ EndProbe(r) \/ WriteTwin(r) \/ WritePage(r) \/ DropStale(r)
    PROVE  IInv'
<1>0. TypeOK /\ r \in Actor
  BY ActorsDiffer DEF IInv
<1>1. proc[r].pc \in Writing /\ proc[r].v \in Versions
  BY <1>0 DEF TypeOK, RendererOK, Writing, At, MakeDir, Probe, EndProbe, WriteTwin, WritePage,
              DropStale
<1>2. \E q \in Process : /\ proc' = [proc EXCEPT ![r] = q]
                         /\ q.pc = "idle" \/ (q.pc \in Writing /\ q.v \in Versions)
                         /\ q.pc = "unprobe" <=> lock' = r
  <2>1. lock = r <=> At(r, "unprobe")
    <3>1. ~At(r, "swap") /\ ~At(r, "unlock")
      BY <1>1 DEF At, Writing
    <3> QED
      BY <1>0, <3>1 DEF IInv, LockIsHeld, Locked
  <2>2. ASSUME Rest(r), lock' # r
        PROVE  \E q \in Process : /\ proc' = [proc EXCEPT ![r] = q]
                                  /\ q.pc = "idle"
                                  /\ q.pc = "unprobe" <=> lock' = r
    BY <2>2, IdleOK DEF Rest
  <2>3. ASSUME NEW pc \in Writing, Goto(r, pc), pc = "unprobe" <=> lock' = r
        PROVE  \E q \in Process : /\ proc' = [proc EXCEPT ![r] = q]
                                  /\ q.pc \in Writing /\ q.v \in Versions
                                  /\ q.pc = "unprobe" <=> lock' = r
    BY <2>3, <1>0, <1>1, GotoOK
  <2>4. CASE MakeDir(r)
    BY <2>1, <2>4, <2>3 DEF MakeDir, At, Writing
  <2>5. CASE Probe(r)
    BY <2>1, <2>2, <2>5, <2>3 DEF Probe, At, Writing
  <2>6. CASE EndProbe(r)
    BY <2>6, <2>3, ActorsDiffer DEF EndProbe, At, Writing
  <2>7. CASE WriteTwin(r)
    BY <2>1, <2>7, <2>3 DEF WriteTwin, At, Writing
  <2>8. CASE WritePage(r)
    BY <2>1, <2>2, <2>8, <2>3 DEF WritePage, At, Writing, files
  <2> QED
    BY <2>1, <2>2, <2>4, <2>5, <2>6, <2>7, <2>8 DEF DropStale, At
<1>3. PICK q \in Process : /\ proc' = [proc EXCEPT ![r] = q]
                           /\ q.pc = "idle" \/ (q.pc \in Writing /\ q.v \in Versions)
                           /\ q.pc = "unprobe" <=> lock' = r
  BY <1>2
<1>4. q.pc \in Reading \cup Writing /\ (q.pc \in Writing => q.v \in Versions)
  BY <1>3 DEF Reading, Writing
<1>5. lock' \in Actor \cup {None} /\ \A b \in Actor : b # r => (lock' = b <=> lock = b)
  <2>1. lock \in Actor \cup {None} /\ r \in Actor /\ None \notin Actor
    BY <1>0 DEF TypeOK, Actor
  <2>2. lock' = lock \/ (lock = None /\ lock' = r) \/ (At(r, "unprobe") /\ lock' = None)
    BY DEF MakeDir, Probe, EndProbe, WriteTwin, WritePage, DropStale
  <2>3. At(r, "unprobe") => lock = r
    BY <1>0 DEF IInv, LockIsHeld, Locked
  <2> QED
    BY <2>1, <2>2, <2>3
<1>6. /\ Written(r) \in File /\ Written(r).at = version
  BY <1>0, <1>1 DEF Written, File, TypeOK, Fresh
<1>7. /\ html' \in {html, Written(r)} /\ gz' \in {gz, Written(r)} /\ stale' \in {stale, None}
      /\ UNCHANGED <<version, gone, history>>
  BY DEF MakeDir, Probe, EndProbe, WriteTwin, WritePage, DropStale, files
<1>8. dir' \in BOOLEAN /\ queued' \in BOOLEAN /\ event' \in BOOLEAN /\ faults' \in 0..MaxFaults
  <2>1. dir \in BOOLEAN /\ queued \in BOOLEAN /\ event \in BOOLEAN /\ faults \in 0..MaxFaults
    BY <1>0 DEF TypeOK
  <2>2. /\ dir' \in {dir, TRUE} /\ queued' = queued /\ event' = event
        /\ faults' = faults \/ (faults < MaxFaults /\ faults' = faults + 1)
    BY DEF MakeDir, Probe, EndProbe, WriteTwin, WritePage, DropStale
  <2>3. faults' \in 0..MaxFaults
    BY <2>1, <2>2
  <2> QED
    BY <2>1, <2>2, <2>3
<1>9. /\ html' \in File \cup {None} /\ (html' = html \/ html'.at = version)
      /\ gz' \in File \cup {None} /\ (gz' = gz \/ gz'.at = version)
  BY <1>0, <1>6, <1>7 DEF TypeOK
<1> QED
  BY <1>0, <1>3, <1>4, <1>5, <1>7, <1>8, <1>9, RendererKeeps

-----------------------------------------------------------------------------
(* The requests that purge: they remove files, or rename the page away.        *)

LEMMA PurgerKeeps ==
    ASSUME IInv, NEW p \in Purger, NEW q \in Process,
           proc' = [proc EXCEPT ![p] = q], PurgerOK(q), OfKind(q), HalfDone(q)',
           version' \in Versions, version <= version', q.no <= version',
           gone' \in BOOLEAN, html' \in {html, None}, gz' \in {gz, None},
           stale' \in {stale, html, None},
           lock' \in Actor \cup {None}, q.pc \in {"swap", "unlock"} <=> lock' = p,
           \A b \in Actor : b # p => (lock' = b <=> lock = b),
           purged' \in Versions, hardPurged' \in Versions,
           hardPurged' <= purged', purged' <= version', PurgeTakesEffect',
           dir' \in BOOLEAN, queued' \in BOOLEAN, event' \in BOOLEAN,
           faults' \in 0..MaxFaults
    PROVE  IInv'
<1>0. TypeOK /\ p \in Actor
  BY ActorsDiffer DEF IInv
<1>1. /\ proc' \in [Actor -> Process] /\ proc'[p] = q
      /\ \A b \in Actor : b # p => proc'[b] = proc[b]
  BY <1>0, OneMoves
<1>2. TypeOK'
  <2>1. \A x \in Purger : PurgerOK(proc'[x])
    BY <1>0, <1>1, ActorsDiffer DEF TypeOK
  <2>2. \A r \in Renderer : RendererOK(proc'[r])
    BY <1>0, <1>1, ActorsDiffer DEF TypeOK
  <2>3. html' \in File \cup {None} /\ gz' \in File \cup {None} /\ stale' \in File \cup {None}
    BY <1>0 DEF TypeOK
  <2> QED
    BY <1>1, <2>1, <2>2, <2>3 DEF TypeOK
<1>3. LockIsHeld'
  <2>1. \A b \in Actor : b # p => (Locked(b)' <=> Locked(b))
    BY <1>1 DEF Locked, At
  <2>2. q.pc # "unprobe"
    BY DEF PurgerOK, Purging
  <2>3. Locked(p)' <=> q.pc \in {"swap", "unlock"}
    BY <1>1, <2>2 DEF Locked, At
  <2> QED
    BY <2>1, <2>3, <1>0 DEF IInv, LockIsHeld
<1>4. \A x \in Purger : x # p => proc'[x] = proc[x] /\ proc[x] \in Process
  BY <1>0, <1>1, ActorsDiffer DEF TypeOK
<1>5. PurgesArePast'
  <2>1. \A x \in Purger : x # p => proc[x].no \in Nat /\ proc[x].no <= version
    BY <1>4 DEF Process, IInv, PurgesArePast
  <2>2. version \in Nat /\ version' \in Nat
    BY <1>0 DEF TypeOK, Versions
  <2> QED
    BY <1>1, <1>4, <2>1, <2>2, ActorsDiffer DEF PurgesArePast
<1>6. StepsOfKind'
  BY <1>1, <1>4, ActorsDiffer DEF IInv, StepsOfKind
<1>7. HalfPurged'
  <2> SUFFICES ASSUME NEW x \in Purger PROVE HalfDone(proc[x])'
    BY DEF HalfPurged
  <2>1. CASE x = p
    BY <1>1, <2>1 DEF HalfDone
  <2>2. CASE x # p
    <3>1. HalfDone(proc[x]) /\ proc'[x] = proc[x]
      BY <1>4, <2>2 DEF IInv, HalfPurged
    <3> QED
      BY <3>1 DEF HalfDone, Since
  <2> QED
    BY <2>1, <2>2
<1> QED
  BY <1>2, <1>3, <1>5, <1>6, <1>7 DEF IInv

\* What is known of a purge under way.
LEMMA UnderWay ==
    ASSUME IInv, NEW p \in Purger, proc[p].pc \in Purging
    PROVE  /\ p \in Actor /\ proc[p] \in Process /\ proc[p].kind \in Kinds
           /\ proc[p].no \in Versions /\ proc[p].no <= version
           /\ OfKind(proc[p]) /\ HalfDone(proc[p])
           /\ lock = p <=> proc[p].pc \in {"swap", "unlock"}
<1>1. p \in Actor /\ TypeOK
  BY ActorsDiffer DEF IInv
<1>2. proc[p] \in Process /\ proc[p].kind \in Kinds /\ proc[p].no \in Versions
  BY <1>1 DEF TypeOK, PurgerOK
<1>3. proc[p].pc # "unprobe"
  BY DEF Purging
<1>4. lock = p <=> proc[p].pc \in {"swap", "unlock"}
  BY <1>1, <1>3 DEF IInv, LockIsHeld, Locked, At
<1> QED
  BY <1>1, <1>2, <1>4 DEF IInv, PurgesArePast, StepsOfKind, HalfPurged

LEMMA PurgeGoes ==
    ASSUME IInv, NEW p \in Purger, proc[p].pc \in Purging, NEW pc \in Purging, Goto(p, pc)
    PROVE  \E q \in Process :
              /\ proc' = [proc EXCEPT ![p] = q] /\ PurgerOK(q) /\ q.no <= version
              /\ q.pc = pc /\ q.kind = proc[p].kind /\ q.no = proc[p].no
<1>1. TypeOK
  BY DEF IInv
<1>2. PICK q \in Process :
              /\ proc' = [proc EXCEPT ![p] = q]
              /\ q.pc = pc /\ q.v = proc[p].v /\ q.kind = proc[p].kind /\ q.no = proc[p].no
  BY <1>1, UnderWay, GotoOK
<1>3. PurgerOK(q) /\ q.no <= version
  BY <1>2, UnderWay DEF PurgerOK
<1> QED
  BY <1>2, <1>3

LEMMA AtRest ==
    /\ Idle \in Process /\ PurgerOK(Idle) /\ OfKind(Idle) /\ HalfDone(Idle)'
    /\ Idle.pc \notin {"swap", "unlock"} /\ Idle.no = 0
BY IdleOK DEF PurgerOK, OfKind, HalfDone, Purging

\* What stays as it was is of its type.
LEMMA Typed ==
    ASSUME IInv
    PROVE  /\ version \in Versions /\ version \in Nat /\ 0 <= version
           /\ gone \in BOOLEAN /\ dir \in BOOLEAN /\ queued \in BOOLEAN /\ event \in BOOLEAN
           /\ lock \in Actor \cup {None} /\ None \notin Actor
           /\ purged \in Versions /\ hardPurged \in Versions
           /\ hardPurged <= purged /\ purged <= version
           /\ PurgeTakesEffect /\ faults \in 0..MaxFaults
BY DEF IInv, TypeOK, PurgesArePast, Versions, Actor

LEMMA ReturnedOK ==
    ASSUME IInv, NEW p \in Purger, proc[p].pc \in Purging, NEW done \in BOOLEAN,
           Returned(p, done)
    PROVE  /\ \E q \in Process :
                 /\ proc' = [proc EXCEPT ![p] = q] /\ PurgerOK(q) /\ q.no <= version
                 /\ OfKind(q) /\ HalfDone(q)' /\ q.pc \notin {"swap", "unlock"}
           /\ purged' \in Versions /\ hardPurged' \in Versions
           /\ hardPurged' <= purged' /\ purged' <= version
           /\ purged' = purged \/ (done /\ purged' = proc[p].no)
           /\ \/ hardPurged' = hardPurged
              \/ done /\ proc[p].kind \in {"hard", "all"} /\ hardPurged' = proc[p].no
<1>1. \E q \in Process :
         /\ proc' = [proc EXCEPT ![p] = q] /\ PurgerOK(q) /\ q.no <= version
         /\ OfKind(q) /\ HalfDone(q)' /\ q.pc \notin {"swap", "unlock"}
  <2>1. CASE Rest(p)
    BY <2>1, AtRest, Typed DEF Rest
  <2>2. CASE Goto(p, "enqueue")
    <3>1. "enqueue" \in Purging
      BY DEF Purging
    <3>2. PICK q \in Process :
              /\ proc' = [proc EXCEPT ![p] = q] /\ PurgerOK(q) /\ q.no <= version
              /\ q.pc = "enqueue" /\ q.kind = proc[p].kind /\ q.no = proc[p].no
      BY <2>2, <3>1, PurgeGoes
    <3>3. OfKind(q) /\ HalfDone(q)' /\ q.pc \notin {"swap", "unlock"}
      BY <3>2 DEF OfKind, HalfDone
    <3> QED
      BY <3>2, <3>3
  <2> QED
    BY <2>1, <2>2 DEF Returned
<1>2. /\ proc[p].no \in Versions /\ purged \in Versions /\ hardPurged \in Versions
      /\ proc[p].no <= version /\ hardPurged <= purged /\ purged <= version
  BY UnderWay, Typed
<1>3. /\ purged' = purged \/ (done /\ purged' = proc[p].no)
      /\ \/ hardPurged' = hardPurged
         \/ done /\ proc[p].kind \in {"hard", "all"} /\ hardPurged' = proc[p].no
      /\ purged' \in Versions /\ hardPurged' \in Versions /\ purged' <= version
  BY <1>2 DEF Returned, Later
<1>4. hardPurged' <= purged'
  <2>1. CASE done
    BY <2>1, <1>2 DEF Returned, Later, Versions
  <2>2. CASE ~done
    BY <2>2, <1>2 DEF Returned
  <2> QED
    BY <2>1, <2>2
<1> QED
  BY <1>1, <1>3, <1>4

LEMMA ChangeKeeps ==
    ASSUME IInv, NEW p \in Purger, Change(p)
    PROVE  IInv'
<1>1. PICK kind \in Kinds :
          gone' = (gone \/ kind = "hard")
          /\ proc' = [proc EXCEPT ![p] = Bringing(kind, version + 1)]
  BY DEF Change
<1>2. /\ version' = version + 1 /\ version' \in Versions /\ version' \in 0..MaxVersion
  BY Typed DEF Change, Versions
<1>3. PICK q \in Process : /\ proc' = [proc EXCEPT ![p] = q]
                           /\ q.pc = "begin" /\ q.kind = kind /\ q.no = version'
  <2>1. Bringing(kind, version') \in Process
    BY <1>2 DEF Bringing, Process
  <2>2. proc' = [proc EXCEPT ![p] = Bringing(kind, version')]
    BY <1>1, <1>2
  <2> QED
    BY <2>1, <2>2 DEF Bringing
<1>4. PurgerOK(q) /\ OfKind(q) /\ HalfDone(q)' /\ q.pc \notin {"swap", "unlock"}
  BY <1>2, <1>3 DEF PurgerOK, Purging, OfKind, HalfDone
<1>5. lock # p
  BY ActorsDiffer DEF IInv, LockIsHeld, Locked, At, Change
<1>6. /\ UNCHANGED <<html, gz, stale, dir, lock, queued, event, purged, hardPurged, faults>>
      /\ gone' \in BOOLEAN
  BY <1>1, Typed DEF Change, files, history
<1>7. PurgeTakesEffect'
  BY <1>6, Typed DEF PurgeTakesEffect, Since
<1>8. version <= version' /\ q.no <= version' /\ purged' <= version' /\ hardPurged' <= purged'
  BY <1>2, <1>3, <1>6, Typed DEF Versions
<1>9. /\ purged' \in Versions /\ hardPurged' \in Versions /\ lock' \in Actor \cup {None}
      /\ dir' \in BOOLEAN /\ queued' \in BOOLEAN /\ event' \in BOOLEAN
      /\ faults' \in 0..MaxFaults
  BY <1>6, Typed
<1> QED
  BY <1>2, <1>3, <1>4, <1>5, <1>6, <1>7, <1>8, <1>9, PurgerKeeps

\* The steps that leave the purge under way: each has its file out of the way first.
LEMMA PurgeKeeps ==
    ASSUME IInv, NEW p \in Purger, PurgePage(p) \/ PurgeStale(p) \/ SwapPages(p) \/ Enqueue(p)
    PROVE  IInv'
<1>0. /\ proc[p].pc \in {"begin", "stale", "swap", "enqueue"}
      /\ proc[p].pc \in Purging
  BY DEF PurgePage, PurgeStale, SwapPages, Enqueue, At, Purging
<1>1. \E pc \in {"stale", "gz", "unlock", "schedule"} :
          /\ Goto(p, pc)
          /\ pc = "unlock" <=> lock = p
          /\ pc = "stale" => proc[p].kind = "hard"
          /\ pc = "gz" => proc[p].kind # "all"
          /\ pc = "unlock" => proc[p].kind = "all"
          /\ pc \in {"stale", "gz", "unlock"} => Since(html', proc[p].no)
          /\ pc = "gz" /\ proc[p].kind = "hard" => Since(stale', proc[p].no)
          /\ pc = "unlock" => Since(gz', proc[p].no) /\ Since(stale', proc[p].no)
  <2>1. CASE PurgePage(p) /\ proc[p].kind = "hard"
    <3> WITNESS "stale" \in {"stale", "gz", "unlock", "schedule"}
    <3> QED
      BY <2>1, <1>0, UnderWay DEF PurgePage, At, Since
  <2>2. CASE PurgePage(p) /\ proc[p].kind # "hard"
    <3> WITNESS "gz" \in {"stale", "gz", "unlock", "schedule"}
    <3> QED
      BY <2>2, <1>0, UnderWay DEF PurgePage, At, Since
  <2>3. CASE PurgeStale(p)
    <3> WITNESS "gz" \in {"stale", "gz", "unlock", "schedule"}
    <3> QED
      BY <2>3, <1>0, UnderWay DEF PurgeStale, At, Since, OfKind, HalfDone
  <2>4. CASE SwapPages(p)
    <3> WITNESS "unlock" \in {"stale", "gz", "unlock", "schedule"}
    <3> QED
      BY <2>4, <1>0, UnderWay DEF SwapPages, At, Since, OfKind
  <2>5. CASE Enqueue(p)
    <3> WITNESS "schedule" \in {"stale", "gz", "unlock", "schedule"}
    <3> QED
      BY <2>5, <1>0, UnderWay DEF Enqueue, At
  <2> QED
    BY <2>1, <2>2, <2>3, <2>4, <2>5
<1>2. PICK pc \in {"stale", "gz", "unlock", "schedule"} :
          /\ Goto(p, pc)
          /\ pc = "unlock" <=> lock = p
          /\ pc = "stale" => proc[p].kind = "hard"
          /\ pc = "gz" => proc[p].kind # "all"
          /\ pc = "unlock" => proc[p].kind = "all"
          /\ pc \in {"stale", "gz", "unlock"} => Since(html', proc[p].no)
          /\ pc = "gz" /\ proc[p].kind = "hard" => Since(stale', proc[p].no)
          /\ pc = "unlock" => Since(gz', proc[p].no) /\ Since(stale', proc[p].no)
  BY <1>1
<1>3. pc \in Purging
  BY DEF Purging
<1>4. PICK q \in Process :
          /\ proc' = [proc EXCEPT ![p] = q] /\ PurgerOK(q) /\ q.no <= version
          /\ q.pc = pc /\ q.kind = proc[p].kind /\ q.no = proc[p].no
  BY <1>0, <1>2, <1>3, PurgeGoes
<1>5. OfKind(q)
  BY <1>2, <1>4 DEF OfKind
<1>6. HalfDone(q)'
  BY <1>2, <1>4 DEF HalfDone, Since
<1>7. UNCHANGED <<version, gone, lock, event, purged, hardPurged, faults>>
  BY DEF PurgePage, PurgeStale, SwapPages, Enqueue, history
<1>8. /\ html' \in {html, None} /\ gz' \in {gz, None} /\ stale' \in {stale, html, None}
      /\ dir' \in BOOLEAN /\ queued' \in BOOLEAN
  BY Typed DEF PurgePage, PurgeStale, SwapPages, Enqueue, files
<1>9. PurgeTakesEffect'
  <2>1. Since(html, hardPurged)
    <3>1. html = None \/ html.at \in Nat
      BY DEF IInv, TypeOK, File, Versions
    <3> QED
      BY <3>1, Typed DEF PurgeTakesEffect, Since, Versions
  <2> QED
    BY <2>1, <1>7, <1>8, Typed DEF PurgeTakesEffect, Since
<1>10. /\ version' \in Versions /\ version <= version' /\ q.no <= version'
       /\ purged' \in Versions /\ hardPurged' \in Versions
       /\ hardPurged' <= purged' /\ purged' <= version'
       /\ lock' \in Actor \cup {None} /\ event' \in BOOLEAN /\ gone' \in BOOLEAN
       /\ faults' \in 0..MaxFaults
  BY <1>4, <1>7, Typed
<1>11. q.pc \in {"swap", "unlock"} <=> lock' = p
  BY <1>2, <1>4, <1>7
<1>12. \A b \in Actor : b # p => (lock' = b <=> lock = b)
  BY <1>7
<1> QED
  BY <1>4, <1>5, <1>6, <1>8, <1>9, <1>10, <1>11, <1>12, PurgerKeeps

\* The steps at which a purge returns, or finds another in its place: what it has removed is
\* either gone or written since.
LEMMA ReturnKeeps ==
    ASSUME IInv, NEW p \in Purger, PurgeTwin(p) \/ TakeLock(p) \/ Unlock(p) \/ Schedule(p)
    PROVE  IInv'
<1>0. proc[p].pc \in {"gz", "begin", "unlock", "schedule"} /\ proc[p].pc \in Purging
  BY DEF PurgeTwin, TakeLock, Unlock, Schedule, At, Purging
<1>1. /\ UNCHANGED <<version, gone, html, stale, dir, queued, faults>>
      /\ gz' \in {gz, None} /\ event' \in BOOLEAN
  BY Typed DEF PurgeTwin, TakeLock, Unlock, Schedule, files
<1>2. CASE TakeLock(p) /\ lock = None
  <2>1. "swap" \in Purging /\ Goto(p, "swap") /\ lock' = p /\ UNCHANGED history
    BY <1>2 DEF Purging, TakeLock
  <2>2. PICK q \in Process :
            /\ proc' = [proc EXCEPT ![p] = q] /\ PurgerOK(q) /\ q.no <= version
            /\ q.pc = "swap" /\ q.kind = proc[p].kind /\ q.no = proc[p].no
    BY <1>0, <2>1, PurgeGoes
  <2>3. OfKind(q) /\ HalfDone(q)'
    BY <2>2, <1>2 DEF OfKind, HalfDone, TakeLock
  <2>4. PurgeTakesEffect'
    BY <1>1, <2>1, Typed DEF PurgeTakesEffect, Since, history
  <2>5. \A b \in Actor : b # p => (lock' = b <=> lock = b)
    BY <1>2, <2>1, Typed
  <2>6. /\ version' \in Versions /\ version <= version' /\ q.no <= version'
        /\ purged' \in Versions /\ hardPurged' \in Versions
        /\ hardPurged' <= purged' /\ purged' <= version'
        /\ lock' \in Actor \cup {None} /\ gone' \in BOOLEAN
        /\ dir' \in BOOLEAN /\ queued' \in BOOLEAN /\ faults' \in 0..MaxFaults
    BY <1>1, <2>1, <2>2, Typed, ActorsDiffer DEF history
  <2> QED
    BY <1>1, <2>1, <2>2, <2>3, <2>4, <2>5, <2>6, PurgerKeeps
<1>3. CASE Schedule(p)
  <2>1. proc' = [proc EXCEPT ![p] = Idle] /\ UNCHANGED <<lock, purged, hardPurged>>
    BY <1>3 DEF Schedule, Rest, history
  <2>2. lock # p
    BY <1>0, <1>3, UnderWay DEF Schedule, At
  <2>3. PurgeTakesEffect'
    BY <1>1, <2>1, Typed DEF PurgeTakesEffect, Since
  <2>4. /\ version' \in Versions /\ version <= version' /\ Idle.no <= version'
        /\ purged' \in Versions /\ hardPurged' \in Versions
        /\ hardPurged' <= purged' /\ purged' <= version'
        /\ lock' \in Actor \cup {None} /\ gone' \in BOOLEAN
        /\ dir' \in BOOLEAN /\ queued' \in BOOLEAN /\ faults' \in 0..MaxFaults
    BY <1>1, <2>1, Typed, AtRest
  <2> QED
    BY <1>1, <2>1, <2>2, <2>3, <2>4, AtRest, PurgerKeeps
<1>4. ASSUME NEW done \in BOOLEAN, Returned(p, done), lock' # p,
             \A b \in Actor : b # p => (lock' = b <=> lock = b), lock' \in Actor \cup {None},
             done => /\ Since(html', proc[p].no) /\ Since(gz', proc[p].no)
                     /\ proc[p].kind \in {"hard", "all"} => Since(stale', proc[p].no)
      PROVE  IInv'
  <2>1. PICK q \in Process :
            /\ proc' = [proc EXCEPT ![p] = q] /\ PurgerOK(q) /\ q.no <= version
            /\ OfKind(q) /\ HalfDone(q)' /\ q.pc \notin {"swap", "unlock"}
    BY <1>0, <1>4, ReturnedOK
  <2>2. /\ purged' \in Versions /\ hardPurged' \in Versions
        /\ hardPurged' <= purged' /\ purged' <= version
        /\ purged' = purged \/ (done /\ purged' = proc[p].no)
        /\ \/ hardPurged' = hardPurged
           \/ done /\ proc[p].kind \in {"hard", "all"} /\ hardPurged' = proc[p].no
    BY <1>0, <1>4, ReturnedOK
  <2>3. PurgeTakesEffect'
    <3>1. Since(html', purged')
      BY <1>1, <1>4, <2>2, Typed DEF PurgeTakesEffect
    <3>2. Since(gz', purged')
      BY <1>1, <1>4, <2>2, Typed DEF PurgeTakesEffect, Since
    <3>3. Since(stale', hardPurged')
      BY <1>1, <1>4, <2>2, Typed DEF PurgeTakesEffect
    <3> QED
      BY <3>1, <3>2, <3>3 DEF PurgeTakesEffect, Since
  <2>4. /\ version' \in Versions /\ version <= version' /\ q.no <= version'
        /\ purged' <= version' /\ gone' \in BOOLEAN
        /\ dir' \in BOOLEAN /\ queued' \in BOOLEAN /\ faults' \in 0..MaxFaults
    BY <1>1, <2>1, <2>2, Typed
  <2> QED
    BY <1>1, <1>4, <2>1, <2>2, <2>3, <2>4, PurgerKeeps
<1>5. CASE PurgeTwin(p)
  <2>1. Returned(p, TRUE) /\ gz' = None /\ lock' = lock /\ lock # p
    BY <1>0, <1>5, UnderWay DEF PurgeTwin, At
  <2>2. /\ Since(html', proc[p].no) /\ Since(gz', proc[p].no)
        /\ proc[p].kind \in {"hard", "all"} => Since(stale', proc[p].no)
    BY <1>0, <1>1, <1>5, <2>1, UnderWay DEF PurgeTwin, At, OfKind, HalfDone, Since
  <2> QED
    BY <2>1, <2>2, <1>4, Typed
<1>6. CASE TakeLock(p) /\ lock # None
  <2>1. Returned(p, FALSE) /\ lock' = lock /\ lock # p
    BY <1>0, <1>6, UnderWay DEF TakeLock, At
  <2> QED
    BY <2>1, <1>4, Typed
<1>7. CASE Unlock(p)
  <2>1. Returned(p, TRUE) /\ lock' = None /\ lock = p /\ gz' = gz /\ lock' # p
    BY <1>0, <1>7, UnderWay, ActorsDiffer DEF Unlock, At, files
  <2>2. Since(html', proc[p].no) /\ Since(gz', proc[p].no) /\ Since(stale', proc[p].no)
    BY <1>0, <1>1, <1>7, <2>1, UnderWay DEF Unlock, At, HalfDone, Since
  <2>3. \A b \in Actor : b # p => (lock' = b <=> lock = b)
    BY <2>1, Typed
  <2> QED
    BY <2>1, <2>2, <2>3, <1>4
<1> QED
  BY <1>2, <1>3, <1>5, <1>6, <1>7

-----------------------------------------------------------------------------
(* Time, killed requests, and the theorems.                                    *)

\* Growing old changes what a file may be used for, not when it was written.
LEMMA AgedOK ==
    ASSUME NEW f \in File \cup {None}
    PROVE  /\ Aged(f) \in File \cup {None}
           /\ Aged(f) = None \/ Aged(f).at = f.at
           /\ f = None => Aged(f) = None
<1>1. CASE f = None
  BY <1>1 DEF Aged
<1>2. CASE f # None
  <2>1. f \in File
    BY <1>2
  <2>2. Aged(f) = [f EXCEPT !.age = IF @ < Expired THEN @ + 1 ELSE @]
    BY <1>2 DEF Aged
  <2>3. f.age < Expired => f.age + 1 \in {Fresh, Old, Expired}
    BY <2>1 DEF File, Fresh, Old, Expired
  <2>4. (IF f.age < Expired THEN f.age + 1 ELSE f.age) \in {Fresh, Old, Expired}
    BY <2>1, <2>3 DEF File
  <2> QED
    BY <1>2, <2>1, <2>2, <2>4 DEF File
<1> QED
  BY <1>1, <1>2

LEMMA TimeKeeps == ASSUME IInv, TimePasses PROVE IInv'
<1>1. TypeOK
  BY DEF IInv
<1>2. /\ Aged(html) \in File \cup {None}
      /\ Aged(html) = None \/ Aged(html).at = html.at
      /\ Aged(stale) \in File \cup {None}
      /\ Aged(stale) = None \/ Aged(stale).at = stale.at
      /\ html = None => Aged(html) = None
      /\ stale = None => Aged(stale) = None
  BY <1>1, AgedOK DEF TypeOK
<1>3. /\ html' = Aged(html) /\ stale' = Aged(stale) /\ gz' = gz
      /\ UNCHANGED <<version, gone, dir, lock, proc, queued, event, purged, hardPurged, faults>>
  BY DEF TimePasses, history
<1>4. TypeOK'
  BY <1>1, <1>2, <1>3 DEF TypeOK
<1>5. LockIsHeld' /\ PurgesArePast' /\ StepsOfKind'
  BY <1>3 DEF IInv, LockIsHeld, Locked, At, PurgesArePast, StepsOfKind
<1>6. \A no : /\ Since(html, no) => Since(html', no)
              /\ Since(stale, no) => Since(stale', no)
              /\ Since(gz, no) => Since(gz', no)
  BY <1>2, <1>3 DEF Since
<1>7. PurgeTakesEffect'
  <2>1. PurgeTakesEffect
    BY DEF IInv
  <2> QED
    BY <2>1, <1>3, <1>6 DEF PurgeTakesEffect, Since
<1>8. HalfPurged'
  <2> SUFFICES ASSUME NEW p \in Purger PROVE HalfDone(proc[p])'
    BY DEF HalfPurged
  <2>1. HalfDone(proc[p])
    BY DEF IInv, HalfPurged
  <2> QED
    BY <2>1, <1>3, <1>6 DEF HalfDone, Since
<1> QED
  BY <1>4, <1>5, <1>7, <1>8 DEF IInv

LEMMA CrashKeeps == ASSUME IInv, NEW a \in Actor, Crash(a) PROVE IInv'
<1>1. /\ proc' = [proc EXCEPT ![a] = Idle]
      /\ UNCHANGED <<version, gone, html, gz, stale, dir, queued, event, purged, hardPurged>>
      /\ lock' = IF lock = a THEN None ELSE lock
      /\ faults < MaxFaults /\ faults' = faults + 1
  BY DEF Crash, Rest, files, history
<1>2. faults' \in 0..MaxFaults
  BY <1>1, Typed
<1>3. lock' \in Actor \cup {None} /\ lock' # a /\ \A b \in Actor : b # a => (lock' = b <=> lock = b)
  BY <1>1, Typed
<1>4. TypeOK
  BY DEF IInv
<1>5. CASE a \in Renderer
  <2>1. Idle.pc \in Reading \cup Writing /\ Idle.pc # "unprobe" /\ Idle.pc \notin Writing
    BY IdleOK DEF Reading, Writing
  <2>2. /\ html' \in File \cup {None} /\ gz' \in File \cup {None} /\ stale' \in {stale, None}
        /\ dir' \in BOOLEAN /\ queued' \in BOOLEAN /\ event' \in BOOLEAN
    BY <1>1, <1>4 DEF TypeOK
  <2>3. UNCHANGED <<version, gone, history>> /\ html' = html /\ gz' = gz
    BY <1>1 DEF history
  <2> QED
    BY <1>1, <1>2, <1>3, <1>5, <2>1, <2>2, <2>3, AtRest, RendererKeeps
<1>6. CASE a \in Purger
  <2>1. PurgeTakesEffect'
    BY <1>1, Typed DEF PurgeTakesEffect, Since
  <2>2. /\ version' \in Versions /\ version <= version' /\ Idle.no <= version'
        /\ purged' \in Versions /\ hardPurged' \in Versions
        /\ hardPurged' <= purged' /\ purged' <= version' /\ gone' \in BOOLEAN
        /\ dir' \in BOOLEAN /\ queued' \in BOOLEAN /\ event' \in BOOLEAN
    BY <1>1, Typed, AtRest
  <2>3. html' \in {html, None} /\ gz' \in {gz, None} /\ stale' \in {stale, html, None}
    BY <1>1
  <2> QED
    BY <1>1, <1>2, <1>3, <1>6, <2>1, <2>2, <2>3, AtRest, PurgerKeeps
<1> QED
  BY <1>5, <1>6 DEF Actor

LEMMA StutterKeeps == IInv /\ UNCHANGED vars => IInv'
BY DEF IInv, TypeOK, LockIsHeld, Locked, At, PurgeTakesEffect, Since, PurgesArePast, StepsOfKind,
       HalfPurged, HalfDone, OfKind, vars, files, history

LEMMA NextInv == IInv /\ [Next]_vars => IInv'
<1> SUFFICES ASSUME IInv, [Next]_vars PROVE IInv'
  OBVIOUS
<1>1. CASE \E r \in Renderer : VisitStale(r) \/ VisitMiss(r) \/ CronRun(r) \/ WriteStep(r)
  BY <1>1, VisitKeeps, WriteKeeps DEF WriteStep
<1>2. CASE \E p \in Purger : Change(p) \/ PurgeStep(p)
  BY <1>2, ChangeKeeps, PurgeKeeps, ReturnKeeps DEF PurgeStep
<1>3. CASE TimePasses
  BY <1>3, TimeKeeps
<1>4. CASE \E a \in Actor : Crash(a)
  BY <1>4, CrashKeeps
<1>5. CASE UNCHANGED vars
  BY <1>5, StutterKeeps
<1> QED
  BY <1>1, <1>2, <1>3, <1>4, <1>5 DEF Next

LEMMA SpecInv == Spec => []IInv
BY InitInv, NextInv, PTL DEF Spec

\* The shape of the state, for any number of requests.
THEOREM TypeCorrect == Spec => []TypeOK
<1>1. IInv => TypeOK
  BY DEF IInv
<1> QED
  BY <1>1, SpecInv, PTL

\* A purge takes effect, whatever is rendered, written, swapped or killed beside it: no file on
\* disk was written before the last change whose purge went through (write_cache's lock probe is
\* no part of the argument; the order of the file operations is).
THEOREM PurgeEffective == Spec => []PurgeTakesEffect
<1>1. IInv => PurgeTakesEffect
  BY DEF IInv
<1> QED
  BY <1>1, SpecInv, PTL

\* The purge lock is held by the one request that is between taking and releasing it: a killed
\* request leaves none behind (flock).
THEOREM LockHasOneHolder == Spec => []LockIsHeld
<1>1. IInv => LockIsHeld
  BY DEF IInv
<1> QED
  BY <1>1, SpecInv, PTL

-----------------------------------------------------------------------------
(* The warm queue.                                                             *)

LEMMA QueueInv == TypeOK /\ QueueHasRun /\ [Next]_vars => QueueHasRun'
<1> SUFFICES ASSUME TypeOK, QueueHasRun, [Next]_vars, queued', faults' = 0
             PROVE  \/ event'
                    \/ \E r \in Renderer : At(r, "readqueue")' \/ At(r, "emptyqueue")'
                    \/ \E p \in Purger : At(p, "schedule")'
  BY DEF QueueHasRun
<1>0. faults \in Nat
  BY DEF TypeOK
<1>1. CASE \E a \in Actor : Crash(a)
  BY <1>0, <1>1 DEF Crash
<1>2. CASE TimePasses \/ UNCHANGED vars
  BY <1>2 DEF TimePasses, vars, QueueHasRun, At
<1>3. ASSUME NEW p \in Purger, Change(p) \/ PurgeStep(p)
      PROVE  \/ event'
             \/ \E r \in Renderer : At(r, "readqueue")' \/ At(r, "emptyqueue")'
             \/ \E x \in Purger : At(x, "schedule")'
  <2>1. CASE Schedule(p)
    BY <2>1 DEF Schedule
  <2>2. CASE Enqueue(p)
    <3>1. At(p, "schedule")'
      <4>1. proc' = [proc EXCEPT ![p] = [proc[p] EXCEPT !.pc = "schedule"]]
        BY <2>2 DEF Enqueue, Goto
      <4>2. proc[p] \in Process /\ p \in Actor
        BY ActorsDiffer DEF TypeOK
      <4> QED
        BY <4>1, <4>2 DEF At, TypeOK, Process
    <3> QED
      BY <3>1
  <2>3. CASE Change(p) \/ PurgePage(p) \/ PurgeStale(p) \/ PurgeTwin(p) \/ TakeLock(p)
             \/ SwapPages(p) \/ Unlock(p)
    <3>1. queued' = queued /\ event' = event /\ faults' = faults /\ ~At(p, "schedule")
      BY <2>3 DEF Change, PurgePage, PurgeStale, PurgeTwin, TakeLock, SwapPages, Unlock, At
    <3>2. \A b \in Actor : b # p => proc'[b] = proc[b]
      BY <2>3, ActorsDiffer
         DEF TypeOK, Change, PurgePage, PurgeStale, PurgeTwin, TakeLock, SwapPages, Unlock,
             Returned, Goto, Rest
    <3> QED
      BY <3>1, <3>2, ActorsDiffer DEF QueueHasRun, At
  <2> QED
    BY <1>3, <2>1, <2>2, <2>3 DEF PurgeStep
<1>4. ASSUME NEW r \in Renderer, VisitStale(r) \/ VisitMiss(r) \/ CronRun(r) \/ WriteStep(r)
      PROVE  \/ event'
             \/ \E x \in Renderer : At(x, "readqueue")' \/ At(x, "emptyqueue")'
             \/ \E p \in Purger : At(p, "schedule")'
  <2>1. ASSUME NEW pc, Goto(r, pc) PROVE At(r, pc)'
    <3>1. proc' = [proc EXCEPT ![r] = [proc[r] EXCEPT !.pc = pc]]
      BY <2>1 DEF Goto
    <3>2. proc[r] \in Process /\ r \in Actor
      BY ActorsDiffer DEF TypeOK
    <3> QED
      BY <3>1, <3>2 DEF At, TypeOK, Process
  <2>2. CASE CronRun(r)
    BY <2>1, <2>2 DEF CronRun
  <2>3. CASE ReadQueue(r)
    <3>1. queued
      BY <2>3 DEF ReadQueue
    <3> QED
      BY <2>1, <2>3, <3>1 DEF ReadQueue
  <2>4. CASE EmptyQueue(r)
    BY <2>4 DEF EmptyQueue
  <2>5. CASE VisitStale(r) \/ VisitMiss(r) \/ MakeDir(r) \/ Probe(r) \/ EndProbe(r)
             \/ WriteTwin(r) \/ WritePage(r) \/ DropStale(r)
    <3>1. /\ queued' = queued /\ event' = event
          /\ ~At(r, "readqueue") /\ ~At(r, "emptyqueue")
      BY <2>5 DEF VisitStale, VisitMiss, MakeDir, Probe, EndProbe, WriteTwin, WritePage,
                  DropStale, At
    <3>2. faults = 0
      <4>1. faults' = faults \/ faults' = faults + 1
        BY <2>5 DEF VisitStale, VisitMiss, MakeDir, Probe, EndProbe, WriteTwin, WritePage,
                    DropStale
      <4> QED
        BY <1>0, <4>1
    <3>3. \A b \in Actor : b # r => proc'[b] = proc[b]
      BY <2>5, ActorsDiffer
         DEF TypeOK, VisitStale, VisitMiss, MakeDir, Probe, EndProbe, WriteTwin, WritePage,
             DropStale, Render, Goto, Rest
    <3> QED
      BY <3>1, <3>2, <3>3, ActorsDiffer DEF QueueHasRun, At
  <2> QED
    BY <1>4, <2>2, <2>3, <2>4, <2>5 DEF WriteStep
<1> QED
  BY <1>1, <1>2, <1>3, <1>4 DEF Next

\* While nobody is killed, what is queued for the warmer has a run coming: CacheWarmer::run may
\* read the queue, empty it and lose what is queued in between, but never the run.
THEOREM WarmQueueHasRun == Spec => []QueueHasRun
<1>1. Init => QueueHasRun
  BY DEF Init, QueueHasRun
<1> QED
  BY <1>1, QueueInv, TypeCorrect, PTL DEF Spec

-----------------------------------------------------------------------------
(***************************************************************************)
(* Sums over finite sets                                                   *)
(***************************************************************************)
Sum(f, S) == V!SumFunctionOnSet(f, S)
\* The library's fold, named: it takes some member, and the rest.
Some(s) == CHOOSE x \in s : TRUE
Loop(f, S, g) == g = [s \in SUBSET S |-> IF s = {} THEN 0 ELSE f[Some(s)] + g[s \ {Some(s)}]]
Iter(f, S) == CHOOSE g : Loop(f, S, g)

LEMMA SumIter == \A f, S : Sum(f, S) = Iter(f, S)[S]
  BY DEF Sum, V!SumFunctionOnSet, V!FoldFunctionOnSet, V!MapThenFoldSet, Iter, Loop, Some

LEMMA Least ==
  ASSUME NEW S \in SUBSET Nat, S # {}
  PROVE  \E i \in S : \A j \in S : i <= j
<1> DEFINE R == OpToRel(<, Nat)
<1>1. IsWellFoundedOn(R, Nat)
  BY NatLessThanWellFounded
<1>2. \A a, b \in Nat : a < b => <<a, b>> \in R
  BY DEF R, OpToRel
<1> HIDE DEF R
<1>3. PICK i \in S : \A j \in S : ~ (<<j, i>> \in R)
  BY <1>1, WFMin
<1>4. \A j \in S : i \in Nat /\ j \in Nat /\ ~(j < i)
  BY <1>2, <1>3
<1>5. \A j \in S : i <= j
  BY <1>4
<1> QED
  BY <1>5

\* A family of finite sets with a member has a smallest one.
LEMMA Smallest ==
  ASSUME NEW F, \A s \in F : IsFiniteSet(s), F # {}
  PROVE  \E s \in F : \A t \in F : Cardinality(s) <= Cardinality(t)
<1> DEFINE N == {Cardinality(s) : s \in F}
<1>1. N \in SUBSET Nat /\ N # {}
  BY FS_CardinalityType
<1>2. PICK i \in N : \A j \in N : i <= j
  BY <1>1, Least
<1> QED
  BY <1>2

\* To take a member out makes a smaller set.
LEMMA Smaller ==
  ASSUME NEW s, IsFiniteSet(s), NEW x \in s
  PROVE  /\ IsFiniteSet(s \ {x}) /\ ~(Cardinality(s) <= Cardinality(s \ {x}))
         /\ s \ {x} \subseteq s /\ s \ {x} # s
<1>1. IsFiniteSet(s \ {x}) /\ Cardinality(s \ {x}) = Cardinality(s) - 1
  BY FS_RemoveElement
<1>2. Cardinality(s) \in Nat
  BY FS_CardinalityType
<1> QED
  BY <1>1, <1>2

LEMMA SomeIn == \A s : s # {} => Some(s) \in s
  BY DEF Some

Unfolds(f, s) == Sum(f, s) = IF s = {} THEN 0 ELSE f[Some(s)] + Sum(f, s \ {Some(s)})

\* The loop has a solution, and it is the sums themselves.
LEMMA SumUnfolds ==
  ASSUME NEW f, NEW S, IsFiniteSet(S)
  PROVE  Unfolds(f, S)
<1> DEFINE Bad == {s \in SUBSET S : ~Unfolds(f, s)}
<1> SUFFICES ASSUME Bad # {} PROVE FALSE
  OBVIOUS
<1>1. \A s \in SUBSET S : IsFiniteSet(s)
  BY FS_Subset
<1>2. PICK s \in Bad : \A t \in Bad : Cardinality(s) <= Cardinality(t)
  BY <1>1, Smallest
<1> HIDE DEF Bad
<1>3. IsFiniteSet(s) /\ s \subseteq S /\ ~Unfolds(f, s)
  BY <1>1, <1>2 DEF Bad
<1>4. \A t \in SUBSET s : t # s => Unfolds(f, t)
  <2> TAKE t \in SUBSET s
  <2> HAVE t # s
  <2>1. ~(Cardinality(s) <= Cardinality(t))
    BY <1>3, FS_Subset, FS_CardinalityType
  <2> QED
    BY <1>2, <1>3, <2>1 DEF Bad
<1> DEFINE g == [t \in SUBSET s |-> IF t # s THEN Sum(f, t)
                                   ELSE IF s = {} THEN 0
                                   ELSE f[Some(s)] + Sum(f, s \ {Some(s)})]
<1>5. Loop(f, s, g)
  <2> SUFFICES ASSUME NEW t \in SUBSET s
               PROVE  g[t] = IF t = {} THEN 0 ELSE f[Some(t)] + g[t \ {Some(t)}]
    BY DEF Loop
  <2>1. t # {} => t \ {Some(t)} \in SUBSET s /\ t \ {Some(t)} # s
    BY SomeIn
  <2> QED
    BY <2>1, <1>4 DEF Unfolds
<1> HIDE DEF g
<1> DEFINE h == Iter(f, s)
<1>6. Loop(f, s, h)
  BY <1>5 DEF Iter
<1>7. Sum(f, s) = h[s]
  BY SumIter
<1> HIDE DEF h
<1>8. \A t \in SUBSET s : h[t] = IF t = {} THEN 0 ELSE f[Some(t)] + h[t \ {Some(t)}]
  BY <1>6 DEF Loop
<1>9. \A t \in SUBSET s : t # s => h[t] = Sum(f, t)
  <2> DEFINE Off == {t \in SUBSET s : t # s /\ h[t] # Sum(f, t)}
  <2> SUFFICES ASSUME Off # {} PROVE FALSE
    OBVIOUS
  <2>1. PICK t \in Off : \A u \in Off : Cardinality(t) <= Cardinality(u)
    BY <1>1, <1>3, FS_Subset, Smallest
  <2>2. t # {}
    BY <1>8, <1>4, <2>1 DEF Unfolds
  <2>3. IsFiniteSet(t)
    BY <1>1, <1>3, <2>1
  <2> DEFINE u == t \ {Some(t)}
  <2>4. ~(Cardinality(t) <= Cardinality(u)) /\ u \subseteq t
    BY <2>2, <2>3, SomeIn, Smaller
  <2>5. u \in SUBSET s /\ u # s
    BY <2>1, <2>2, SomeIn
  <2>6. h[u] = Sum(f, u)
    BY <2>1, <2>4, <2>5
  <2>7. Sum(f, t) = f[Some(t)] + Sum(f, u)
    BY <1>4, <2>1, <2>2 DEF Unfolds
  <2>8. h[t] = f[Some(t)] + h[u]
    BY <1>8, <2>1, <2>2
  <2> QED
    BY <2>1, <2>6, <2>7, <2>8
<1>10. s # {} => s \ {Some(s)} \in SUBSET s /\ s \ {Some(s)} # s
  BY SomeIn
<1>11. Unfolds(f, s)
  BY <1>7, <1>8, <1>9, <1>10 DEF Unfolds
<1> QED
  BY <1>3, <1>11

LEMMA SumOfNone == \A f : Sum(f, {}) = 0
  BY SumUnfolds, FS_EmptySet DEF Unfolds

LEMMA SumIsNat ==
  ASSUME NEW D, NEW f \in [D -> Nat], NEW S \in SUBSET D, IsFiniteSet(S)
  PROVE  Sum(f, S) \in Nat
<1> DEFINE Bad == {s \in SUBSET S : Sum(f, s) \notin Nat}
<1> SUFFICES ASSUME Bad # {} PROVE FALSE
  OBVIOUS
<1>1. PICK s \in Bad : \A t \in Bad : Cardinality(s) <= Cardinality(t)
  BY FS_Subset, Smallest
<1>2. IsFiniteSet(s)
  BY <1>1, FS_Subset
<1>3. s # {}
  BY <1>1, SumOfNone
<1>4. s \ {Some(s)} \notin Bad /\ s \ {Some(s)} \in SUBSET S
  BY <1>1, <1>2, <1>3, SomeIn, Smaller
<1>5. Sum(f, s \ {Some(s)}) \in Nat
  BY <1>4
<1>6. f[Some(s)] \in Nat
  BY <1>1, <1>3, SomeIn
<1>7. Sum(f, s) = f[Some(s)] + Sum(f, s \ {Some(s)})
  BY <1>2, <1>3, SumUnfolds DEF Unfolds
<1> QED
  BY <1>1, <1>5, <1>6, <1>7

\* Whichever member is taken first.
LEMMA SumTakes ==
  ASSUME NEW D, NEW f \in [D -> Nat], NEW S \in SUBSET D, IsFiniteSet(S), NEW x \in S
  PROVE  Sum(f, S) = f[x] + Sum(f, S \ {x})
<1> DEFINE Fine(s) == \A y \in s : Sum(f, s) = f[y] + Sum(f, s \ {y})
           Bad == {s \in SUBSET S : ~Fine(s)}
<1> SUFFICES ASSUME Bad # {} PROVE FALSE
  OBVIOUS
<1>1. PICK s \in Bad : \A t \in Bad : Cardinality(s) <= Cardinality(t)
  BY FS_Subset, Smallest
<1>2. IsFiniteSet(s) /\ s \in SUBSET S
  BY <1>1, FS_Subset
<1>3. PICK y \in s : Sum(f, s) # f[y] + Sum(f, s \ {y})
  BY <1>1
<1> DEFINE c == Some(s)
<1>4. c \in s /\ Sum(f, s) = f[c] + Sum(f, s \ {c})
  BY <1>2, <1>3, SumUnfolds, SomeIn DEF Unfolds
<1>5. c # y
  BY <1>3, <1>4
<1>6. Fine(s \ {c}) /\ Fine(s \ {y})
  BY <1>1, <1>2, <1>4, Smaller
<1> HIDE DEF c, Bad
<1>7. Sum(f, s \ {c}) = f[y] + Sum(f, (s \ {c}) \ {y})
  BY <1>5, <1>6
<1>8. Sum(f, s \ {y}) = f[c] + Sum(f, (s \ {y}) \ {c})
  BY <1>4, <1>5, <1>6
<1>9. (s \ {y}) \ {c} = (s \ {c}) \ {y}
  OBVIOUS
<1> DEFINE rest == Sum(f, (s \ {c}) \ {y})
<1>10. rest \in Nat /\ f[c] \in Nat /\ f[y] \in Nat
  <2>1. (s \ {c}) \ {y} \in SUBSET D /\ IsFiniteSet((s \ {c}) \ {y})
    BY <1>2, FS_Subset
  <2> QED
    BY <1>2, <1>4, <2>1, SumIsNat
<1> HIDE DEF rest
<1>11. Sum(f, s) = f[c] + (f[y] + rest) /\ Sum(f, s \ {y}) = f[c] + rest
  BY <1>4, <1>7, <1>8, <1>9 DEF rest
<1>12. f[c] + (f[y] + rest) = f[y] + (f[c] + rest)
  BY <1>10
<1> QED
  BY <1>3, <1>11, <1>12

\* Over fewer members, and of a smaller function.
LEMMA SumGrows ==
  ASSUME NEW D, NEW f \in [D -> Nat], NEW g \in [D -> Nat], NEW S \in SUBSET D, IsFiniteSet(S),
         NEW T \in SUBSET S, \A x \in T : f[x] <= g[x]
  PROVE  Sum(f, T) <= Sum(g, S)
<1> DEFINE Bad == {s \in SUBSET S : ~(Sum(f, s \cap T) <= Sum(g, s))}
<1>0. S \cap T = T
  OBVIOUS
<1> SUFFICES ASSUME Bad # {} PROVE FALSE
  BY <1>0
<1>1. PICK s \in Bad : \A t \in Bad : Cardinality(s) <= Cardinality(t)
  BY FS_Subset, Smallest
<1>2. IsFiniteSet(s) /\ s \in SUBSET S
  BY <1>1, FS_Subset
<1>3. PICK x : x \in s
  <2>1. Sum(f, {} \cap T) <= Sum(g, {})
    BY SumOfNone
  <2> QED
    BY <1>1, <2>1
<1>4. Sum(f, (s \ {x}) \cap T) <= Sum(g, s \ {x})
  BY <1>1, <1>2, <1>3, Smaller
<1>5. Sum(g, s) = g[x] + Sum(g, s \ {x})
  BY <1>2, <1>3, SumTakes
<1>6. IsFiniteSet(s \cap T) /\ IsFiniteSet(s \ {x}) /\ IsFiniteSet((s \ {x}) \cap T)
  BY <1>2, FS_Subset
<1>7. Sum(g, s \ {x}) \in Nat /\ Sum(f, (s \ {x}) \cap T) \in Nat /\ g[x] \in Nat /\ f[x] \in Nat
  BY <1>2, <1>3, <1>6, SumIsNat
<1>8. CASE x \in T
  <2>1. (s \cap T) \ {x} = (s \ {x}) \cap T
    OBVIOUS
  <2>2. Sum(f, s \cap T) = f[x] + Sum(f, (s \ {x}) \cap T)
    BY <1>3, <1>6, <1>8, <2>1, SumTakes
  <2> QED
    BY <1>1, <1>4, <1>5, <1>7, <1>8, <2>2
<1>9. CASE x \notin T
  <2>1. s \cap T = (s \ {x}) \cap T
    BY <1>9
  <2> QED
    BY <1>1, <1>4, <1>5, <1>7, <2>1
<1> QED
  BY <1>8, <1>9

\* A sum to which at most one has been added, at one place.
LEMMA SumRisesByOne ==
  ASSUME NEW D, NEW f \in [D -> Nat], NEW g \in [D -> Nat], NEW S \in SUBSET D, IsFiniteSet(S),
         NEW k \in D, g[k] <= f[k] + 1, \A x \in S : x # k => g[x] <= f[x]
  PROVE  Sum(g, S) <= Sum(f, S) + 1
<1>1. Sum(f, S) \in Nat
  BY SumIsNat
<1>2. CASE k \notin S
  <2>1. Sum(g, S) <= Sum(f, S) /\ Sum(g, S) \in Nat
    BY <1>2, SumGrows, SumIsNat
  <2> QED
    BY <1>1, <2>1
<1>3. CASE k \in S
  <2>1. IsFiniteSet(S \ {k})
    BY FS_Subset
  <2>2. Sum(g, S \ {k}) <= Sum(f, S \ {k})
    <3>1. S \ {k} \in SUBSET D /\ S \ {k} \in SUBSET (S \ {k}) /\ \A x \in S \ {k} : g[x] <= f[x]
      OBVIOUS
    <3> QED
      BY <2>1, <3>1, SumGrows
  <2>3. Sum(g, S \ {k}) \in Nat /\ Sum(f, S \ {k}) \in Nat
    BY <2>1, SumIsNat
  <2>4. Sum(g, S) = g[k] + Sum(g, S \ {k}) /\ Sum(f, S) = f[k] + Sum(f, S \ {k})
    BY <1>3, SumTakes
  <2> QED
    BY <2>2, <2>3, <2>4
<1> QED
  BY <1>2, <1>3

LEMMA SumOfZeros ==
  ASSUME NEW D, NEW f \in [D -> Nat], NEW S \in SUBSET D, IsFiniteSet(S), \A x \in S : f[x] = 0
  PROVE  Sum(f, S) = 0
<1> DEFINE Bad == {s \in SUBSET S : Sum(f, s) # 0}
<1> SUFFICES ASSUME Bad # {} PROVE FALSE
  OBVIOUS
<1>1. PICK s \in Bad : \A t \in Bad : Cardinality(s) <= Cardinality(t)
  BY FS_Subset, Smallest
<1>2. IsFiniteSet(s) /\ s \in SUBSET S
  BY <1>1, FS_Subset
<1>3. PICK x : x \in s
  BY <1>1, SumOfNone
<1>4. Sum(f, s \ {x}) = 0
  BY <1>1, <1>2, <1>3, Smaller
<1>5. Sum(f, s) = f[x] + Sum(f, s \ {x})
  BY <1>2, <1>3, SumTakes
<1> QED
  BY <1>1, <1>2, <1>3, <1>4, <1>5

-----------------------------------------------------------------------------
(***************************************************************************)
(* Time                                                                    *)
(***************************************************************************)
USE DEF V!vars, V!file, V!conf, V!edge, V!hist

\* How a time divides into whole hours.
LEMMA Dividing ==
  ASSUME NEW a \in Nat, NEW d \in Nat \ {0}
  PROVE  a \div d \in Nat /\ d * (a \div d) <= a /\ a < d * (a \div d) + d
OBVIOUS

LEMMA Times ==
  ASSUME NEW a \in Nat, NEW b \in Nat, NEW d \in Nat
  PROVE  /\ a * d \in Nat /\ (a + b) * d = a * d + b * d /\ (a <= b => a * d <= b * d)
         /\ a * d = d * a /\ (a + 1) * d = a * d + d
OBVIOUS

LEMMA HoursPass ==
  ASSUME NEW a \in Nat, NEW b \in Nat, NEW d \in Nat \ {0}, a <= b
  PROVE  a \div d <= b \div d
<1> DEFINE p == a \div d
           q == b \div d
<1>1. p \in Nat /\ q \in Nat /\ d * p <= a /\ b < d * q + d
  BY Dividing
<1> HIDE DEF p, q
<1> SUFFICES ASSUME q + 1 <= p PROVE FALSE
  BY <1>1 DEF p, q
<1>2. (q + 1) * d <= p * d /\ (q + 1) * d = q * d + d /\ p * d = d * p /\ q * d = d * q
  BY <1>1, Times
<1>3. d * q \in Nat /\ d * p \in Nat
  BY <1>1
<1> QED
  BY <1>1, <1>2, <1>3

-----------------------------------------------------------------------------
(***************************************************************************)
(* The views of rum.json                                                   *)
(***************************************************************************)
USE DEF V!Hour

Count == [v : Nat, e : Nat]
Rum == [V!Hour -> [Mode -> Count]]
Beacons == [hours : Rum, mode : Mode, views : {[v |-> 1, e |-> e] : e \in V!Errors}]
Modes == Mode \cup {"none"}
Runs ==
    [pc : {"idle", "read", "store", "judge", "step", "mark"},
     rows : SUBSET [day : V!Day, mode : Mode, views : Count],
     sum : Nat, mode : Modes \cup {None}, views : Nat]

TrafficTyped ==
    /\ now \in 0..MaxTicks
    /\ hours \in Rum
    /\ writer \in Beacons \cup {None}
    /\ mode \in Modes
    /\ stepAt \in 0..now \cup {None}
    /\ cron \in [Cron -> Runs]
    /\ \A c \in Cron : cron[c].pc # "idle" => cron[c].mode \in Modes
    /\ fresh \in [Mode -> Nat]

\* The views of a mode in each hour, and the hours that begin after the last step.
Viewed(f, m) == [h \in V!Hour |-> f[h][m].v]
SinceStep == {h \in V!Hour : stepAt = None \/ h * TicksPerHour > stepAt}

\* A file says nothing of the hours to come, and of those since the step, nothing that has
\* not been recorded since then, except what the writer is about to record.
Sound(f, m, extra) ==
    /\ \A h \in V!Hour : h > V!ThisHour => \A x \in Mode : f[h][x].v = 0
    /\ \A x \in Mode : Sum(Viewed(f, x), SinceStep) <= fresh[x] + (IF x = m THEN extra ELSE 0)

StepKnown(q) ==
    q.pc = "step" => q.mode \in Mode /\ q.views <= fresh[q.mode]

TrafficInv ==
    /\ TrafficTyped
    /\ \A m \in Mode : Sound(hours, m, 0)
    /\ writer # None => Sound(writer.hours, writer.mode, 1)
    /\ \A c \in Cron : StepKnown(cron[c])
    /\ V!DecidedOnFreshViews

USE TrafficAssumption

LEMMA HoursOK ==
  /\ V!Hour \subseteq Nat /\ IsFiniteSet(V!Hour)
  /\ now \in 0..MaxTicks => V!ThisHour \in V!Hour /\ TicksPerHour * V!ThisHour <= now
<1>1. MaxTicks \div TicksPerHour \in Nat
  BY Dividing
<1>2. IsFiniteSet(V!Hour)
  BY <1>1, FS_Interval
<1>3. ASSUME now \in 0..MaxTicks
      PROVE  V!ThisHour \in V!Hour /\ TicksPerHour * V!ThisHour <= now
  <2>1. now \in Nat /\ MaxTicks \in Nat /\ now <= MaxTicks
    BY <1>3
  <2>2. V!ThisHour \in Nat /\ TicksPerHour * V!ThisHour <= now
    BY <2>1, Dividing DEF V!ThisHour
  <2>3. V!ThisHour <= MaxTicks \div TicksPerHour
    BY <2>1, HoursPass DEF V!ThisHour
  <2> QED
    BY <1>1, <2>2, <2>3
<1> QED
  BY <1>1, <1>2, <1>3

LEMMA ViewedOK ==
  ASSUME NEW f \in Rum, NEW m \in Mode
  PROVE  Viewed(f, m) \in [V!Hour -> Nat]
BY DEF Viewed, Rum, Count

LEMMA SumsOK ==
  ASSUME NEW f \in Rum, NEW m \in Mode, NEW S \in SUBSET V!Hour
  PROVE  Sum(Viewed(f, m), S) \in Nat
<1>1. IsFiniteSet(S)
  BY HoursOK, FS_Subset
<1> QED
  BY <1>1, ViewedOK, SumIsNat

\* What the views of a file add up to depends on the file alone.
LEMMA SoundRests ==
  ASSUME NEW f, NEW m, NEW extra, Sound(f, m, extra),
         UNCHANGED <<now, stepAt, fresh>>
  PROVE  Sound(f, m, extra)'
BY DEF Sound, SinceStep, V!ThisHour

LEMMA TrafficBegins == V!Init => TrafficInv
<1> SUFFICES ASSUME V!Init PROVE TrafficInv
  OBVIOUS
<1> USE DEF V!Init
<1>1. V!Idle \in Runs /\ V!Idle.pc = "idle"
  BY DEF V!Idle, Runs
<1>2. hours \in Rum /\ \A h \in V!Hour, x \in Mode : hours[h][x].v = 0
  BY DEF V!Empty, V!Zero, Rum, Count
<1>3. TrafficTyped
  BY <1>1, <1>2 DEF TrafficTyped, Modes
<1>4. ASSUME NEW m \in Mode PROVE Sum(Viewed(hours, m), SinceStep) = 0
  <2>1. Viewed(hours, m) \in [V!Hour -> Nat] /\ \A h \in SinceStep : Viewed(hours, m)[h] = 0
    BY <1>2, ViewedOK DEF Viewed, SinceStep
  <2>2. SinceStep \in SUBSET V!Hour /\ IsFiniteSet(SinceStep)
    BY HoursOK, FS_Subset DEF SinceStep
  <2> QED
    BY <2>1, <2>2, SumOfZeros
<1>5. \A m \in Mode : Sound(hours, m, 0)
  BY <1>2, <1>4 DEF Sound
<1>6. \A c \in Cron : StepKnown(cron[c])
  BY <1>1 DEF StepKnown
<1> QED
  BY <1>3, <1>5, <1>6 DEF TrafficInv, V!DecidedOnFreshViews

\* A reader's step, of the run c.
LEMMA RunMoves ==
  ASSUME TrafficInv, NEW c \in Cron, NEW q \in Runs, cron' = [cron EXCEPT ![c] = q],
         q.pc # "idle" => q.mode \in Modes, StepKnown(q),
         UNCHANGED <<now, hours, writer, stepAt, fresh>>, mode' \in Modes,
         V!DecidedOnFreshViews'
  PROVE  TrafficInv'
<1>1. TrafficTyped'
  BY DEF TrafficInv, TrafficTyped
<1>2. \A m \in Mode : Sound(hours, m, 0)'
  <2>1. \A m \in Mode : Sound(hours, m, 0)
    BY DEF TrafficInv
  <2> QED
    BY <2>1 DEF Sound, SinceStep, V!ThisHour
<1>3. (writer # None => Sound(writer.hours, writer.mode, 1))'
  BY DEF TrafficInv, Sound, SinceStep, V!ThisHour
<1>4. \A d \in Cron : StepKnown(cron[d])'
  BY DEF TrafficInv, TrafficTyped, StepKnown
<1> QED
  BY <1>1, <1>2, <1>3, <1>4 DEF TrafficInv

\* The views and errors that a run adds up.
LEMMA SumOverOK ==
  ASSUME hours \in Rum, NEW m \in Mode, NEW S \in SUBSET V!Hour
  PROVE  V!SumOver(S, m) \in Count /\ V!SumOver(S, m).v = Sum(Viewed(hours, m), S)
<1> DEFINE err == [h \in V!Hour |-> hours[h][m].e]
<1>1. err \in [V!Hour -> Nat]
  BY DEF Rum, Count
<1>2. IsFiniteSet(S)
  BY HoursOK, FS_Subset
<1>3. Sum(err, S) \in Nat
  BY <1>1, <1>2, SumIsNat
<1>4. Sum(Viewed(hours, m), S) \in Nat
  BY SumsOK
<1>5. V!SumOver(S, m) = [v |-> Sum(Viewed(hours, m), S), e |-> Sum(err, S)]
  BY DEF V!SumOver, Sum, Viewed
<1> QED
  BY <1>3, <1>4, <1>5 DEF Count

\* The window of a step that may be taken is within the hours since the last.
LEMMA WindowIsFresh ==
  ASSUME TrafficInv, V!Cooled, NEW m \in Mode
  PROVE  V!SumOver(V!InWindow, m).v <= fresh[m]
<1>1. V!InWindow \in SUBSET SinceStep
  <2> SUFFICES ASSUME NEW h \in V!InWindow, stepAt # None
               PROVE  h * TicksPerHour > stepAt
    BY DEF V!InWindow, SinceStep
  <2>1. h \in Nat /\ (h + Window) * TicksPerHour > now
    BY HoursOK DEF V!InWindow, V!Since
  <2>2. now \in Nat /\ stepAt \in Nat /\ now - stepAt >= Cooldown * TicksPerHour
    BY DEF TrafficInv, TrafficTyped, V!Cooled
  <2>3. /\ (h + Window) * TicksPerHour = h * TicksPerHour + Window * TicksPerHour
        /\ h * TicksPerHour \in Nat
        /\ Window * TicksPerHour \in Nat /\ Cooldown * TicksPerHour \in Nat
        /\ Window * TicksPerHour <= Cooldown * TicksPerHour
    BY <2>1, Times
  <2> QED
    BY <2>1, <2>2, <2>3
<1>2. hours \in Rum /\ Sound(hours, m, 0) /\ fresh[m] \in Nat
  BY DEF TrafficInv, TrafficTyped
<1>3. SinceStep \in SUBSET V!Hour /\ IsFiniteSet(SinceStep)
  BY HoursOK, FS_Subset DEF SinceStep
<1>4. Sum(Viewed(hours, m), V!InWindow) <= Sum(Viewed(hours, m), SinceStep)
  <2>1. Viewed(hours, m) \in [V!Hour -> Nat]
    BY <1>2, ViewedOK
  <2>2. \A h \in V!InWindow : Viewed(hours, m)[h] <= Viewed(hours, m)[h]
    BY <1>1, <1>3, <2>1
  <2> QED
    BY <1>1, <1>3, <2>1, <2>2, SumGrows
<1>5. Sum(Viewed(hours, m), SinceStep) <= fresh[m] + 0
  BY <1>2 DEF Sound
<1>6. Sum(Viewed(hours, m), SinceStep) \in Nat /\ Sum(Viewed(hours, m), V!InWindow) \in Nat
  BY <1>1, <1>2, <1>3, SumsOK
<1>7. V!SumOver(V!InWindow, m).v = Sum(Viewed(hours, m), V!InWindow)
  BY <1>1, <1>2, <1>3, SumOverOK
<1> QED
  BY <1>2, <1>4, <1>5, <1>6, <1>7

\* Who reads what: the push.
LEMMA PushSteps ==
  ASSUME TrafficInv, NEW c \in Cron,
         \/ V!Begin(c) \/ V!Aggregate(c) \/ V!Upsert(c) \/ V!AddUsage(c) \/ V!PushFails(c)
  PROVE  TrafficInv'
<1>1. PICK q \in Runs : q = cron[c] /\ (q.pc # "idle" => q.mode \in Modes)
  BY DEF TrafficInv, TrafficTyped
<1>2. TrafficTyped
  BY DEF TrafficInv
<1>3. CASE V!Begin(c)
  <2> DEFINE n == [V!Idle EXCEPT !.pc = "read", !.mode = mode]
  <2>1. n \in Runs /\ n.pc = "read" /\ n.mode \in Modes
    BY <1>2 DEF TrafficTyped, V!Idle, Runs
  <2>2. cron' = [cron EXCEPT ![c] = n]
    BY <1>3 DEF V!Begin, V!Become
  <2> HIDE DEF n
  <2>3. UNCHANGED <<now, hours, writer, stepAt, fresh, mode, judged>>
    BY <1>3 DEF V!Begin
  <2> QED
    BY <1>2, <2>1, <2>2, <2>3, RunMoves DEF TrafficInv, TrafficTyped, StepKnown, V!DecidedOnFreshViews
<1>4. CASE V!Aggregate(c)
  <2>1. V!Rows \in SUBSET [day : V!Day, mode : Mode, views : Count]
    <3>1. ASSUME NEW d \in V!Day, NEW m \in Mode PROVE V!SumOf(d, m) \in Count
      <4>1. {h \in V!Hour : V!DayOf(h) = d} \in SUBSET V!Hour
        OBVIOUS
      <4> QED
        BY <1>2, <4>1, SumOverOK DEF V!SumOf, TrafficTyped
    <3> QED
      BY <3>1 DEF V!Rows
  <2> DEFINE n == [q EXCEPT !.pc = IF V!Rows = {} THEN "judge" ELSE "store", !.rows = V!Rows]
  <2>2. n \in Runs /\ n.pc # "step" /\ n.mode = q.mode
    BY <2>1 DEF Runs
  <2>3. cron' = [cron EXCEPT ![c] = n] /\ q.pc = "read"
    BY <1>1, <1>4 DEF V!Aggregate, V!Become, V!At
  <2> HIDE DEF n
  <2>4. UNCHANGED <<now, hours, writer, stepAt, fresh, mode, judged>>
    BY <1>4 DEF V!Aggregate
  <2> QED
    BY <1>1, <1>2, <2>2, <2>3, <2>4, RunMoves
       DEF TrafficInv, TrafficTyped, StepKnown, V!DecidedOnFreshViews
<1>5. CASE V!Upsert(c)
  <2>1. PICK x \in q.rows :
            cron' = [cron EXCEPT ![c] = [q EXCEPT !.rows = @ \ {x}, !.sum = @ + x.views.v]]
    BY <1>1, <1>5 DEF V!Upsert, V!Become
  <2> DEFINE n == [q EXCEPT !.rows = @ \ {x}, !.sum = @ + x.views.v]
  <2>2. x.views.v \in Nat
    BY DEF Runs, Count
  <2>3. n \in Runs /\ n.pc = q.pc /\ n.mode = q.mode
    <3>1. q.rows \ {x} \in SUBSET [day : V!Day, mode : Mode, views : Count]
      BY DEF Runs
    <3>2. q.sum + x.views.v \in Nat
      BY <2>2 DEF Runs
    <3>3. n = [q EXCEPT !.rows = q.rows \ {x}, !.sum = q.sum + x.views.v]
      BY DEF Runs
    <3> DEFINE a == q.rows \ {x}
               b == q.sum + x.views.v
    <3> HIDE DEF a, b
    <3>4. [q EXCEPT !.rows = a, !.sum = b] \in Runs /\ n = [q EXCEPT !.rows = a, !.sum = b]
      BY <3>1, <3>2, <3>3 DEF Runs, a, b
    <3> HIDE DEF n
    <3> QED
      BY <3>4 DEF Runs
  <2>4. q.pc = "store"
    BY <1>1, <1>5 DEF V!Upsert, V!At
  <2>5. cron' = [cron EXCEPT ![c] = n]
    BY <2>1
  <2> HIDE DEF n
  <2>6. UNCHANGED <<now, hours, writer, stepAt, fresh, mode, judged>>
    BY <1>5 DEF V!Upsert
  <2> QED
    BY <1>1, <1>2, <2>3, <2>4, <2>5, <2>6, RunMoves
       DEF TrafficInv, TrafficTyped, StepKnown, V!DecidedOnFreshViews
<1>6. CASE V!AddUsage(c) \/ V!PushFails(c)
  <2> DEFINE n == [q EXCEPT !.pc = "judge"]
  <2>1. n \in Runs /\ n.pc = "judge" /\ n.mode = q.mode
    BY DEF Runs
  <2>2. cron' = [cron EXCEPT ![c] = [cron[c] EXCEPT !.pc = "judge"]] /\ q.pc = "store"
    BY <1>1, <1>6, <1>2 DEF V!AddUsage, V!PushFails, V!Goto, V!At, TrafficTyped
  <2>3. cron' = [cron EXCEPT ![c] = n]
    BY <1>1, <2>2
  <2> HIDE DEF n
  <2>4. UNCHANGED <<now, hours, writer, stepAt, fresh, mode, judged>>
    BY <1>6 DEF V!AddUsage, V!PushFails
  <2> QED
    BY <1>1, <1>2, <2>1, <2>2, <2>3, <2>4, RunMoves
       DEF TrafficInv, TrafficTyped, StepKnown, V!DecidedOnFreshViews
<1> QED
  BY <1>3, <1>4, <1>5, <1>6

\* The judgement, and the change of the mode.
LEMMA JudgeSteps ==
  ASSUME TrafficInv, NEW c \in Cron, V!Judge(c) \/ V!SetMode(c)
  PROVE  TrafficInv'
<1>1. PICK q \in Runs : q = cron[c] /\ (q.pc # "idle" => q.mode \in Modes)
  BY DEF TrafficInv, TrafficTyped
<1>2. TrafficTyped /\ V!DecidedOnFreshViews /\ StepKnown(q)
  BY <1>1 DEF TrafficInv
<1>3. CASE V!Judge(c)
  <2>0. UNCHANGED <<now, hours, writer, stepAt, fresh, mode, judged>> /\ q.pc = "judge"
    BY <1>1, <1>3 DEF V!Judge, V!At
  <2>00. mode' \in Modes /\ V!DecidedOnFreshViews'
    BY <1>2, <2>0 DEF TrafficTyped, V!DecidedOnFreshViews
  <2>1. CASE cron' = [cron EXCEPT ![c] = V!Idle]
    <3>1. V!Idle \in Runs /\ V!Idle.pc = "idle"
      BY DEF V!Idle, Runs
    <3>2. StepKnown(V!Idle)
      BY <3>1 DEF StepKnown
    <3> QED
      BY <2>0, <2>00, <2>1, <3>1, <3>2, RunMoves
  <2>2. CASE /\ q.mode # "none" /\ V!Cooled
             /\ cron' = [cron EXCEPT ![c] = [q EXCEPT !.pc = "step", !.views = V!Views(q.mode)]]
    <3>1. q.mode \in Mode
      BY <1>1, <2>0, <2>2 DEF Modes
    <3>2. V!InWindow \in SUBSET V!Hour
      BY DEF V!InWindow
    <3>3. V!Views(q.mode) \in Nat /\ V!Views(q.mode) <= fresh[q.mode]
      BY <1>2, <2>2, <3>1, <3>2, SumOverOK, WindowIsFresh DEF V!Views, TrafficTyped, Count
    <3> DEFINE n == [q EXCEPT !.pc = "step", !.views = V!Views(q.mode)]
    <3>4. n \in Runs /\ n.mode = q.mode /\ n.views = V!Views(q.mode)
      BY <3>3 DEF Runs
    <3>5. cron' = [cron EXCEPT ![c] = n]
      BY <2>2
    <3> HIDE DEF n
    <3>6. n.mode \in Modes /\ StepKnown(n)
      BY <3>1, <3>3, <3>4 DEF Modes, StepKnown
    <3> QED
      BY <2>0, <2>00, <3>4, <3>5, <3>6, RunMoves
  <2> QED
    BY <1>1, <1>3, <2>1, <2>2 DEF V!Judge, V!Become
<1>4. CASE V!SetMode(c)
  <2> DEFINE n == [q EXCEPT !.pc = "mark"]
  <2>1. n \in Runs /\ n.pc = "mark" /\ n.mode = q.mode
    BY DEF Runs
  <2>2. /\ cron' = [cron EXCEPT ![c] = [cron[c] EXCEPT !.pc = "mark"]] /\ q.pc = "step"
        /\ mode' = V!StepMap(q.mode)
        /\ judged' = [counted |-> q.views, fresh |-> fresh[q.mode]]
    BY <1>1, <1>2, <1>4 DEF V!SetMode, V!Goto, V!At, TrafficTyped
  <2>3. cron' = [cron EXCEPT ![c] = n]
    BY <1>1, <2>2
  <2> HIDE DEF n
  <2>4. UNCHANGED <<now, hours, writer, stepAt, fresh>>
    BY <1>4 DEF V!SetMode
  <2>5. q.mode \in Mode /\ q.views <= fresh[q.mode]
    BY <1>2, <2>2 DEF StepKnown
  <2>6. mode' \in Modes
    BY <2>2, <2>5 DEF V!StepMap, Modes
  <2>7. V!DecidedOnFreshViews'
    BY <2>2, <2>5 DEF V!DecidedOnFreshViews
  <2>8. (n.pc # "idle" => n.mode \in Modes) /\ StepKnown(n)
    BY <1>1, <2>1, <2>2 DEF StepKnown
  <2> QED
    BY <2>1, <2>3, <2>4, <2>6, <2>7, <2>8, RunMoves
<1> QED
  BY <1>3, <1>4

\* A step is dated: what was counted for it is before the hours that count from now on.
LEMMA MarkStep ==
  ASSUME TrafficInv, NEW c \in Cron, \A d \in Cron : d = c, V!Mark(c)
  PROVE  TrafficInv'
<1>0. TrafficTyped
  BY DEF TrafficInv
<1>1. /\ UNCHANGED <<now, hours, writer, mode, judged>>
      /\ stepAt' = now /\ fresh' = [m \in Mode |-> 0]
      /\ cron' = [cron EXCEPT ![c] = V!Idle]
  BY DEF V!Mark, V!Become
<1>2. V!Idle \in Runs /\ V!Idle.pc = "idle"
  BY DEF V!Idle, Runs
<1>3. TrafficTyped'
  BY <1>0, <1>1, <1>2 DEF TrafficTyped
<1>4. \A h \in V!Hour : h \in SinceStep' => h > V!ThisHour
  <2> SUFFICES ASSUME NEW h \in V!Hour, h \in SinceStep', ~(h > V!ThisHour)
               PROVE  FALSE
    OBVIOUS
  <2>1. now \in Nat /\ now # None
    BY <1>0 DEF TrafficTyped
  <2>2. h * TicksPerHour > now
    BY <1>1, <2>1 DEF SinceStep
  <2>3. h \in Nat /\ V!ThisHour \in Nat /\ TicksPerHour * V!ThisHour <= now
    BY <1>0, HoursOK DEF TrafficTyped
  <2>4. /\ h * TicksPerHour <= V!ThisHour * TicksPerHour
        /\ V!ThisHour * TicksPerHour = TicksPerHour * V!ThisHour
        /\ h * TicksPerHour \in Nat /\ TicksPerHour * V!ThisHour \in Nat
    BY <2>3, Times
  <2> QED
    BY <2>1, <2>2, <2>3, <2>4
<1>5. ASSUME NEW f \in Rum, NEW m, NEW extra \in Nat, Sound(f, m, extra)
      PROVE  Sound(f, m, extra)'
  <2>1. ASSUME NEW x \in Mode PROVE (Sum(Viewed(f, x), SinceStep) = 0)'
    <3> DEFINE S == SinceStep'
    <3>1. S \in SUBSET V!Hour /\ IsFiniteSet(S)
      BY HoursOK, FS_Subset DEF SinceStep
    <3>2. Viewed(f, x) \in [V!Hour -> Nat]
      BY ViewedOK
    <3>3. \A h \in S : Viewed(f, x)[h] = 0
      BY <1>4, <1>5, <3>1 DEF Sound, Viewed
    <3>4. Sum(Viewed(f, x), S) = 0
      BY <3>1, <3>2, <3>3, SumOfZeros
    <3>5. Viewed(f, x)' = Viewed(f, x)
      BY DEF Viewed
    <3> QED
      BY <3>4, <3>5 DEF Sum
  <2>2. \A x \in Mode : fresh'[x] = 0
    BY <1>1
  <2>3. V!ThisHour' = V!ThisHour
    BY <1>1 DEF V!ThisHour
  <2> QED
    BY <1>5, <2>1, <2>2, <2>3 DEF Sound
<1>6. \A m \in Mode : Sound(hours, m, 0)'
  <2> TAKE m \in Mode
  <2>1. PICK f \in Rum : f = hours
    BY <1>0 DEF TrafficTyped
  <2>2. Sound(f, m, 0)'
    BY <1>5, <2>1 DEF TrafficInv
  <2> QED
    BY <1>1, <2>1, <2>2 DEF Sound
<1>7. (writer # None => Sound(writer.hours, writer.mode, 1))'
  <2> SUFFICES ASSUME writer # None PROVE Sound(writer.hours, writer.mode, 1)'
    BY <1>1
  <2>1. PICK f \in Rum, m \in Mode : f = writer.hours /\ m = writer.mode
    BY <1>0 DEF TrafficTyped, Beacons
  <2>2. Sound(f, m, 1)'
    BY <1>5, <2>1 DEF TrafficInv
  <2> QED
    BY <1>1, <2>1, <2>2 DEF Sound
<1>8. \A d \in Cron : StepKnown(cron[d])'
  BY <1>0, <1>1, <1>2 DEF TrafficTyped, StepKnown
<1>9. V!DecidedOnFreshViews'
  BY <1>1 DEF TrafficInv, V!DecidedOnFreshViews
<1> QED
  BY <1>3, <1>6, <1>7, <1>8, <1>9 DEF TrafficInv

-----------------------------------------------------------------------------
(***************************************************************************)
(* Beacons and the owner                                                   *)
(***************************************************************************)
\* What a beacon is about to write: the file without its oldest hours, and one view more.
LEMMA BeaconStep ==
  ASSUME TrafficInv, NEW m \in Mode, NEW e \in V!Errors, V!Beacon(m, e)
  PROVE  TrafficInv'
<1>0. TrafficTyped
  BY DEF TrafficInv
<1>1. PICK f \in Rum : f = hours
  BY <1>0 DEF TrafficTyped
<1>2. V!ThisHour \in V!Hour
  BY <1>0, HoursOK DEF TrafficTyped
<1> DEFINE k == V!ThisHour
           z == V!Empty
           p == V!Pruned
           y == [v |-> 1, e |-> e]
           g == [p EXCEPT ![k][m] = V!Plus(@, y)]
           w == [hours |-> g, mode |-> m, views |-> y]
<1>3. z \in Rum /\ \A h \in V!Hour, x \in Mode : z[h][x].v = 0
  BY DEF V!Empty, V!Zero, Rum, Count
<1> HIDE DEF z, k
<1>4. p \in Rum /\ \A h \in V!Hour : p[h] = f[h] \/ p[h] = z[h]
  BY <1>1, <1>3 DEF V!Pruned, Rum, z
<1> HIDE DEF p
<1>5. y \in Count /\ y.v = 1
  BY DEF Count, V!Errors
<1>6. V!Plus(p[k][m], y) \in Count /\ V!Plus(p[k][m], y).v = p[k][m].v + 1
  <2>1. p[k][m] \in Count
    BY <1>2, <1>4 DEF Rum, k
  <2> QED
    BY <1>5, <2>1 DEF V!Plus, Count
<1> DEFINE n == V!Plus(p[k][m], y)
<1>7. g = [p EXCEPT ![k] = [p[k] EXCEPT ![m] = n]]
  BY <1>2, <1>4 DEF Rum, k
<1> HIDE DEF n, g, y
<1>8. /\ g \in Rum /\ g[k][m] = n
      /\ \A h \in V!Hour, x \in Mode : (h # k \/ x # m) => g[h][x] = p[h][x]
  <2>1. k \in V!Hour /\ n \in Count
    BY <1>2, <1>6 DEF k, n
  <2>2. [p[k] EXCEPT ![m] = n] \in [Mode -> Count]
    BY <1>4, <2>1 DEF Rum
  <2> QED
    BY <1>4, <1>7, <2>1, <2>2 DEF Rum
<1>9. w \in Beacons
  BY <1>8 DEF Beacons, y
<1>10. /\ writer' = w /\ hours' = z
       /\ UNCHANGED <<now, mode, stepAt, cron, fresh, judged>>
  <2>1. V!Pruned = p /\ V!Empty = z /\ V!ThisHour = k
    BY DEF p, z, k
  <2> QED
    BY <2>1 DEF V!Beacon, w, g, y
<1>11. Sound(f, m, 0)
  BY <1>1 DEF TrafficInv
<1>12. SinceStep \in SUBSET V!Hour /\ IsFiniteSet(SinceStep)
  BY HoursOK, FS_Subset DEF SinceStep
<1>13. ASSUME NEW x \in Mode, NEW h \in V!Hour
       PROVE  f[h][x].v \in Nat /\ p[h][x].v \in Nat /\ p[h][x].v <= f[h][x].v
  <2>1. f[h][x].v \in Nat
    BY DEF Rum, Count
  <2>2. z[h][x].v = 0 /\ (p[h] = f[h] \/ p[h] = z[h])
    BY <1>3, <1>4
  <2>3. CASE p[h] = f[h]
    BY <2>1, <2>3
  <2>4. CASE p[h] = z[h]
    <3>1. p[h][x].v = 0
      BY <2>2, <2>4
    <3> QED
      BY <2>1, <3>1
  <2> QED
    BY <2>2, <2>3, <2>4
<1>14. Sound(g, m, 1)
  <2>1. ASSUME NEW h \in V!Hour, h > V!ThisHour, NEW x \in Mode PROVE g[h][x].v = 0
    <3>1. h # k
      BY <2>1, HoursOK DEF k, TrafficInv, TrafficTyped
    <3>2. g[h][x].v <= f[h][x].v /\ g[h][x].v \in Nat /\ f[h][x].v = 0
      BY <1>8, <1>11, <1>13, <2>1, <3>1 DEF Sound
    <3> QED
      BY <3>2
  <2>2. ASSUME NEW x \in Mode
        PROVE  Sum(Viewed(g, x), SinceStep) <= fresh[x] + (IF x = m THEN 1 ELSE 0)
    <3> DEFINE a == Viewed(f, x)
               b == Viewed(g, x)
    <3>1. a \in [V!Hour -> Nat] /\ b \in [V!Hour -> Nat]
      BY <1>8, ViewedOK
    <3>2. Sum(a, SinceStep) <= fresh[x] /\ fresh[x] \in Nat
      <4>1. Sum(a, SinceStep) <= fresh[x] + (IF x = m THEN 0 ELSE 0)
        BY <1>11 DEF Sound
      <4>2. fresh[x] \in Nat
        BY <1>0 DEF TrafficTyped
      <4> HIDE DEF a
      <4> QED
        BY <4>1, <4>2
    <3>3. \A h \in V!Hour : a[h] = f[h][x].v /\ b[h] = g[h][x].v
      BY DEF Viewed
    <3>4. Sum(a, SinceStep) \in Nat /\ Sum(b, SinceStep) \in Nat
      BY <1>8, <1>12, SumsOK
    <3> HIDE DEF a, b
    <3>5. CASE x # m
      <4>1. \A h \in SinceStep : b[h] <= a[h]
        BY <1>8, <1>12, <1>13, <3>3, <3>5
      <4>2. Sum(b, SinceStep) <= Sum(a, SinceStep)
        BY <1>12, <3>1, <4>1, SumGrows
      <4> QED
        BY <3>2, <3>4, <3>5, <4>2 DEF b
    <3>6. CASE x = m
      <4>1. k \in V!Hour /\ b[k] <= a[k] + 1
        BY <1>2, <1>6, <1>8, <1>13, <3>3, <3>6 DEF k, n
      <4>2. \A h \in SinceStep : h # k => b[h] <= a[h]
        BY <1>8, <1>12, <1>13, <3>3
      <4>3. Sum(b, SinceStep) <= Sum(a, SinceStep) + 1
        BY <1>12, <3>1, <4>1, <4>2, SumRisesByOne
      <4> QED
        BY <3>2, <3>4, <3>6, <4>3 DEF b
    <3> QED
      BY <3>5, <3>6
  <2> QED
    BY <2>1, <2>2 DEF Sound
<1>15. \A x \in Mode : Sound(z, x, 0)
  <2>1. ASSUME NEW x \in Mode PROVE Sum(Viewed(z, x), SinceStep) = 0
    <3>1. Viewed(z, x) \in [V!Hour -> Nat] /\ \A h \in SinceStep : Viewed(z, x)[h] = 0
      BY <1>3, <1>12, ViewedOK DEF Viewed
    <3> QED
      BY <1>12, <3>1, SumOfZeros
  <2>2. \A x \in Mode : fresh[x] \in Nat
    BY <1>0 DEF TrafficTyped
  <2> QED
    BY <1>3, <2>1, <2>2 DEF Sound
<1>16. TrafficTyped'
  BY <1>0, <1>3, <1>9, <1>10 DEF TrafficTyped
<1>17. \A x \in Mode : Sound(hours, x, 0)'
  BY <1>10, <1>15 DEF Sound, SinceStep, V!ThisHour
<1>18. Sound(writer.hours, writer.mode, 1)'
  <2>1. (writer.hours)' = g /\ (writer.mode)' = m
    BY <1>10
  <2> QED
    BY <1>10, <1>14, <2>1 DEF Sound, SinceStep, V!ThisHour
<1>19. (\A c \in Cron : StepKnown(cron[c]))' /\ V!DecidedOnFreshViews'
  BY <1>10 DEF TrafficInv, StepKnown, V!DecidedOnFreshViews
<1> QED
  BY <1>16, <1>17, <1>18, <1>19 DEF TrafficInv

LEMMA RecordStep ==
  ASSUME TrafficInv, V!Write
  PROVE  TrafficInv'
<1>0. TrafficTyped /\ writer # None
  BY DEF TrafficInv, V!Write
<1>1. PICK w \in Beacons : w = writer
  BY <1>0 DEF TrafficTyped
<1>2. PICK m \in Mode : m = w.mode
  BY DEF Beacons
<1>3. w.hours \in Rum /\ w.views.v = 1
  BY DEF Beacons
<1>4. /\ hours' = w.hours /\ writer' = None
      /\ fresh' = [fresh EXCEPT ![m] = @ + 1]
      /\ UNCHANGED <<now, mode, stepAt, cron, judged>>
  BY <1>1, <1>2, <1>3 DEF V!Write
<1>5. Sound(w.hours, m, 1)
  BY <1>0, <1>1, <1>2 DEF TrafficInv
<1>6. \A x \in Mode : fresh[x] \in Nat /\ fresh'[x] = fresh[x] + (IF x = m THEN 1 ELSE 0)
  BY <1>0, <1>4 DEF TrafficTyped
<1>7. \A x \in Mode : Sound(hours, x, 0)'
  <2>1. V!ThisHour' = V!ThisHour /\ SinceStep' = SinceStep
    BY <1>4 DEF V!ThisHour, SinceStep
  <2>2. ASSUME NEW x \in Mode PROVE (Sum(Viewed(hours, x), SinceStep) <= fresh[x] + 0)'
    <3>1. Viewed(hours, x)' = Viewed(w.hours, x)
      BY <1>4 DEF Viewed
    <3>2. Sum(Viewed(w.hours, x), SinceStep) <= fresh[x] + (IF x = m THEN 1 ELSE 0)
      BY <1>5 DEF Sound
    <3>3. fresh'[x] + 0 = fresh'[x]
      BY <1>6
    <3> QED
      BY <1>6, <2>1, <3>1, <3>2, <3>3 DEF Sum
  <2> QED
    <3>1. \A h \in V!Hour : h > V!ThisHour' => \A x \in Mode : hours'[h][x].v = 0
      BY <1>4, <1>5, <2>1 DEF Sound
    <3>2. ASSUME NEW y \in Mode PROVE Sound(hours, y, 0)'
      <4>1. \A x \in Mode : (Sum(Viewed(hours, x), SinceStep) <= fresh[x] + (IF x = y THEN 0 ELSE 0))'
        BY <2>2
      <4> QED
        BY <3>1, <4>1 DEF Sound
    <3> QED
      BY <3>2
<1>8. TrafficTyped'
  <2>1. fresh' \in [Mode -> Nat]
    BY <1>0, <1>4 DEF TrafficTyped
  <2> QED
    BY <1>0, <1>3, <1>4, <2>1 DEF TrafficTyped
<1>9. \A c \in Cron : StepKnown(cron[c])'
  <2> SUFFICES ASSUME NEW c \in Cron, cron[c].pc = "step"
               PROVE  cron[c].mode \in Mode /\ cron[c].views <= fresh'[cron[c].mode]
    BY <1>4 DEF StepKnown
  <2>1. cron[c].mode \in Mode /\ cron[c].views <= fresh[cron[c].mode] /\ cron[c].views \in Nat
    BY <1>0 DEF TrafficInv, TrafficTyped, StepKnown, Runs
  <2>2. PICK y \in Mode, n \in Nat : y = cron[c].mode /\ n = cron[c].views /\ n <= fresh[y]
    BY <2>1
  <2>3. fresh[y] \in Nat /\ (fresh'[y] = fresh[y] \/ fresh'[y] = fresh[y] + 1)
    BY <1>6
  <2>4. n <= fresh'[y]
    BY <2>2, <2>3
  <2> QED
    BY <2>2, <2>4
<1>10. V!DecidedOnFreshViews'
  BY <1>4 DEF TrafficInv, V!DecidedOnFreshViews
<1> QED
  BY <1>4, <1>7, <1>8, <1>9, <1>10 DEF TrafficInv

LEMMA TimeStep ==
  ASSUME TrafficInv, V!Tick
  PROVE  TrafficInv'
<1>0. TrafficTyped
  BY DEF TrafficInv
<1>1. /\ now' = now + 1 /\ now < MaxTicks /\ writer = None
      /\ UNCHANGED <<hours, writer, mode, stepAt, cron, fresh, judged>>
  BY DEF V!Tick
<1>2. V!ThisHour \in Nat /\ V!ThisHour' \in Nat /\ V!ThisHour <= V!ThisHour'
  <2>1. now \in Nat /\ now + 1 \in Nat /\ now <= now + 1
    BY <1>0 DEF TrafficTyped
  <2> QED
    BY <1>1, <2>1, Dividing, HoursPass DEF V!ThisHour
<1>3. \A h \in V!Hour : h > V!ThisHour' => h > V!ThisHour
  BY <1>2, HoursOK
<1>4. \A m \in Mode : Sound(hours, m, 0)'
  <2>1. \A m \in Mode : Sound(hours, m, 0)
    BY DEF TrafficInv
  <2> QED
    BY <1>1, <1>3, <2>1 DEF Sound, SinceStep
<1>5. TrafficTyped'
  BY <1>0, <1>1 DEF TrafficTyped
<1> QED
  BY <1>1, <1>4, <1>5 DEF TrafficInv, StepKnown, V!DecidedOnFreshViews

\* A writer that dies leaves the file empty; the owner only sets the mode.
LEMMA OtherSteps ==
  ASSUME TrafficInv, V!WriterDies \/ \E m \in Mode : V!Switch(m)
  PROVE  TrafficInv'
<1>0. TrafficTyped
  BY DEF TrafficInv
<1>1. /\ UNCHANGED <<now, hours, stepAt, cron, fresh, judged>>
      /\ mode' \in Modes /\ writer' \in {writer, None}
  BY <1>0 DEF V!WriterDies, V!Switch, TrafficTyped, Modes
<1>2. \A m \in Mode : Sound(hours, m, 0)'
  <2>1. \A m \in Mode : Sound(hours, m, 0)
    BY DEF TrafficInv
  <2> QED
    BY <1>1, <2>1 DEF Sound, SinceStep, V!ThisHour
<1>3. (writer # None => Sound(writer.hours, writer.mode, 1))'
  BY <1>1 DEF TrafficInv, Sound, SinceStep, V!ThisHour
<1>4. TrafficTyped'
  BY <1>0, <1>1 DEF TrafficTyped
<1> QED
  BY <1>1, <1>2, <1>3, <1>4 DEF TrafficInv, StepKnown, V!DecidedOnFreshViews

LEMMA TrafficStep ==
  ASSUME \A c, d \in Cron : c = d, TrafficInv, [V!Next]_traffic
  PROVE  TrafficInv'
<1>1. CASE UNCHANGED traffic
  BY <1>1 DEF TrafficInv, TrafficTyped, Sound, SinceStep, V!ThisHour, StepKnown,
              V!DecidedOnFreshViews, traffic
<1>2. ASSUME NEW c \in Cron, V!Run(c) \/ V!PushFails(c) PROVE TrafficInv'
  <2>1. CASE V!Mark(c)
    BY <2>1, MarkStep
  <2>2. CASE V!Judge(c) \/ V!SetMode(c)
    BY <2>2, JudgeSteps
  <2>3. CASE V!Begin(c) \/ V!Aggregate(c) \/ V!Upsert(c) \/ V!AddUsage(c) \/ V!PushFails(c)
    BY <2>3, PushSteps
  <2> QED
    BY <1>2, <2>1, <2>2, <2>3 DEF V!Run
<1> QED
  BY <1>1, <1>2, BeaconStep, RecordStep, TimeStep, OtherSteps DEF V!Next

\* A step down of the script mode is decided on views that came after the step before it, for
\* any window that is no longer than the cooldown, and one hourly run at a time.
THEOREM StepsOnFreshViews ==
  ASSUME \A c, d \in Cron : c = d
  PROVE  FilesSpec => []DecidedOnFreshViews
<1>1. FilesInit => TrafficInv
  BY TrafficBegins DEF FilesInit
<1>2. TrafficInv /\ [FilesNext]_<<vars, traffic, part>> => TrafficInv'
  <2> SUFFICES ASSUME TrafficInv, [FilesNext]_<<vars, traffic, part>>
               PROVE  TrafficInv'
    OBVIOUS
  <2>1. [V!Next]_traffic
    BY DEF FilesNext
  <2> QED
    BY <2>1, TrafficStep
<1>3. TrafficInv => DecidedOnFreshViews
  BY DEF TrafficInv, DecidedOnFreshViews
<1> QED
  BY <1>1, <1>2, <1>3, PTL DEF FilesSpec
===============================================================================
