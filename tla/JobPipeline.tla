----------------------------- MODULE JobPipeline ------------------------------
(***************************************************************************)
(* The life of an optimization job, across every actor that writes it:      *)
(*                                                                         *)
(*   - callers: the dispatch routes (routes/optimize.ts, routes/embed.ts),  *)
(*     the crawl (enqueueCrawlJobs) and the rerun route;                    *)
(*   - consumers of the optimization queue (processOptimizationQueue);      *)
(*   - the consumer of the dead-letter queue (processDlqBatch);             *)
(*   - the sweeper that cron starts (runSweeper).                           *)
(*                                                                         *)
(* They share the job's row in D1, its marker in KV, the queue and the      *)
(* credit ledger, and interleave between any two statements. A ledger call  *)
(* is one step here, as CreditLedger shows it to be. A message is one run   *)
(* of one job; a batch is the sequence of its messages' handlings.          *)
(*                                                                         *)
(* 'needs_attention' is a failed job here: no actor below tells them apart. *)
(***************************************************************************)
EXTENDS Naturals, FiniteSets

CONSTANTS
    Job,
    Run,            \* run keys; each is one reservation and one message
    JobOf,          \* JobOf[k]: the job of run key k
    Rerun,          \* the run keys of reruns (the others are dispatches)
    Consumer, Caller, Sweeper, Dlq,
    Environments,   \* the sets of hazards that may come together: see below
    MaxDuplicates   \* bound on duplicate deliveries

\* "fault": a statement of a queue handler throws; "crash": an invocation is evicted,
\* or a statement outside any try block throws; "lost": a send that throws was
\* accepted all the same; "launch": no browser for a batch; "sweep": jobs grow old
\* enough to be swept; "duplicate": a message is delivered twice; "rerun": the rerun
\* route is called.
Hazard == {"fault", "crash", "lost", "launch", "sweep", "duplicate", "rerun"}
ASSUME EnvironmentsAssumption == Environments \subseteq SUBSET Hazard
ASSUME RunAssumption == JobOf \in [Run -> Job] /\ Rerun \subseteq Run /\ IsFiniteSet(Run)
\* generateJobId: a dispatch mints the id of its job.
ASSUME MintAssumption == \A k, l \in Run \ Rerun : JobOf[k] = JobOf[l] => k = l
ASSUME ActorAssumption ==
    /\ Consumer \cap Caller = {}
    /\ {Sweeper, Dlq} \cap (Consumer \cup Caller) = {} /\ Sweeper # Dlq
ASSUME DuplicatesAssumption == MaxDuplicates \in Nat

Actor == Consumer \cup Caller \cup {Sweeper, Dlq}

VARIABLES
    hazards,     \* the hazards of this behaviour: chosen once
    status,      \* optimization_jobs.status of each job ("none": no row)
    old,         \* whether created_at is over 30 minutes ago
    kv,          \* the job:<id> marker in KV
    credit,      \* what the ledger holds for each run key
    queue,       \* the optimization queue: <<run, attempt>> of each message in it
    dead,        \* the runs whose message is in the dead-letter queue
    duplicates,  \* how many deliveries were duplicates so far
    proc,        \* the statement each actor is about to execute
    worked       \* history: extractions stored for each job (up to Cardinality(Run))

vars == <<hazards, status, old, kv, credit, queue, dead, duplicates, proc, worked>>

Active   == {"queued", "processing"}
Terminal == {"completed", "failed"}

RetryBelow    == 3  \* msg.attempts < 3
MaxDeliveries == 4  \* the queue's max_retries (3) after the first delivery

Idle == [pc |-> "idle"]

At(a, pc)   == proc[a].pc = pc
Goto(a, pc) == proc' = [proc EXCEPT ![a].pc = pc]
Rest(a)     == proc' = [proc EXCEPT ![a] = Idle]

\* The UPDATE of the status column, and the put of the KV marker.
SetStatus(j, s) == status' = [status EXCEPT ![j] = s]
SetMarker(j, s) == kv' = [kv EXCEPT ![j] = s]

-----------------------------------------------------------------------------
(***************************************************************************)
(* The ledger                                                              *)
(***************************************************************************)
Held(j) == {k \in Run : JobOf[k] = j /\ credit[k] = "held"}

LedgerPc == {"settle", "release", "refund"}

\* consumeReservationForJob, releaseReservationForJob: the job's held run, any of
\* them if there are several, comes to its end. A call that picks the row another
\* call settles first returns, whatever else is held.
Contended(a, j) ==
    \E b \in Actor \ {a} : proc[b].pc \in LedgerPc /\ proc[b].job = j

SettleRun(a, j, ending) ==
    \/ \E k \in Held(j) : credit' = [credit EXCEPT ![k] = ending]
    \/ Held(j) = {} /\ UNCHANGED credit
    \/ Cardinality(Held(j)) > 1 /\ Contended(a, j) /\ UNCHANGED credit

Consume(a, j) == SettleRun(a, j, "charged")
Release(a, j) == SettleRun(a, j, "returned")

-----------------------------------------------------------------------------
(***************************************************************************)
(* Callers. A route that throws answers 500 and undoes nothing; only the    *)
(* queue send is rolled back.                                              *)
(***************************************************************************)
InUse(k) == \E c \in Caller : proc[c].pc # "idle" /\ proc[c].run = k

Call(c, k, route) ==
    /\ proc' = [proc EXCEPT ![c] = [pc |-> "reserve", job |-> JobOf[k], run |-> k,
                                    route |-> route]]
    /\ UNCHANGED <<hazards, status, old, kv, credit, queue, dead, duplicates, worked>>

\* A new job id is minted before its credit is reserved.
Dispatch(c, k, route) ==
    /\ At(c, "idle")
    /\ k \notin Rerun /\ ~InUse(k)
    /\ status[JobOf[k]] = "none" /\ credit[k] = "unheld"
    /\ Call(c, k, route)

\* The rerun route reads the job first and refuses one that is in flight. Its run key
\* holds the millisecond: two reruns may share it.
StartRerun(c, k) ==
    /\ At(c, "idle")
    /\ "rerun" \in hazards /\ k \in Rerun /\ credit[k] = "unheld"
    /\ status[JobOf[k]] \in Terminal
    /\ Call(c, k, "rerun")

\* A template cached since completes the rerun for free (completeRerunFromTemplate).
FreeRerun(c) ==
    /\ At(c, "reserve") /\ proc[c].route = "rerun"
    /\ SetStatus(proc[c].job, "completed")
    /\ Goto(c, "freeMark")
    /\ UNCHANGED <<hazards, old, kv, credit, queue, dead, duplicates, worked>>

FreeMark(c) ==
    /\ At(c, "freeMark")
    /\ SetMarker(proc[c].job, "completed")
    /\ Rest(c)
    /\ UNCHANGED <<hazards, status, old, credit, queue, dead, duplicates, worked>>

\* reserveCredits: a key that has a live reservation is answered with it.
Reserve(c) ==
    /\ At(c, "reserve")
    /\ credit[proc[c].run] # "returned"
    /\ credit' = [credit EXCEPT ![proc[c].run] = IF @ = "unheld" THEN "held" ELSE @]
    /\ Goto(c, "write")
    /\ UNCHANGED <<hazards, status, old, kv, queue, dead, duplicates, worked>>

\* No credits left, or the key's row is spent.
Refused(c) ==
    /\ At(c, "reserve")
    /\ credit[proc[c].run] \in {"unheld", "returned"}
    /\ Rest(c)
    /\ UNCHANGED <<hazards, status, old, kv, credit, queue, dead, duplicates, worked>>

\* INSERT of a dispatched job; the rerun's UPDATE looks at no status.
Write(c) ==
    /\ At(c, "write")
    /\ SetStatus(proc[c].job, "queued")
    /\ old' = [old EXCEPT ![proc[c].job] = FALSE]
    /\ Goto(c, "mark")
    /\ UNCHANGED <<hazards, kv, credit, queue, dead, duplicates, worked>>

Mark(c) ==
    /\ At(c, "mark")
    /\ SetMarker(proc[c].job, "queued")
    /\ Goto(c, "send")
    /\ UNCHANGED <<hazards, status, old, credit, queue, dead, duplicates, worked>>

Send(c) ==
    /\ At(c, "send")
    /\ queue' = queue \cup {<<proc[c].run, 1>>}
    /\ Rest(c)
    /\ UNCHANGED <<hazards, status, old, kv, credit, dead, duplicates, worked>>

\* send() throws.
SendFails(c) ==
    /\ At(c, "send")
    /\ \/ UNCHANGED queue
       \/ "lost" \in hazards /\ queue' = queue \cup {<<proc[c].run, 1>>}
    /\ Goto(c, "unwrite")
    /\ UNCHANGED <<hazards, status, old, kv, credit, dead, duplicates, worked>>

\* The roll back: a dispatch DELETEs its row, the crawl fails a job that is still
\* queued, a rerun fails the job.
Unwrite(c) ==
    /\ At(c, "unwrite")
    /\ LET j == proc[c].job IN
       CASE proc[c].route = "dispatch" -> SetStatus(j, "none")
         [] proc[c].route = "crawl" /\ status[j] = "queued" -> SetStatus(j, "failed")
         [] proc[c].route = "crawl" /\ status[j] # "queued" -> UNCHANGED status
         [] proc[c].route = "rerun" -> SetStatus(j, "failed")
    /\ Goto(c, "unmark")
    /\ UNCHANGED <<hazards, old, kv, credit, queue, dead, duplicates, worked>>

Unmark(c) ==
    /\ At(c, "unmark")
    /\ SetMarker(proc[c].job, IF proc[c].route = "crawl" THEN "failed" ELSE "absent")
    /\ Goto(c, "refund")
    /\ UNCHANGED <<hazards, status, old, credit, queue, dead, duplicates, worked>>

Refund(c) ==
    /\ At(c, "refund")
    /\ Release(c, proc[c].job)
    /\ Rest(c)
    /\ UNCHANGED <<hazards, status, old, kv, queue, dead, duplicates, worked>>

-----------------------------------------------------------------------------
(***************************************************************************)
(* Consumers of the optimization queue                                     *)
(***************************************************************************)

\* The handling of message <<k, n>> goes back to the queue for its next attempt.
Redeliver(k, n) ==
    IF n < MaxDeliveries
    THEN queue' = queue \cup {<<k, n + 1>>} /\ UNCHANGED dead
    ELSE dead' = dead \cup {k} /\ UNCHANGED queue

\* Where an attempt that went wrong continues.
RecoveryPc(n) == IF n < RetryBelow THEN "requeue" ELSE "fail"

\* Delivery is at least once: the message may stay behind for another consumer.
Deliver(w, m) ==
    /\ At(w, "idle") /\ m \in queue
    /\ \/ /\ queue' = queue \ {m}
          /\ UNCHANGED duplicates
       \/ /\ "duplicate" \in hazards /\ duplicates < MaxDuplicates
          /\ duplicates' = duplicates + 1
          /\ UNCHANGED queue
    /\ \E pc \in {"claim"} \cup (IF "launch" \in hazards THEN {RecoveryPc(m[2])} ELSE {}) :
          proc' = [proc EXCEPT ![w] = [pc |-> pc, job |-> JobOf[m[1]], run |-> m[1],
                                       attempt |-> m[2]]]
    /\ UNCHANGED <<hazards, status, old, kv, credit, dead, worked>>

\* UPDATE ... SET status = 'processing' WHERE id = ? AND status = 'queued'; any other
\* job is a duplicate, acked without work.
Claim(w) ==
    /\ At(w, "claim")
    /\ IF status[proc[w].job] = "queued"
       THEN SetStatus(proc[w].job, "processing") /\ Goto(w, "extract")
       ELSE UNCHANGED status /\ Goto(w, "ack")
    /\ UNCHANGED <<hazards, old, kv, credit, queue, dead, duplicates, worked>>

Extract(w) ==
    /\ At(w, "extract")
    /\ Goto(w, "complete")
    /\ UNCHANGED <<hazards, status, old, kv, credit, queue, dead, duplicates, worked>>

\* The catch block: the page cannot be extracted, or a statement throws.
Catch(w) ==
    /\ \/ At(w, "extract")
       \/ "fault" \in hazards /\ proc[w].pc \in {"claim", "complete", "marker", "settle"}
    /\ Goto(w, RecoveryPc(proc[w].attempt))
    /\ UNCHANGED <<hazards, status, old, kv, credit, queue, dead, duplicates, worked>>

Complete(w) ==
    /\ At(w, "complete")
    /\ SetStatus(proc[w].job, "completed")
    /\ worked' = [worked EXCEPT ![proc[w].job] =
                     IF @ < Cardinality(Run) THEN @ + 1 ELSE @]
    /\ Goto(w, "marker")
    /\ UNCHANGED <<hazards, old, kv, credit, queue, dead, duplicates>>

Marker(w) ==
    /\ At(w, "marker")
    /\ SetMarker(proc[w].job, "completed")
    /\ Goto(w, "settle")
    /\ UNCHANGED <<hazards, status, old, credit, queue, dead, duplicates, worked>>

Settle(w) ==
    /\ At(w, "settle")
    /\ Consume(w, proc[w].job)
    /\ Goto(w, "ack")
    /\ UNCHANGED <<hazards, status, old, kv, queue, dead, duplicates, worked>>

\* Unguarded, like every status UPDATE of the catch block and of the launch failure.
Requeue(w) ==
    /\ At(w, "requeue")
    /\ SetStatus(proc[w].job, "queued")
    /\ Goto(w, "requeueMark")
    /\ UNCHANGED <<hazards, old, kv, credit, queue, dead, duplicates, worked>>

RequeueMark(w) ==
    /\ At(w, "requeueMark")
    /\ SetMarker(proc[w].job, "queued")
    /\ Redeliver(proc[w].run, proc[w].attempt)
    /\ Rest(w)
    /\ UNCHANGED <<hazards, status, old, credit, duplicates, worked>>

Fail(w) ==
    /\ At(w, "fail")
    /\ SetStatus(proc[w].job, "failed")
    /\ Goto(w, "failMark")
    /\ UNCHANGED <<hazards, old, kv, credit, queue, dead, duplicates, worked>>

FailMark(w) ==
    /\ At(w, "failMark")
    /\ SetMarker(proc[w].job, "failed")
    /\ Goto(w, "release")
    /\ UNCHANGED <<hazards, status, old, credit, queue, dead, duplicates, worked>>

\* Mutant of ReleaseFailed: a terminal failure settles its reservation as a charge.
ChargeFailed(w) ==
    /\ At(w, "release")
    /\ Consume(w, proc[w].job)
    /\ Goto(w, "ack")
    /\ UNCHANGED <<hazards, status, old, kv, queue, dead, duplicates, worked>>

\* Mutant of ReleaseFailed: a message that fails for good is acked, its credit forgotten.
ReleaseForgets(w) ==
    /\ At(w, "release")
    /\ Goto(w, "ack")
    /\ UNCHANGED <<hazards, status, old, kv, credit, queue, dead, duplicates, worked>>

ReleaseFailed(w) ==
    /\ At(w, "release")
    /\ Release(w, proc[w].job)
    /\ Goto(w, "ack")
    /\ UNCHANGED <<hazards, status, old, kv, queue, dead, duplicates, worked>>

Ack(w) ==
    /\ At(w, "ack")
    /\ Rest(w)
    /\ UNCHANGED <<hazards, status, old, kv, credit, queue, dead, duplicates, worked>>

\* The catch block itself throws, or the invocation is evicted: the message goes back.
Abandon(w) ==
    /\ \/ "crash" \in hazards /\ ~At(w, "idle")
       \/ /\ "fault" \in hazards
          /\ proc[w].pc \in {"requeue", "requeueMark", "fail", "failMark", "release"}
    /\ Redeliver(proc[w].run, proc[w].attempt)
    /\ Rest(w)
    /\ UNCHANGED <<hazards, status, old, kv, credit, duplicates, worked>>

-----------------------------------------------------------------------------
(***************************************************************************)
(* The dead-letter queue                                                   *)
(***************************************************************************)
DeadDeliver(k) ==
    /\ At(Dlq, "idle") /\ k \in dead
    /\ proc' = [proc EXCEPT ![Dlq] = [pc |-> "bury", job |-> JobOf[k], run |-> k]]
    /\ UNCHANGED <<hazards, status, old, kv, credit, queue, dead, duplicates, worked>>

\* Only a job still in flight is failed, and only then is its marker.
Bury ==
    /\ At(Dlq, "bury")
    /\ IF status[proc[Dlq].job] \in Active
       THEN SetStatus(proc[Dlq].job, "failed") /\ Goto(Dlq, "buryMark")
       ELSE UNCHANGED status /\ Goto(Dlq, "release")
    /\ UNCHANGED <<hazards, old, kv, credit, queue, dead, duplicates, worked>>

BuryMark ==
    /\ At(Dlq, "buryMark")
    /\ SetMarker(proc[Dlq].job, "failed")
    /\ Goto(Dlq, "release")
    /\ UNCHANGED <<hazards, status, old, credit, queue, dead, duplicates, worked>>

\* The message is acked with the release: until then a failure retries all of it.
BuryRelease ==
    /\ At(Dlq, "release")
    /\ Release(Dlq, proc[Dlq].job)
    /\ dead' = dead \ {proc[Dlq].run}
    /\ Rest(Dlq)
    /\ UNCHANGED <<hazards, status, old, kv, queue, duplicates, worked>>

-----------------------------------------------------------------------------
(***************************************************************************)
(* The sweeper: SELECT the zombies, fail every zombie, then release and     *)
(* mark the ones selected, in order.                                       *)
(***************************************************************************)
\* Mutant of Zombies: a job whose consumer died is none.
QueuedZombies == {j \in Job : status[j] = "queued" /\ old[j]}

Zombies == {j \in Job : status[j] \in Active /\ old[j]}

SweepSelect ==
    /\ At(Sweeper, "idle") /\ Zombies # {}
    /\ proc' = [proc EXCEPT ![Sweeper] = [pc |-> "sweep", left |-> Zombies]]
    /\ UNCHANGED <<hazards, status, old, kv, credit, queue, dead, duplicates, worked>>

SweepNext(left) ==
    IF left = {}
    THEN Rest(Sweeper)
    ELSE \E j \in left :
            proc' = [proc EXCEPT ![Sweeper] = [pc |-> "release", job |-> j,
                                               left |-> left \ {j}]]

SweepUpdate ==
    /\ At(Sweeper, "sweep")
    /\ status' = [j \in Job |-> IF j \in Zombies THEN "failed" ELSE status[j]]
    /\ SweepNext(proc[Sweeper].left)
    /\ UNCHANGED <<hazards, old, kv, credit, queue, dead, duplicates, worked>>

SweepRelease ==
    /\ At(Sweeper, "release")
    /\ Release(Sweeper, proc[Sweeper].job)
    /\ Goto(Sweeper, "sweepMark")
    /\ UNCHANGED <<hazards, status, old, kv, queue, dead, duplicates, worked>>

SweepMark ==
    /\ At(Sweeper, "sweepMark")
    /\ SetMarker(proc[Sweeper].job, "failed")
    /\ SweepNext(proc[Sweeper].left)
    /\ UNCHANGED <<hazards, status, old, credit, queue, dead, duplicates, worked>>

-----------------------------------------------------------------------------
(***************************************************************************)
(* Time and failures                                                       *)
(***************************************************************************)

\* A caller or the sweeper stops half way.
Stop(a) ==
    /\ "crash" \in hazards
    /\ ~At(a, "idle")
    /\ Rest(a)
    /\ UNCHANGED <<hazards, status, old, kv, credit, queue, dead, duplicates, worked>>

\* So does the dead-letter consumer, and its letter stays or, retried already, is
\* dropped: nothing is behind this queue.
DlqStops ==
    /\ hazards \cap {"crash", "fault"} # {}
    /\ ~At(Dlq, "idle")
    /\ \/ UNCHANGED dead
       \/ dead' = dead \ {proc[Dlq].run}
    /\ Rest(Dlq)
    /\ UNCHANGED <<hazards, status, old, kv, credit, queue, duplicates, worked>>

\* The job is 30 minutes old. No request takes that long.
Age(j) ==
    /\ "sweep" \in hazards
    /\ status[j] \in Active /\ ~old[j]
    /\ ~\E c \in Caller : proc[c].pc # "idle" /\ proc[c].job = j
    /\ old' = [old EXCEPT ![j] = TRUE]
    /\ UNCHANGED <<hazards, status, kv, credit, queue, dead, duplicates, proc, worked>>

\* The marker's TTL runs out.
Expire(j) ==
    /\ kv[j] # "absent"
    /\ SetMarker(j, "absent")
    /\ UNCHANGED <<hazards, status, old, credit, queue, dead, duplicates, proc, worked>>

Init ==
    /\ hazards \in Environments
    /\ status = [j \in Job |-> "none"]
    /\ old = [j \in Job |-> FALSE]
    /\ kv = [j \in Job |-> "absent"]
    /\ credit = [k \in Run |-> "unheld"]
    /\ queue = {}
    /\ dead = {}
    /\ duplicates = 0
    /\ proc = [a \in Actor |-> Idle]
    /\ worked = [j \in Job |-> 0]

CallerStep(c) ==
    \/ \E k \in Run : \/ Dispatch(c, k, "dispatch")
                      \/ Dispatch(c, k, "crawl")
                      \/ StartRerun(c, k)
    \/ FreeRerun(c) \/ FreeMark(c)
    \/ Reserve(c) \/ Refused(c) \/ Write(c) \/ Mark(c)
    \/ Send(c) \/ SendFails(c) \/ Unwrite(c) \/ Unmark(c) \/ Refund(c)
    \/ Stop(c)

ConsumerStep(w) ==
    \/ \E m \in queue : Deliver(w, m)
    \/ Claim(w) \/ Extract(w) \/ Complete(w) \/ Marker(w) \/ Settle(w) \/ Ack(w)
    \/ Catch(w) \/ Requeue(w) \/ RequeueMark(w)
    \/ Fail(w) \/ FailMark(w) \/ ReleaseFailed(w)
    \/ Abandon(w)

DlqStep ==
    \/ \E k \in dead : DeadDeliver(k)
    \/ Bury \/ BuryMark \/ BuryRelease
    \/ DlqStops

SweeperStep ==
    SweepSelect \/ SweepUpdate \/ SweepRelease \/ SweepMark \/ Stop(Sweeper)

Next ==
    \/ \E c \in Caller : CallerStep(c)
    \/ \E w \in Consumer : ConsumerStep(w)
    \/ DlqStep
    \/ SweeperStep
    \/ \E j \in Job : Age(j) \/ Expire(j)

Spec == Init /\ [][Next]_vars

-----------------------------------------------------------------------------
(***************************************************************************)
(* Properties                                                              *)
(***************************************************************************)

\* Whatever is retried, duplicated, swept, buried or lost, a job is charged no more
\* credits than extractions were stored for it: the terminal paths of the catch block,
\* the launch failure, the dead-letter queue, the sweeper and the roll backs all
\* release, and only the path past the UPDATE to 'completed' consumes.
ChargedOnlyForWork ==
    \A j \in Job :
        Cardinality({k \in Run : JobOf[k] = j /\ credit[k] = "charged"}) <= worked[j]

\* Only hazards of hs come together.
Only(hs) == hazards \subseteq hs

\* Nobody is at work on the job, and no message of it is left.
AtRest(j) ==
    /\ \A a \in Actor : proc[a].pc \in {"idle", "sweep"} \/ proc[a].job # j
    /\ At(Sweeper, "idle") \/ j \notin proc[Sweeper].left
    /\ \A m \in queue : JobOf[m[1]] # j
    /\ \A k \in dead : JobOf[k] # j

\* Once a job is over (or was rolled back) and at rest, its credit was either charged
\* or returned: none stays held for good. Neither actor checks for this; it follows
\* from which of them calls the ledger after which status it read or wrote. (A failing
\* statement or an eviction between the two strands it.)
NoStrandedCredit ==
    Only({"launch", "lost", "duplicate"}) =>
        \A j \in Job : AtRest(j) /\ status[j] \notin Active => Held(j) = {}

\* Requests end, time passes, cron starts the sweeper, and no sweeper dies before its
\* UPDATE every time. Nothing is assumed of queues and their consumers.
Fairness ==
    /\ \A c \in Caller : WF_vars(~At(c, "idle") /\ CallerStep(c))
    /\ \A j \in Job : WF_vars(Age(j))
    /\ WF_vars(SweepSelect) /\ SF_vars(SweepUpdate)
    /\ WF_vars(SweepRelease \/ SweepMark)

FairSpec == Spec /\ Fairness

\* Every job in flight settles, though its message is lost or its consumer dies: the
\* sweeper reaps what neither the consumers nor the dead-letter queue end.
EveryJobSettles == \A j \in Job : status[j] \in Active ~> status[j] \notin Active
=============================================================================
