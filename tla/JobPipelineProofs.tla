--------------------------- MODULE JobPipelineProofs ---------------------------
(***************************************************************************)
(* Proofs about JobPipeline, for any number of jobs, runs, callers and       *)
(* consumers, and any hazards: a job is charged for no more than the work     *)
(* stored for it; and in an environment without crashes, failing statements,   *)
(* sweeps and reruns, no job that is over leaves its credit held. And about    *)
(* Reports, beside it in MCJobReports: whatever the URLs and however many,     *)
(* what the dashboard says of a page adds up to the jobs of that page.         *)
(***************************************************************************)
EXTENDS MCJobReports, FiniteSetTheorems, WellFoundedInduction, SequenceTheorems, TLAPS

-----------------------------------------------------------------------------
(***************************************************************************)
(* The inductive invariant                                                 *)
(***************************************************************************)
CallerPc   == {"reserve", "freeMark", "write", "mark", "send", "unwrite", "unmark", "refund"}
ConsumerPc == {"claim", "extract", "complete", "marker", "settle", "ack", "requeue",
               "requeueMark", "fail", "failMark", "release"}
DlqPc      == {"bury", "buryMark", "release"}

CallerAct   == [pc : CallerPc, job : Job, run : Run, route : {"dispatch", "crawl", "rerun"}]
ConsumerAct == [pc : ConsumerPc, job : Job, run : Run, attempt : 1..MaxDeliveries]
DlqAct      == [pc : DlqPc, job : Job, run : Run]
SweeperAct  == [pc : {"sweep"}, left : SUBSET Job]
               \cup [pc : {"release", "sweepMark"}, job : Job, left : SUBSET Job]

\* Who is at work holds a run, and the job of that run.
AtWork(p, acts) == p = Idle \/ (p \in acts /\ p.job = JobOf[p.run])

ProcOK ==
    /\ DOMAIN proc = Actor
    /\ \A c \in Caller : AtWork(proc[c], CallerAct)
    /\ \A w \in Consumer : AtWork(proc[w], ConsumerAct)
    /\ AtWork(proc[Dlq], DlqAct)
    /\ proc[Sweeper] = Idle \/ proc[Sweeper] \in SweeperAct

Status == {"none"} \cup Active \cup Terminal
CreditState == {"unheld", "held", "charged", "returned"}

TypeOK ==
    /\ hazards \in Environments
    /\ status \in [Job -> Status] /\ old \in [Job -> BOOLEAN]
    /\ kv \in [Job -> {"absent", "queued", "completed", "failed"}]
    /\ credit \in [Run -> CreditState]
    /\ queue \subseteq Run \X (1..MaxDeliveries) /\ dead \subseteq Run
    /\ duplicates \in Nat /\ worked \in [Job -> Nat]
    /\ ProcOK

\* A job is charged once for each extraction stored, and every consumer past the UPDATE to
\* 'completed' has one charge to come.
Charged(j) == {k \in Run : JobOf[k] = j /\ credit[k] = "charged"}
Storing(j) == {w \in Consumer : proc[w].pc \in {"marker", "settle"} /\ proc[w].job = j}

WorkCounted ==
    \A j \in Job :
        /\ IsFiniteSet(Storing(j)) /\ worked[j] <= Cardinality(Run)
        /\ \/ worked[j] = Cardinality(Run)
           \/ Cardinality(Charged(j)) + Cardinality(Storing(j)) <= worked[j]

\* The environments of NoStrandedCredit.
Mild == {"launch", "lost", "duplicate"}

\* Nothing grows old, and the sweeper sleeps.
NothingOld == (\A j \in Job : ~old[j]) /\ proc[Sweeper] = Idle

\* Every run is a dispatch, made by one caller.
FirstRuns ==
    /\ \A c \in Caller : proc[c].pc # "idle" => proc[c].run \notin Rerun /\ proc[c].route # "rerun"
    /\ \A k \in Rerun : credit[k] = "unheld"
    /\ \A c, d \in Caller :
          proc[c].pc # "idle" /\ proc[d].pc # "idle" /\ proc[c].run = proc[d].run => c = d

\* A run's message is about: queued, dead, or in the hands of a consumer.
Out(k) ==
    \/ \E n \in 1..MaxDeliveries : <<k, n>> \in queue
    \/ k \in dead
    \/ \E a \in Consumer \cup {Dlq} : proc[a].pc # "idle" /\ proc[a].run = k

\* It is sent last, after the credit was reserved and the job written.
SentLast ==
    /\ \A k \in Run : Out(k) => credit[k] # "unheld"
    /\ \A c \in Caller : proc[c].pc \in {"reserve", "write", "mark", "send"} => ~Out(proc[c].run)
    /\ \A c \in Caller : proc[c].pc \in CallerPc \ {"reserve", "freeMark"} =>
                            credit[proc[c].run] # "unheld"
    /\ \A c \in Caller : proc[c].pc \in {"mark", "send"} => status[proc[c].job] \in Active

\* Someone is about to write the job, or to settle it with the ledger.
Settler(a, j) ==
    /\ \/ a \in Caller /\ proc[a].pc \in {"write", "unmark", "refund"}
       \/ a \in Consumer /\ proc[a].pc \in {"marker", "settle", "failMark", "release"}
       \/ a = Dlq /\ proc[a].pc \in {"buryMark", "release"}
    /\ proc[a].job = j

Accounted ==
    \A k \in Run : credit[k] = "held" /\ status[JobOf[k]] \notin Active =>
                      \E a \in Actor : Settler(a, JobOf[k])

Benign == NothingOld /\ FirstRuns /\ SentLast /\ Accounted

PipelineInv == TypeOK /\ WorkCounted /\ (Only(Mild) => Benign)

-----------------------------------------------------------------------------
(***************************************************************************)
(* Moves of one actor                                                      *)
(***************************************************************************)
Moved(a) == DOMAIN proc' = Actor /\ \A b \in Actor \ {a} : proc'[b] = proc[b]

LEMMA IdlePc == Idle.pc = "idle"
  BY DEF Idle

LEMMA Actors ==
  /\ Caller \subseteq Actor /\ Consumer \subseteq Actor /\ Dlq \in Actor /\ Sweeper \in Actor
  /\ \A c \in Caller : c \notin Consumer /\ c # Dlq /\ c # Sweeper
  /\ \A w \in Consumer : w \notin Caller /\ w # Dlq /\ w # Sweeper
  /\ Dlq \notin Caller /\ Dlq \notin Consumer /\ Sweeper \notin Caller /\ Sweeper \notin Consumer
  /\ Dlq # Sweeper
  BY ActorAssumption DEF Actor

LEMMA MovesTo ==
  ASSUME ProcOK, NEW a \in Actor, NEW q, proc' = [proc EXCEPT ![a] = q]
  PROVE  Moved(a) /\ proc'[a] = q
  BY DEF ProcOK, Moved

LEMMA Rested ==
  ASSUME ProcOK, NEW a \in Actor, Rest(a)
  PROVE  Moved(a) /\ proc'[a] = Idle
  BY MovesTo DEF Rest

\* A statement follows another: the actor keeps its job and its run.
LEMMA CallerGoes ==
  ASSUME ProcOK, NEW c \in Caller, proc[c].pc # "idle", NEW pc \in CallerPc, Goto(c, pc)
  PROVE  /\ Moved(c) /\ proc'[c] \in CallerAct /\ AtWork(proc'[c], CallerAct)
         /\ proc'[c].pc = pc /\ proc'[c].job = proc[c].job /\ proc'[c].run = proc[c].run
         /\ proc'[c].route = proc[c].route
<1> DEFINE q == [proc[c] EXCEPT !.pc = pc]
<1>1. proc[c] \in CallerAct /\ proc[c].job = JobOf[proc[c].run]
  BY IdlePc DEF ProcOK, AtWork
<1>2. /\ q \in CallerAct /\ q.pc = pc /\ q.job = proc[c].job /\ q.run = proc[c].run
      /\ q.route = proc[c].route
  BY <1>1 DEF CallerAct
<1>3. Moved(c) /\ proc'[c] = q
  BY Actors, MovesTo DEF Goto
<1> HIDE DEF q
<1>4. QED
  BY <1>1, <1>2, <1>3 DEF AtWork

LEMMA ConsumerGoes ==
  ASSUME ProcOK, NEW w \in Consumer, proc[w].pc # "idle", NEW pc \in ConsumerPc, Goto(w, pc)
  PROVE  /\ Moved(w) /\ proc'[w] \in ConsumerAct /\ AtWork(proc'[w], ConsumerAct)
         /\ proc'[w].pc = pc /\ proc'[w].job = proc[w].job /\ proc'[w].run = proc[w].run
<1> DEFINE q == [proc[w] EXCEPT !.pc = pc]
<1>1. proc[w] \in ConsumerAct /\ proc[w].job = JobOf[proc[w].run]
  BY IdlePc DEF ProcOK, AtWork
<1>2. q \in ConsumerAct /\ q.pc = pc /\ q.job = proc[w].job /\ q.run = proc[w].run
  BY <1>1 DEF ConsumerAct
<1>3. Moved(w) /\ proc'[w] = q
  BY Actors, MovesTo DEF Goto
<1> HIDE DEF q
<1>4. QED
  BY <1>1, <1>2, <1>3 DEF AtWork

LEMMA DlqGoes ==
  ASSUME ProcOK, proc[Dlq].pc # "idle", NEW pc \in DlqPc, Goto(Dlq, pc)
  PROVE  /\ Moved(Dlq) /\ proc'[Dlq] \in DlqAct /\ AtWork(proc'[Dlq], DlqAct)
         /\ proc'[Dlq].pc = pc /\ proc'[Dlq].job = proc[Dlq].job /\ proc'[Dlq].run = proc[Dlq].run
<1> DEFINE q == [proc[Dlq] EXCEPT !.pc = pc]
<1>1. proc[Dlq] \in DlqAct /\ proc[Dlq].job = JobOf[proc[Dlq].run]
  BY IdlePc DEF ProcOK, AtWork
<1>2. q \in DlqAct /\ q.pc = pc /\ q.job = proc[Dlq].job /\ q.run = proc[Dlq].run
  BY <1>1 DEF DlqAct
<1>3. Moved(Dlq) /\ proc'[Dlq] = q
  BY Actors, MovesTo DEF Goto
<1> HIDE DEF q
<1>4. QED
  BY <1>1, <1>2, <1>3 DEF AtWork

\* After the move of one actor the others are where they were.
LEMMA ProcKept ==
  ASSUME ProcOK, NEW a \in Actor, Moved(a),
         a \in Caller => AtWork(proc'[a], CallerAct),
         a \in Consumer => AtWork(proc'[a], ConsumerAct),
         a = Dlq => AtWork(proc'[a], DlqAct),
         a = Sweeper => proc'[a] = Idle \/ proc'[a] \in SweeperAct
  PROVE  ProcOK'
<1>1. \A c \in Caller : AtWork(proc'[c], CallerAct)
  BY Actors DEF ProcOK, Moved
<1>2. \A w \in Consumer : AtWork(proc'[w], ConsumerAct)
  BY Actors DEF ProcOK, Moved
<1>3. AtWork(proc'[Dlq], DlqAct)
  BY Actors DEF ProcOK, Moved
<1>4. proc'[Sweeper] = Idle \/ proc'[Sweeper] \in SweeperAct
  BY Actors DEF ProcOK, Moved
<1>5. QED
  BY <1>1, <1>2, <1>3, <1>4 DEF ProcOK, Moved, AtWork

\* What an actor at work holds.
LEMMA Holds ==
  ASSUME ProcOK, NEW a \in Caller \cup Consumer \cup {Dlq}, proc[a].pc # "idle"
  PROVE  /\ proc[a].job \in Job /\ proc[a].run \in Run /\ proc[a].job = JobOf[proc[a].run]
         /\ a \in Caller => proc[a] \in CallerAct
         /\ a \in Consumer => proc[a] \in ConsumerAct
         /\ a = Dlq => proc[a] \in DlqAct
  BY IdlePc DEF ProcOK, AtWork, CallerAct, ConsumerAct, DlqAct

-----------------------------------------------------------------------------
(***************************************************************************)
(* The ledger                                                              *)
(***************************************************************************)
\* A ledger call brings held runs of its job to their end, and touches nothing else.
LEMMA SettleEffect ==
  ASSUME TypeOK, NEW a, NEW j \in Job, NEW ending \in {"charged", "returned"},
         SettleRun(a, j, ending)
  PROVE  /\ credit' \in [Run -> CreditState]
         /\ \A k \in Run : \/ credit'[k] = credit[k]
                           \/ credit[k] = "held" /\ JobOf[k] = j /\ credit'[k] = ending
         /\ \A k, l \in Run : credit'[k] # credit[k] /\ credit'[l] # credit[l] => k = l
<1>1. CASE UNCHANGED credit
  BY <1>1 DEF TypeOK
<1>2. ASSUME NEW k \in Held(j), credit' = [credit EXCEPT ![k] = ending]
      PROVE  /\ credit' \in [Run -> CreditState]
             /\ \A l \in Run : \/ credit'[l] = credit[l]
                               \/ credit[l] = "held" /\ JobOf[l] = j /\ credit'[l] = ending
             /\ \A l \in Run : credit'[l] # credit[l] => l = k
  BY <1>2 DEF TypeOK, Held, CreditState
<1>3. QED
  BY <1>1, <1>2 DEF SettleRun

\* Where every run is a dispatch, a job has one; a ledger call leaves it settled.
LEMMA SettlesAll ==
  ASSUME TypeOK, Benign, NEW a, NEW j \in Job, NEW ending \in {"charged", "returned"},
         SettleRun(a, j, ending)
  PROVE  \A k \in Run : JobOf[k] = j => credit'[k] # "held"
<1>1. \A k, l \in Held(j) : k = l
  BY MintAssumption DEF Benign, FirstRuns, Held
<1>2. CASE Held(j) = {}
  <2>1. UNCHANGED credit
    BY <1>2, FS_EmptySet DEF SettleRun
  <2>2. QED
    BY <1>2, <2>1 DEF Held
<1>3. ASSUME NEW k \in Held(j)
      PROVE  \A l \in Run : JobOf[l] = j => credit'[l] # "held"
  <2>1. Held(j) = {k}
    BY <1>1
  <2>2. Cardinality(Held(j)) = 1
    BY <2>1, FS_Singleton
  <2>3. credit' = [credit EXCEPT ![k] = ending]
    BY <2>1, <2>2 DEF SettleRun
  <2>4. QED
    BY <2>1, <2>3 DEF Held, TypeOK
<1>4. QED
  BY <1>2, <1>3

-----------------------------------------------------------------------------
(***************************************************************************)
(* The work that is stored and the charges for it                          *)
(***************************************************************************)
LEMMA ChargedIsFinite ==
  ASSUME NEW j
  PROVE  IsFiniteSet(Charged(j)) /\ Cardinality(Charged(j)) \in Nat
         /\ Cardinality(Charged(j)) <= Cardinality(Run)
  BY RunAssumption, FS_Subset, FS_CardinalityType DEF Charged

\* Nobody begins to store, and nothing more is charged.
LEMMA WorkShrinks ==
  ASSUME TypeOK, WorkCounted, worked' = worked,
         \A k \in Run : credit'[k] = "charged" => credit[k] = "charged",
         \A w \in Consumer : proc'[w].pc \in {"marker", "settle"} =>
            proc[w].pc \in {"marker", "settle"} /\ proc'[w].job = proc[w].job
  PROVE  WorkCounted'
<1> SUFFICES ASSUME NEW j \in Job
             PROVE  /\ IsFiniteSet(Storing(j)') /\ worked[j] <= Cardinality(Run)
                    /\ \/ worked[j] = Cardinality(Run)
                       \/ Cardinality(Charged(j)') + Cardinality(Storing(j)') <= worked[j]
  BY DEF WorkCounted
<1>1. Charged(j)' \subseteq Charged(j)
  BY DEF Charged
<1>2. Storing(j)' \subseteq Storing(j)
  BY DEF Storing
<1>3. IsFiniteSet(Storing(j)) /\ IsFiniteSet(Charged(j))
  BY ChargedIsFinite DEF WorkCounted
<1>4. /\ IsFiniteSet(Storing(j)')
      /\ Cardinality(Storing(j)') <= Cardinality(Storing(j))
      /\ Cardinality(Charged(j)') <= Cardinality(Charged(j))
  BY <1>1, <1>2, <1>3, FS_Subset
<1>5. /\ Cardinality(Storing(j)) \in Nat /\ Cardinality(Charged(j)) \in Nat
      /\ Cardinality(Storing(j)') \in Nat /\ Cardinality(Charged(j)') \in Nat /\ worked[j] \in Nat
  BY <1>1, <1>3, <1>4, FS_Subset, FS_CardinalityType DEF TypeOK
<1>6. QED
  BY <1>4, <1>5 DEF WorkCounted

\* Complete: one extraction is stored, and one charge is to come.
LEMMA WorkStored ==
  ASSUME TypeOK, WorkCounted, NEW w \in Consumer, Complete(w)
  PROVE  WorkCounted'
<1> DEFINE i == proc[w].job
<1>0. proc[w].pc = "complete"
  BY DEF Complete, At
<1>1. Moved(w) /\ proc'[w].pc = "marker" /\ proc'[w].job = i /\ i \in Job
  BY <1>0, Actors, ConsumerGoes, Holds DEF Complete, ConsumerPc, TypeOK
<1>2. UNCHANGED credit /\ worked' = [worked EXCEPT ![i] = IF @ < Cardinality(Run) THEN @ + 1 ELSE @]
  BY DEF Complete
<1>3. \A b \in Consumer : b # w => proc'[b] = proc[b]
  BY <1>1, Actors DEF Moved
<1>4. Cardinality(Run) \in Nat
  BY RunAssumption, FS_CardinalityType
<1> HIDE DEF i
<1> SUFFICES ASSUME NEW j \in Job
             PROVE  /\ IsFiniteSet(Storing(j)') /\ worked'[j] <= Cardinality(Run)
                    /\ \/ worked'[j] = Cardinality(Run)
                       \/ Cardinality(Charged(j)') + Cardinality(Storing(j)') <= worked'[j]
  BY DEF WorkCounted
<1>5. Charged(j)' = Charged(j) /\ IsFiniteSet(Storing(j)) /\ worked[j] \in Nat
  BY <1>2 DEF Charged, WorkCounted, TypeOK
<1>6. /\ Cardinality(Storing(j)) \in Nat /\ Cardinality(Charged(j)) \in Nat
      /\ worked[j] <= Cardinality(Run)
      /\ \/ worked[j] = Cardinality(Run)
         \/ Cardinality(Charged(j)) + Cardinality(Storing(j)) <= worked[j]
  BY <1>5, ChargedIsFinite, FS_CardinalityType DEF WorkCounted
<1>7. CASE j # i
  <2>1. Storing(j)' = Storing(j)
    BY <1>0, <1>1, <1>3, <1>7 DEF Storing, i
  <2>2. worked'[j] = worked[j]
    BY <1>2, <1>7 DEF TypeOK
  <2>3. QED
    BY <1>5, <1>6, <2>1, <2>2
<1>8. CASE j = i
  <2>1. Storing(j)' = Storing(j) \cup {w} /\ w \notin Storing(j)
    BY <1>0, <1>1, <1>3, <1>8 DEF Storing
  <2>2. IsFiniteSet(Storing(j)') /\ Cardinality(Storing(j)') = Cardinality(Storing(j)) + 1
    BY <1>5, <2>1, FS_AddElement
  <2>3. worked'[j] = IF worked[j] < Cardinality(Run) THEN worked[j] + 1 ELSE worked[j]
    BY <1>2, <1>8 DEF TypeOK
  <2>4. CASE worked[j] < Cardinality(Run)
    BY <1>4, <1>5, <1>6, <2>2, <2>3, <2>4
  <2>5. CASE ~(worked[j] < Cardinality(Run))
    BY <1>4, <1>5, <1>6, <2>2, <2>3, <2>5
  <2>6. QED
    BY <2>4, <2>5
<1>9. QED
  BY <1>7, <1>8

\* Settle: the charge that was to come.
LEMMA WorkCharged ==
  ASSUME TypeOK, WorkCounted, NEW w \in Consumer, Settle(w)
  PROVE  WorkCounted'
<1> DEFINE i == proc[w].job
<1>0. proc[w].pc = "settle"
  BY DEF Settle, At
<1>1. Moved(w) /\ proc'[w].pc = "ack" /\ i \in Job /\ worked' = worked
  BY <1>0, Actors, ConsumerGoes, Holds DEF Settle, ConsumerPc, TypeOK
<1>2. /\ \A k \in Run : \/ credit'[k] = credit[k]
                        \/ credit[k] = "held" /\ JobOf[k] = i /\ credit'[k] = "charged"
      /\ \A k, l \in Run : credit'[k] # credit[k] /\ credit'[l] # credit[l] => k = l
  BY <1>1, SettleEffect DEF Settle, Consume
<1>3. \A b \in Consumer : b # w => proc'[b] = proc[b]
  BY <1>1, Actors DEF Moved
<1>4. Cardinality(Run) \in Nat
  BY RunAssumption, FS_CardinalityType
<1> SUFFICES ASSUME NEW j \in Job
             PROVE  /\ IsFiniteSet(Storing(j)') /\ worked[j] <= Cardinality(Run)
                    /\ \/ worked[j] = Cardinality(Run)
                       \/ Cardinality(Charged(j)') + Cardinality(Storing(j)') <= worked[j]
  BY <1>1 DEF WorkCounted
<1>5. IsFiniteSet(Storing(j)) /\ IsFiniteSet(Charged(j)) /\ worked[j] \in Nat
  BY ChargedIsFinite DEF WorkCounted, TypeOK
<1>6. /\ Cardinality(Storing(j)) \in Nat /\ Cardinality(Charged(j)) \in Nat
      /\ worked[j] <= Cardinality(Run)
      /\ \/ worked[j] = Cardinality(Run)
         \/ Cardinality(Charged(j)) + Cardinality(Storing(j)) <= worked[j]
  BY <1>5, FS_CardinalityType DEF WorkCounted
<1>7. CASE j # i
  <2>1. Storing(j)' = Storing(j)
    BY <1>0, <1>1, <1>3, <1>7 DEF Storing
  <2>2. Charged(j)' = Charged(j)
    BY <1>2, <1>7 DEF Charged
  <2>3. QED
    BY <1>5, <1>6, <2>1, <2>2
<1>8. CASE j = i
  <2>1. Storing(j)' = Storing(j) \ {w} /\ w \in Storing(j)
    BY <1>0, <1>1, <1>3, <1>8 DEF Storing
  <2>2. IsFiniteSet(Storing(j)') /\ Cardinality(Storing(j)') = Cardinality(Storing(j)) - 1
    BY <1>5, <2>1, FS_RemoveElement
  <2>3. Cardinality(Charged(j)') \in Nat /\ Cardinality(Charged(j)') <= Cardinality(Charged(j)) + 1
    <3>1. CASE \E k \in Run : credit'[k] # credit[k]
      <4>1. PICK k \in Run : credit'[k] # credit[k]
        BY <3>1
      <4>2. Charged(j)' = Charged(j) \cup {k} /\ k \notin Charged(j)
        BY <1>2, <1>8, <4>1 DEF Charged
      <4>3. Cardinality(Charged(j)') = Cardinality(Charged(j)) + 1
        BY <1>5, <4>2, FS_AddElement
      <4>4. QED
        BY <1>6, <4>3
    <3>2. CASE \A k \in Run : credit'[k] = credit[k]
      <4>1. Charged(j)' = Charged(j)
        BY <3>2 DEF Charged
      <4>2. QED
        BY <1>6, <4>1
    <3>3. QED
      BY <3>1, <3>2
  <2>4. QED
    BY <1>4, <1>5, <1>6, <2>2, <2>3
<1>9. QED
  BY <1>7, <1>8

-----------------------------------------------------------------------------
(***************************************************************************)
(* Where nothing crashes                                                   *)
(***************************************************************************)
\* A step of one actor leaves a held credit accounted for: what the others are about to settle
\* they still are.
LEMMA StillAccounted ==
  ASSUME Benign, NEW a \in Actor, Moved(a),
         \A k \in Run : credit'[k] = "held" /\ status'[JobOf[k]] \notin Active =>
            \/ Settler(a, JobOf[k])'
            \/ credit[k] = "held" /\ status[JobOf[k]] \notin Active /\ ~Settler(a, JobOf[k])
  PROVE  Accounted'
<1> SUFFICES ASSUME NEW k \in Run, credit'[k] = "held", status'[JobOf[k]] \notin Active,
                    credit[k] = "held" /\ status[JobOf[k]] \notin Active /\ ~Settler(a, JobOf[k])
             PROVE  \E b \in Actor : Settler(b, JobOf[k])'
  BY DEF Accounted
<1>1. PICK b \in Actor : Settler(b, JobOf[k])
  BY DEF Benign, Accounted
<1>2. proc'[b] = proc[b]
  BY <1>1 DEF Moved
<1>3. Settler(b, JobOf[k])'
  BY <1>1, <1>2 DEF Settler
<1>4. QED
  BY <1>3

\* A caller goes on, or comes to its end.
LEMMA CallerBenign ==
  ASSUME TypeOK, Benign, NEW c \in Caller, proc[c].pc # "idle", Moved(c),
         \/ proc'[c] = Idle
         \/ /\ proc'[c].pc \in CallerPc /\ proc'[c].run = proc[c].run
            /\ proc'[c].job = proc[c].job /\ proc'[c].route = proc[c].route,
         \A j \in Job : ~old'[j], dead' = dead,
         \A k \in Run : credit'[k] = credit[k] \/ (k \notin Rerun /\ credit'[k] # "unheld"),
         \A j \in Job : status'[j] = status[j] \/ j = proc[c].job,
         queue' = queue \/ (proc[c].pc = "send" /\ queue' = queue \cup {<<proc[c].run, 1>>}),
         proc'[c].pc \in {"reserve", "write", "mark", "send"} =>
            queue' = queue /\ proc[c].pc \in {"reserve", "write", "mark", "send"},
         proc'[c].pc \in CallerPc \ {"reserve", "freeMark"} => credit'[proc[c].run] # "unheld",
         proc'[c].pc \in {"mark", "send"} => status'[proc[c].job] \in Active,
         Accounted'
  PROVE  Benign'
<1> USE DEF Benign
<1>0. /\ proc[c].run \in Run /\ proc[c].run \notin Rerun /\ proc[c].job = JobOf[proc[c].run]
      /\ proc[c] \in CallerAct
  BY Holds DEF TypeOK, FirstRuns
<1>1. \A d \in Caller : d # c => proc'[d] = proc[d]
  BY Actors DEF Moved
<1>2. \A a \in Consumer \cup {Dlq} : proc'[a] = proc[a]
  BY Actors DEF Moved
<1>3. NothingOld'
  BY Actors DEF NothingOld, Moved
<1>4. FirstRuns'
  <2>1. \A d \in Caller : proc'[d].pc # "idle" => proc[d].pc # "idle" /\ proc'[d].run = proc[d].run
                                              /\ proc'[d].route = proc[d].route
    BY <1>1, IdlePc
  <2>2. \A k \in Rerun : credit'[k] = "unheld"
    BY RunAssumption DEF FirstRuns
  <2>3. QED
    BY <2>1, <2>2 DEF FirstRuns
<1>5. \A k \in Run : Out(k)' => Out(k) \/ (k = proc[c].run /\ queue' # queue)
  BY <1>2 DEF Out
<1>6. SentLast'
  <2>1. \A k \in Run : Out(k)' => credit'[k] # "unheld"
    <3>1. queue' # queue => credit[proc[c].run] # "unheld"
      BY DEF SentLast, CallerPc
    <3>2. QED
      BY <1>0, <1>5, <3>1 DEF SentLast
  <2>2. ASSUME NEW d \in Caller, proc'[d].pc \in {"reserve", "write", "mark", "send"}
        PROVE  ~Out(proc[d].run)'
    <3>1. CASE d = c
      BY <1>0, <1>5, <2>2, <3>1, IdlePc DEF SentLast
    <3>2. CASE d # c
      <4>1. proc'[d] = proc[d] /\ proc[d].pc # "idle"
        BY <1>1, <2>2, <3>2
      <4>2. proc[d].run \in Run /\ proc[d].run # proc[c].run
        BY <3>2, <4>1, Holds DEF FirstRuns, TypeOK
      <4>3. QED
        BY <1>5, <2>2, <4>1, <4>2 DEF SentLast
    <3>3. QED
      BY <3>1, <3>2
  <2>3. ASSUME NEW d \in Caller, proc'[d].pc \in CallerPc \ {"reserve", "freeMark"}
        PROVE  credit'[proc'[d].run] # "unheld"
    <3>1. CASE d = c
      BY <2>3, <3>1, IdlePc DEF CallerPc
    <3>2. CASE d # c
      <4>1. proc'[d] = proc[d] /\ proc[d].pc # "idle"
        BY <1>1, <2>3, <3>2 DEF CallerPc
      <4>2. proc[d].run \in Run
        BY <4>1, Holds DEF TypeOK
      <4>3. QED
        BY <2>3, <4>1, <4>2 DEF SentLast
    <3>3. QED
      BY <3>1, <3>2
  <2>4. ASSUME NEW d \in Caller, proc'[d].pc \in {"mark", "send"}
        PROVE  status'[proc'[d].job] \in Active
    <3>1. CASE d = c
      BY <2>4, <3>1, IdlePc
    <3>2. CASE d # c
      <4>1. proc'[d] = proc[d] /\ proc[d].pc # "idle"
        BY <1>1, <2>4, <3>2
      <4>2. /\ proc[d].run \in Run \ Rerun /\ proc[d].run # proc[c].run
            /\ proc[d].job = JobOf[proc[d].run] /\ proc[d].job \in Job
        BY <3>2, <4>1, Holds DEF FirstRuns, TypeOK
      <4>3. proc[d].job # proc[c].job
        BY <1>0, <4>2, MintAssumption
      <4>4. QED
        BY <2>4, <4>1, <4>2, <4>3 DEF SentLast
    <3>3. QED
      BY <3>1, <3>2
  <2>5. QED
    BY <2>1, <2>2, <2>3, <2>4 DEF SentLast
<1>7. QED
  BY <1>3, <1>4, <1>6

\* A consumer or the dead-letter queue goes on, with a message that was about already.
LEMMA CourierBenign ==
  ASSUME TypeOK, Benign, NEW a \in Consumer \cup {Dlq}, Moved(a),
         proc'[a].pc # "idle" => Out(proc'[a].run),
         \A k \in Run, n \in 1..MaxDeliveries : <<k, n>> \in queue' => Out(k),
         \A k \in dead' : Out(k),
         old' = old,
         \A k \in Run : credit'[k] = credit[k] \/ (k \notin Rerun /\ credit'[k] # "unheld"),
         \A j \in Job : status'[j] = status[j] \/ (proc[a].pc # "idle" /\ j = proc[a].job),
         Accounted'
  PROVE  Benign'
<1> USE DEF Benign
<1>1. \A c \in Caller : proc'[c] = proc[c]
  BY Actors DEF Moved
<1>2. NothingOld'
  BY Actors DEF NothingOld, Moved
<1>3. FirstRuns'
  BY <1>1, RunAssumption DEF FirstRuns
<1>4. \A k \in Run : Out(k)' => Out(k)
  BY DEF Out, Moved, Actor
<1>5. SentLast'
  <2>1. \A k \in Run : Out(k)' => credit'[k] # "unheld"
    BY <1>4 DEF SentLast
  <2>2. \A c \in Caller : proc[c].pc # "idle" => proc[c].run \in Run
    BY Holds DEF TypeOK
  <2>3. ASSUME NEW c \in Caller, proc[c].pc \in {"mark", "send"}
        PROVE  status'[proc[c].job] \in Active
    <3>1. /\ proc[c].run \in Run \ Rerun /\ proc[c].job = JobOf[proc[c].run] /\ proc[c].job \in Job
          /\ ~Out(proc[c].run) /\ status[proc[c].job] \in Active
      BY <2>3, Holds DEF SentLast, FirstRuns, TypeOK
    <3>2. CASE proc[a].pc # "idle" /\ proc[a].job = proc[c].job
      <4>1. proc[a].run \in Run /\ proc[a].job = JobOf[proc[a].run] /\ Out(proc[a].run)
        BY <3>2, Holds DEF TypeOK, Out
      <4>2. proc[a].run \notin Rerun
        BY <4>1 DEF SentLast, FirstRuns
      <4>3. QED
        BY <3>1, <3>2, <4>1, <4>2, MintAssumption
    <3>3. QED
      BY <3>1, <3>2
  <2>4. \A c \in Caller : proc[c].pc \in {"reserve", "write", "mark", "send"} => ~Out(proc[c].run)'
    BY <1>1, <1>4, <2>2 DEF SentLast
  <2>5. \A c \in Caller : proc[c].pc \in CallerPc \ {"reserve", "freeMark"} =>
                             credit'[proc[c].run] # "unheld"
    BY <2>2 DEF SentLast, CallerPc
  <2>6. QED
    BY <1>1, <2>1, <2>3, <2>4, <2>5 DEF SentLast
<1>6. QED
  BY <1>2, <1>3, <1>5

-----------------------------------------------------------------------------
(***************************************************************************)
(* Callers                                                                 *)
(***************************************************************************)
LEMMA CallerKeeps ==
  ASSUME PipelineInv, NEW c \in Caller, Moved(c), AtWork(proc'[c], CallerAct),
         UNCHANGED <<hazards, dead, duplicates, worked>>,
         status' \in [Job -> Status], old' \in [Job -> BOOLEAN],
         kv' \in [Job -> {"absent", "queued", "completed", "failed"}],
         credit' \in [Run -> CreditState], queue' \subseteq Run \X (1..MaxDeliveries),
         \A k \in Run : credit'[k] = "charged" => credit[k] = "charged",
         Only(Mild) => Benign'
  PROVE  PipelineInv'
<1>1. ProcOK'
  BY Actors, ProcKept DEF PipelineInv, TypeOK
<1>2. TypeOK'
  BY <1>1 DEF PipelineInv, TypeOK
<1>3. \A w \in Consumer : proc'[w] = proc[w]
  BY Actors DEF Moved
<1>4. WorkCounted'
  BY <1>3, WorkShrinks DEF PipelineInv
<1>5. QED
  BY <1>2, <1>4 DEF PipelineInv, Only

LEMMA CallStarts ==
  ASSUME PipelineInv, NEW c \in Caller, NEW k \in Run,
         Dispatch(c, k, "dispatch") \/ Dispatch(c, k, "crawl") \/ StartRerun(c, k)
  PROVE  PipelineInv'
<1>1. PICK route \in {"dispatch", "crawl", "rerun"} :
        /\ Call(c, k, route)
        /\ \/ Dispatch(c, k, route) /\ route # "rerun"
           \/ StartRerun(c, k)
  BY DEF Dispatch, StartRerun
<1> DEFINE q == [pc |-> "reserve", job |-> JobOf[k], run |-> k, route |-> route]
<1>2. /\ q \in CallerAct /\ q.job = JobOf[q.run] /\ q.pc = "reserve" /\ q.run = k
      /\ q.route = route
  BY RunAssumption DEF CallerAct, CallerPc
<1>3. proc' = [proc EXCEPT ![c] = q]
  BY <1>1 DEF Call
<1> HIDE DEF q
<1>4. Moved(c) /\ proc'[c] = q
  BY <1>3, Actors, MovesTo DEF PipelineInv, TypeOK
<1>5. UNCHANGED <<hazards, status, old, kv, credit, queue, dead, duplicates, worked>>
  BY <1>1 DEF Call
<1>6. ASSUME Only(Mild) PROVE Benign'
  <2>1. /\ Benign /\ proc[c].pc = "idle" /\ k \notin Rerun /\ ~InUse(k) /\ credit[k] = "unheld"
        /\ route # "rerun"
    BY <1>1, <1>6 DEF PipelineInv, Dispatch, StartRerun, At, Only, Mild
  <2>2. \A d \in Caller : d # c => proc'[d] = proc[d] /\ (proc[d].pc # "idle" => proc[d].run # k)
    BY <1>4, <2>1, Actors DEF Moved, InUse
  <2>3. NothingOld'
    BY <1>4, <1>5, <2>1, Actors DEF Benign, NothingOld, Moved
  <2>4. FirstRuns'
    BY <1>2, <1>4, <1>5, <2>1, <2>2 DEF Benign, FirstRuns
  <2>5. \A l \in Run : Out(l)' <=> Out(l)
    <3>1. \A a \in Consumer \cup {Dlq} : proc'[a] = proc[a]
      BY <1>4, Actors DEF Moved
    <3>2. QED
      BY <1>5, <3>1 DEF Out
  <2>6. SentLast'
    <3>1. \A d \in Caller : proc[d].pc # "idle" => proc[d].run \in Run
      BY Holds DEF PipelineInv, TypeOK
    <3>2. \A d \in Caller : proc'[d].pc \in {"reserve", "write", "mark", "send"} => ~Out(proc[d].run)'
      BY <1>2, <1>4, <2>1, <2>2, <2>5, <3>1 DEF Benign, SentLast
    <3>3. \A d \in Caller : d # c /\ proc[d].pc \in CallerPc => proc[d].pc # "idle"
      BY DEF CallerPc
    <3>4. \A d \in Caller : proc'[d].pc \in CallerPc \ {"reserve", "freeMark"} =>
                              credit[proc'[d].run] # "unheld"
      BY <1>2, <1>4, <2>1, <2>2, <3>1, <3>3 DEF Benign, SentLast
    <3>5. \A d \in Caller : proc'[d].pc \in {"mark", "send"} => status[proc'[d].job] \in Active
      BY <1>2, <1>4, <2>1, <2>2 DEF Benign, SentLast
    <3>6. QED
      BY <1>5, <2>1, <2>5, <3>2, <3>4, <3>5 DEF Benign, SentLast
  <2>7. Accounted'
    <3>1. \A j : ~Settler(c, j)
      BY <2>1, Actors DEF Settler
    <3>2. QED
      BY <1>4, <1>5, <2>1, <3>1, Actors, StillAccounted DEF Benign, Accounted
  <2>8. QED
    BY <2>3, <2>4, <2>6, <2>7 DEF Benign
<1>7. QED
  BY <1>2, <1>4, <1>5, <1>6, CallerKeeps DEF PipelineInv, TypeOK, AtWork

\* A caller that changes neither the books nor the job's row, and has nothing to settle.
LEMMA CallerQuiet ==
  ASSUME PipelineInv, NEW c \in Caller, proc[c].pc # "idle", Moved(c), AtWork(proc'[c], CallerAct),
         \/ proc'[c] = Idle
         \/ /\ proc'[c].pc \in CallerPc /\ proc'[c].run = proc[c].run
            /\ proc'[c].job = proc[c].job /\ proc'[c].route = proc[c].route,
         UNCHANGED <<hazards, status, old, credit, dead, duplicates, worked>>,
         kv' \in [Job -> {"absent", "queued", "completed", "failed"}],
         queue' = queue \/ (proc[c].pc = "send" /\ queue' = queue \cup {<<proc[c].run, 1>>}),
         proc'[c].pc \in {"reserve", "write", "mark", "send"} =>
            queue' = queue /\ proc[c].pc \in {"mark", "send"},
         proc'[c].pc \in CallerPc \ {"reserve", "freeMark"} =>
            proc[c].pc \in CallerPc \ {"reserve", "freeMark"},
         proc[c].pc \in {"write", "unmark", "refund"} =>
            proc'[c].pc \in {"write", "unmark", "refund"}
  PROVE  PipelineInv'
<1>1. queue' \subseteq Run \X (1..MaxDeliveries)
  BY Holds DEF PipelineInv, TypeOK, MaxDeliveries
<1>2. ASSUME Only(Mild) PROVE Benign'
  <2>1. Benign
    BY <1>2 DEF PipelineInv
  <2>2. \A j : Settler(c, j) => Settler(c, j)'
    BY Actors, IdlePc DEF Settler
  <2>3. Accounted'
    BY <2>1, <2>2, Actors, StillAccounted DEF Benign, Accounted
  <2>4. proc[c].pc \in CallerPc \ {"reserve", "freeMark"} => credit[proc[c].run] # "unheld"
    BY <2>1 DEF Benign, SentLast
  <2>5. \A j \in Job : ~old[j]
    BY <2>1 DEF Benign, NothingOld
  <2>6. proc[c].pc \in {"mark", "send"} => status[proc[c].job] \in Active
    BY <2>1 DEF Benign, SentLast
  <2>7. QED
    BY <2>1, <2>3, <2>4, <2>5, <2>6, CallerBenign DEF PipelineInv
<1>3. QED
  BY <1>1, <1>2, CallerKeeps DEF PipelineInv, TypeOK

LEMMA CallerStepKeeps ==
  ASSUME PipelineInv, NEW c \in Caller, CallerStep(c)
  PROVE  PipelineInv'
<1> USE DEF PipelineInv
<1>0. ProcOK /\ c \in Actor
  BY Actors DEF TypeOK
<1>a. proc[c].pc # "idle" => /\ proc[c].job \in Job /\ proc[c].run \in Run
                             /\ proc[c].job = JobOf[proc[c].run] /\ proc[c] \in CallerAct
  BY <1>0, Holds
<1>b. AtWork(Idle, CallerAct)
  BY DEF AtWork
<1>c. Only(Mild) => /\ proc[c].pc # "idle" => proc[c].run \notin Rerun /\ proc[c].route # "rerun"
                    /\ \A j \in Job : ~old[j]
  BY DEF Benign, FirstRuns, NothingOld
<1>1. ASSUME NEW k \in Run,
             Dispatch(c, k, "dispatch") \/ Dispatch(c, k, "crawl") \/ StartRerun(c, k)
      PROVE  PipelineInv'
  BY <1>1, CallStarts
<1>2. CASE FreeRerun(c)
  <2>1. proc[c].pc = "reserve" /\ proc[c].route = "rerun" /\ Goto(c, "freeMark")
    BY <1>2 DEF FreeRerun, At
  <2>2. Moved(c) /\ AtWork(proc'[c], CallerAct)
    BY <1>0, <2>1, CallerGoes DEF CallerPc
  <2>3. /\ status' \in [Job -> Status]
        /\ UNCHANGED <<hazards, old, kv, credit, queue, dead, duplicates, worked>>
    BY <1>a, <1>2, <2>1 DEF FreeRerun, SetStatus, TypeOK, Status, Terminal
  <2>4. ~Only(Mild)
    BY <1>c, <2>1
  <2>5. QED
    BY <2>2, <2>3, <2>4, CallerKeeps DEF TypeOK
<1>3. CASE FreeMark(c) \/ Refused(c)
  <2>1. Moved(c) /\ proc'[c] = Idle /\ proc[c].pc \in {"freeMark", "reserve"}
    BY <1>0, <1>3, Rested DEF FreeMark, Refused, At
  <2>2. /\ kv' \in [Job -> {"absent", "queued", "completed", "failed"}]
        /\ UNCHANGED <<hazards, status, old, credit, queue, dead, duplicates, worked>>
    BY <1>a, <1>3, <2>1 DEF FreeMark, Refused, SetMarker, TypeOK
  <2>3. QED
    BY <1>b, <2>1, <2>2, IdlePc, CallerQuiet DEF CallerPc
<1>4. CASE Reserve(c)
  <2>1. proc[c].pc = "reserve" /\ Goto(c, "write")
    BY <1>4 DEF Reserve, At
  <2>2. /\ Moved(c) /\ AtWork(proc'[c], CallerAct) /\ proc'[c].pc = "write"
        /\ proc'[c].run = proc[c].run /\ proc'[c].job = proc[c].job /\ proc'[c].route = proc[c].route
    BY <1>0, <2>1, CallerGoes DEF CallerPc
  <2>3. UNCHANGED <<hazards, status, old, kv, queue, dead, duplicates, worked>>
    BY <1>4 DEF Reserve
  <2>4. /\ credit' \in [Run -> CreditState]
        /\ \A k \in Run : \/ credit'[k] = credit[k]
                          \/ k = proc[c].run /\ credit'[k] = "held"
        /\ credit'[proc[c].run] # "unheld"
    BY <1>a, <1>4, <2>1 DEF Reserve, TypeOK, CreditState
  <2>5. ASSUME Only(Mild) PROVE Benign'
    <3>1. \A j : ~Settler(c, j)
      BY <2>1, Actors DEF Settler
    <3>2. Settler(c, proc[c].job)'
      BY <2>2 DEF Settler
    <3>3. Accounted'
      BY <1>0, <1>a, <2>1, <2>2, <2>3, <2>4, <2>5, <3>1, <3>2, StillAccounted
    <3>4. QED
      BY <1>a, <1>c, <2>1, <2>2, <2>3, <2>4, <2>5, <3>3, CallerBenign DEF CallerPc
  <2>6. QED
    BY <2>2, <2>3, <2>4, <2>5, CallerKeeps DEF TypeOK
<1>5. CASE Write(c)
  <2>1. proc[c].pc = "write" /\ Goto(c, "mark")
    BY <1>5 DEF Write, At
  <2>2. /\ Moved(c) /\ AtWork(proc'[c], CallerAct) /\ proc'[c].pc = "mark"
        /\ proc'[c].run = proc[c].run /\ proc'[c].job = proc[c].job /\ proc'[c].route = proc[c].route
    BY <1>0, <2>1, CallerGoes DEF CallerPc
  <2>3. UNCHANGED <<hazards, kv, credit, queue, dead, duplicates, worked>>
    BY <1>5 DEF Write
  <2>4. /\ status' \in [Job -> Status] /\ old' \in [Job -> BOOLEAN]
        /\ \A j \in Job : status'[j] = IF j = proc[c].job THEN "queued" ELSE status[j]
        /\ \A j \in Job : ~old[j] => ~old'[j]
    BY <1>a, <1>5, <2>1 DEF Write, SetStatus, TypeOK, Status, Active
  <2>5. ASSUME Only(Mild) PROVE Benign'
    <3>1. \A j : Settler(c, j) => j = proc[c].job
      BY DEF Settler
    <3>2. \A k \in Run : JobOf[k] \in Job
      BY RunAssumption
    <3>3. Accounted'
      BY <1>0, <2>2, <2>3, <2>4, <2>5, <3>1, <3>2, StillAccounted DEF Active
    <3>4. credit[proc[c].run] # "unheld"
      BY <2>1, <2>5 DEF Benign, SentLast, CallerPc
    <3>5. QED
      BY <1>a, <1>c, <2>1, <2>2, <2>3, <2>4, <2>5, <3>3, <3>4, CallerBenign DEF CallerPc, Active
  <2>6. QED
    BY <2>2, <2>3, <2>4, <2>5, CallerKeeps DEF TypeOK
<1>6. CASE Mark(c)
  <2>1. proc[c].pc = "mark" /\ Goto(c, "send")
    BY <1>6 DEF Mark, At
  <2>2. /\ Moved(c) /\ AtWork(proc'[c], CallerAct) /\ proc'[c].pc = "send"
        /\ proc'[c].run = proc[c].run /\ proc'[c].job = proc[c].job /\ proc'[c].route = proc[c].route
    BY <1>0, <2>1, CallerGoes DEF CallerPc
  <2>3. /\ kv' \in [Job -> {"absent", "queued", "completed", "failed"}]
        /\ UNCHANGED <<hazards, status, old, credit, queue, dead, duplicates, worked>>
    BY <1>a, <1>6, <2>1 DEF Mark, SetMarker, TypeOK
  <2>4. QED
    BY <2>1, <2>2, <2>3, CallerQuiet DEF CallerPc
<1>7. CASE Send(c)
  <2>1. Moved(c) /\ proc'[c] = Idle /\ proc[c].pc = "send"
    BY <1>0, <1>7, Rested DEF Send, At
  <2>2. /\ queue' = queue \cup {<<proc[c].run, 1>>}
        /\ UNCHANGED <<hazards, status, old, kv, credit, dead, duplicates, worked>>
    BY <1>7 DEF Send
  <2>3. QED
    BY <1>b, <2>1, <2>2, IdlePc, CallerQuiet DEF CallerPc, TypeOK
<1>8. CASE SendFails(c)
  <2>1. proc[c].pc = "send" /\ Goto(c, "unwrite")
    BY <1>8 DEF SendFails, At
  <2>2. /\ Moved(c) /\ AtWork(proc'[c], CallerAct) /\ proc'[c].pc = "unwrite"
        /\ proc'[c].run = proc[c].run /\ proc'[c].job = proc[c].job /\ proc'[c].route = proc[c].route
    BY <1>0, <2>1, CallerGoes DEF CallerPc
  <2>3. /\ queue' = queue \/ queue' = queue \cup {<<proc[c].run, 1>>}
        /\ UNCHANGED <<hazards, status, old, kv, credit, dead, duplicates, worked>>
    BY <1>8 DEF SendFails
  <2>4. QED
    BY <2>1, <2>2, <2>3, CallerQuiet DEF CallerPc, TypeOK
<1>9. CASE Unwrite(c)
  <2>1. proc[c].pc = "unwrite" /\ Goto(c, "unmark")
    BY <1>9 DEF Unwrite, At
  <2>2. /\ Moved(c) /\ AtWork(proc'[c], CallerAct) /\ proc'[c].pc = "unmark"
        /\ proc'[c].run = proc[c].run /\ proc'[c].job = proc[c].job /\ proc'[c].route = proc[c].route
    BY <1>0, <2>1, CallerGoes DEF CallerPc
  <2>3. UNCHANGED <<hazards, old, kv, credit, queue, dead, duplicates, worked>>
    BY <1>9 DEF Unwrite
  <2>4. /\ status' \in [Job -> Status]
        /\ \A j \in Job : status'[j] = status[j] \/ j = proc[c].job
    <3>1. proc[c].route \in {"dispatch", "crawl", "rerun"}
      BY <1>a, <2>1 DEF CallerAct
    <3>2. status' = status \/ \E x \in Status : status' = [status EXCEPT ![proc[c].job] = x]
      BY <1>9, <3>1 DEF Unwrite, SetStatus, Status, Terminal
    <3>3. QED
      BY <1>a, <2>1, <3>2 DEF TypeOK
  <2>5. ASSUME Only(Mild) PROVE Benign'
    <3>1. Settler(c, proc[c].job)' /\ \A j : ~Settler(c, j)
      BY <2>1, <2>2, Actors DEF Settler
    <3>2. \A k \in Run : JobOf[k] \in Job
      BY RunAssumption
    <3>3. Accounted'
      BY <1>0, <2>2, <2>3, <2>4, <2>5, <3>1, <3>2, StillAccounted
    <3>4. credit[proc[c].run] # "unheld"
      BY <2>1, <2>5 DEF Benign, SentLast, CallerPc
    <3>5. QED
      BY <1>a, <1>c, <2>1, <2>2, <2>3, <2>4, <2>5, <3>3, <3>4, CallerBenign DEF CallerPc
  <2>6. QED
    BY <2>2, <2>3, <2>4, <2>5, CallerKeeps DEF TypeOK
<1>10. CASE Unmark(c)
  <2>1. proc[c].pc = "unmark" /\ Goto(c, "refund")
    BY <1>10 DEF Unmark, At
  <2>2. /\ Moved(c) /\ AtWork(proc'[c], CallerAct) /\ proc'[c].pc = "refund"
        /\ proc'[c].run = proc[c].run /\ proc'[c].job = proc[c].job /\ proc'[c].route = proc[c].route
    BY <1>0, <2>1, CallerGoes DEF CallerPc
  <2>3. /\ kv' \in [Job -> {"absent", "queued", "completed", "failed"}]
        /\ UNCHANGED <<hazards, status, old, credit, queue, dead, duplicates, worked>>
    BY <1>a, <1>10, <2>1 DEF Unmark, SetMarker, TypeOK
  <2>4. QED
    BY <2>1, <2>2, <2>3, CallerQuiet DEF CallerPc
<1>11. CASE Refund(c)
  <2>1. Moved(c) /\ proc'[c] = Idle /\ proc[c].pc = "refund"
    BY <1>0, <1>11, Rested DEF Refund, At
  <2>2. UNCHANGED <<hazards, status, old, kv, queue, dead, duplicates, worked>>
    BY <1>11 DEF Refund
  <2>3. SettleRun(c, proc[c].job, "returned")
    BY <1>11 DEF Refund, Release
  <2>4. /\ credit' \in [Run -> CreditState]
        /\ \A k \in Run : \/ credit'[k] = credit[k]
                          \/ credit[k] = "held" /\ credit'[k] = "returned"
    BY <1>a, <2>1, <2>3, SettleEffect
  <2>5. ASSUME Only(Mild) PROVE Benign'
    <3>1. \A k \in Run : JobOf[k] = proc[c].job => credit'[k] # "held"
      BY <1>a, <2>1, <2>3, <2>5, SettlesAll
    <3>2. \A j : Settler(c, j) => j = proc[c].job
      BY DEF Settler
    <3>3. Accounted'
      BY <1>0, <2>1, <2>2, <2>4, <2>5, <3>1, <3>2, StillAccounted
    <3>4. \A k \in Rerun : credit[k] = "unheld"
      BY <2>5 DEF Benign, FirstRuns
    <3>5. QED
      BY <1>c, <2>1, <2>2, <2>4, <2>5, <3>3, <3>4, IdlePc, CallerBenign DEF CallerPc
  <2>6. QED
    BY <1>b, <2>1, <2>2, <2>4, <2>5, CallerKeeps DEF TypeOK
<1>12. CASE Stop(c)
  <2>1. Moved(c) /\ proc'[c] = Idle /\ ~Only(Mild)
    BY <1>0, <1>12, Rested DEF Stop, Only, Mild
  <2>2. UNCHANGED <<hazards, status, old, kv, credit, queue, dead, duplicates, worked>>
    BY <1>12 DEF Stop
  <2>3. QED
    BY <1>b, <2>1, <2>2, CallerKeeps DEF TypeOK
<1>13. QED
  BY <1>1, <1>2, <1>3, <1>4, <1>5, <1>6, <1>7, <1>8, <1>9, <1>10, <1>11, <1>12 DEF CallerStep

-----------------------------------------------------------------------------
(***************************************************************************)
(* Consumers and the dead-letter queue                                     *)
(***************************************************************************)
LEMMA CourierKeeps ==
  ASSUME PipelineInv, NEW a \in Consumer \cup {Dlq}, Moved(a),
         a \in Consumer => AtWork(proc'[a], ConsumerAct), a = Dlq => AtWork(proc'[a], DlqAct),
         UNCHANGED <<hazards, old>>, duplicates' \in Nat, worked' \in [Job -> Nat],
         status' \in [Job -> Status],
         kv' \in [Job -> {"absent", "queued", "completed", "failed"}],
         credit' \in [Run -> CreditState],
         queue' \subseteq Run \X (1..MaxDeliveries), dead' \subseteq Run,
         WorkCounted',
         Only(Mild) =>
            /\ proc'[a].pc # "idle" => Out(proc'[a].run)
            /\ \A k \in Run, n \in 1..MaxDeliveries : <<k, n>> \in queue' => Out(k)
            /\ \A k \in dead' : Out(k)
            /\ \A k \in Run : credit'[k] = credit[k] \/ (k \notin Rerun /\ credit'[k] # "unheld")
            /\ \A j \in Job : status'[j] = status[j] \/ (proc[a].pc # "idle" /\ j = proc[a].job)
            /\ Accounted'
  PROVE  PipelineInv'
<1>1. ProcOK'
  BY Actors, ProcKept DEF PipelineInv, TypeOK
<1>2. TypeOK'
  BY <1>1 DEF PipelineInv, TypeOK
<1>3. Only(Mild) => Benign'
  BY CourierBenign DEF PipelineInv
<1>4. QED
  BY <1>2, <1>3 DEF PipelineInv, Only

\* A consumer or the dead-letter queue that changes neither the ledger nor the job's row, with
\* no more to settle than before and, where nothing crashes, no less.
LEMMA CourierQuiet ==
  ASSUME PipelineInv, NEW a \in Consumer \cup {Dlq}, Moved(a),
         a \in Consumer => AtWork(proc'[a], ConsumerAct), a = Dlq => AtWork(proc'[a], DlqAct),
         UNCHANGED <<hazards, status, old, credit, worked>>, duplicates' \in Nat,
         kv' \in [Job -> {"absent", "queued", "completed", "failed"}],
         queue' \subseteq Run \X (1..MaxDeliveries), dead' \subseteq Run,
         proc'[a].pc # "idle" => Out(proc'[a].run),
         \A k \in Run, n \in 1..MaxDeliveries : <<k, n>> \in queue' => Out(k),
         \A k \in dead' : Out(k),
         a \in Consumer /\ proc'[a].pc \in {"marker", "settle"} =>
            proc[a].pc \in {"marker", "settle"} /\ proc'[a].job = proc[a].job,
         Only(Mild) => \A j : Settler(a, j) => Settler(a, j)'
  PROVE  PipelineInv'
<1>1. WorkCounted'
  <2>1. \A w \in Consumer : w # a => proc'[w] = proc[w]
    BY Actors DEF Moved
  <2>2. QED
    BY <2>1, WorkShrinks DEF PipelineInv
<1>2. Only(Mild) => Accounted'
  BY Actors, StillAccounted DEF PipelineInv, Benign
<1>3. QED
  BY <1>1, <1>2, CourierKeeps DEF PipelineInv, TypeOK

\* A message that goes back is one that was about.
LEMMA RedeliverEffect ==
  ASSUME TypeOK, NEW w \in Consumer, proc[w].pc # "idle", Redeliver(proc[w].run, proc[w].attempt)
  PROVE  /\ queue' \subseteq Run \X (1..MaxDeliveries) /\ dead' \subseteq Run
         /\ \A k \in Run, n \in 1..MaxDeliveries : <<k, n>> \in queue' => Out(k)
         /\ \A k \in dead' : Out(k)
<1>1. proc[w].run \in Run /\ proc[w].attempt \in 1..MaxDeliveries
  BY Holds DEF TypeOK, ConsumerAct
<1>2. Out(proc[w].run)
  BY DEF Out
<1>3. CASE proc[w].attempt < MaxDeliveries
  <2>1. queue' = queue \cup {<<proc[w].run, proc[w].attempt + 1>>} /\ dead' = dead
    BY <1>3 DEF Redeliver
  <2>2. proc[w].attempt + 1 \in 1..MaxDeliveries
    BY <1>1, <1>3 DEF MaxDeliveries
  <2>3. QED
    BY <1>1, <1>2, <2>1, <2>2 DEF TypeOK, Out
<1>4. CASE ~(proc[w].attempt < MaxDeliveries)
  <2>1. dead' = dead \cup {proc[w].run} /\ queue' = queue
    BY <1>4 DEF Redeliver
  <2>2. QED
    BY <1>1, <1>2, <2>1 DEF TypeOK, Out
<1>5. QED
  BY <1>3, <1>4

LEMMA DeliverKeeps ==
  ASSUME PipelineInv, NEW w \in Consumer, NEW m \in queue, Deliver(w, m)
  PROVE  PipelineInv'
<1>1. m[1] \in Run /\ m[2] \in 1..MaxDeliveries /\ Out(m[1])
  BY DEF PipelineInv, TypeOK, Out
<1>2. PICK pc \in {"claim", "requeue", "fail"} :
         proc' = [proc EXCEPT ![w] = [pc |-> pc, job |-> JobOf[m[1]], run |-> m[1],
                                      attempt |-> m[2]]]
  BY DEF Deliver, RecoveryPc
<1> DEFINE q == [pc |-> pc, job |-> JobOf[m[1]], run |-> m[1], attempt |-> m[2]]
<1>3. q \in ConsumerAct /\ q.job = JobOf[q.run] /\ q.pc = pc /\ q.run = m[1]
  BY <1>1, RunAssumption DEF ConsumerAct, ConsumerPc
<1>0. proc' = [proc EXCEPT ![w] = q]
  BY <1>2
<1> HIDE DEF q
<1>4. Moved(w) /\ proc'[w] = q
  BY <1>0, Actors, MovesTo DEF PipelineInv, TypeOK
<1>5. proc[w].pc = "idle" /\ UNCHANGED <<hazards, status, old, kv, credit, dead, worked>>
  BY DEF Deliver, At
<1>6. queue' \subseteq queue /\ duplicates' \in Nat
  BY DEF Deliver, PipelineInv, TypeOK
<1>7. \A j : ~Settler(w, j)
  BY <1>5, Actors DEF Settler
<1>8. /\ \A k \in Run, n \in 1..MaxDeliveries : <<k, n>> \in queue' => Out(k)
      /\ \A k \in dead' : Out(k)
  BY <1>5, <1>6 DEF Out
<1>9. QED
  BY <1>1, <1>3, <1>4, <1>5, <1>6, <1>7, <1>8, Actors, CourierQuiet
     DEF AtWork, PipelineInv, TypeOK

LEMMA ConsumerStepKeeps ==
  ASSUME PipelineInv, NEW w \in Consumer, ConsumerStep(w)
  PROVE  PipelineInv'
<1> USE DEF PipelineInv
<1>0. ProcOK /\ w \in Actor
  BY Actors DEF TypeOK
<1>a. proc[w].pc # "idle" => /\ proc[w].job \in Job /\ proc[w].run \in Run
                             /\ proc[w].job = JobOf[proc[w].run] /\ proc[w] \in ConsumerAct
                             /\ Out(proc[w].run)
  BY <1>0, Holds DEF Out
<1>b. AtWork(Idle, ConsumerAct)
  BY DEF AtWork
<1>c. /\ \A k \in Run, n \in 1..MaxDeliveries : <<k, n>> \in queue => Out(k)
      /\ \A k \in dead : Out(k)
  BY DEF Out
<1>d. \A k \in Run : JobOf[k] \in Job
  BY RunAssumption
\* The settlers among the consumers.
<1>e. \A j : Settler(w, j) <=> /\ proc[w].pc \in {"marker", "settle", "failMark", "release"}
                               /\ proc[w].job = j
  BY Actors DEF Settler
<1>f. \A j : Settler(w, j)' <=> /\ proc'[w].pc \in {"marker", "settle", "failMark", "release"}
                                /\ proc'[w].job = j
  BY Actors DEF Settler
\* Nobody begins to store.
<1>g. ASSUME Moved(w), worked' = worked, proc'[w].pc \notin {"marker", "settle"},
             \A k \in Run : credit'[k] = "charged" => credit[k] = "charged"
      PROVE  WorkCounted'
  BY <1>g, Actors, WorkShrinks DEF Moved
<1>1. ASSUME NEW m \in queue, Deliver(w, m)
      PROVE  PipelineInv'
  BY <1>1, DeliverKeeps
<1>2. CASE Claim(w)
  <2>1. PICK pc \in {"extract", "ack"} :
          /\ proc[w].pc = "claim" /\ Goto(w, pc)
          /\ \/ status[proc[w].job] = "queued" /\ SetStatus(proc[w].job, "processing")
             \/ UNCHANGED status
    BY <1>2 DEF Claim, At
  <2>2. /\ Moved(w) /\ AtWork(proc'[w], ConsumerAct) /\ proc'[w].pc = pc
        /\ proc'[w].run = proc[w].run /\ proc'[w].job = proc[w].job
    BY <1>0, <2>1, ConsumerGoes DEF ConsumerPc
  <2>3. UNCHANGED <<hazards, old, kv, credit, queue, dead, duplicates, worked>>
    BY <1>2 DEF Claim
  <2>4. /\ status' \in [Job -> Status]
        /\ \A j \in Job : status'[j] = status[j] \/ (j = proc[w].job /\ status'[j] = "processing")
    BY <1>a, <2>1 DEF SetStatus, TypeOK, Status, Active
  <2>5. Only(Mild) => Accounted'
    BY <1>0, <1>d, <1>e, <2>1, <2>2, <2>3, <2>4, StillAccounted DEF Active
  <2>6. QED
    BY <1>a, <1>c, <1>g, <2>1, <2>2, <2>3, <2>4, <2>5, Actors, CourierKeeps DEF TypeOK
<1>3. CASE Extract(w) \/ Catch(w)
  <2>1. PICK pc \in {"complete", "requeue", "fail"} :
          proc[w].pc # "idle" /\ Goto(w, pc) /\ (Only(Mild) => proc[w].pc = "extract")
    BY <1>3 DEF Extract, Catch, RecoveryPc, At, Only, Mild
  <2>2. /\ Moved(w) /\ AtWork(proc'[w], ConsumerAct) /\ proc'[w].pc = pc
        /\ proc'[w].run = proc[w].run /\ proc'[w].job = proc[w].job
    BY <1>0, <2>1, ConsumerGoes DEF ConsumerPc
  <2>3. UNCHANGED <<hazards, status, old, kv, credit, queue, dead, duplicates, worked>>
    BY <1>3 DEF Extract, Catch
  <2>4. Only(Mild) => \A j : ~Settler(w, j)
    BY <1>e, <2>1
  <2>5. QED
    BY <1>a, <1>c, <2>1, <2>2, <2>3, <2>4, Actors, CourierQuiet DEF TypeOK
<1>4. CASE Complete(w)
  <2>1. proc[w].pc = "complete" /\ Goto(w, "marker")
    BY <1>4 DEF Complete, At
  <2>2. /\ Moved(w) /\ AtWork(proc'[w], ConsumerAct) /\ proc'[w].pc = "marker"
        /\ proc'[w].run = proc[w].run /\ proc'[w].job = proc[w].job
    BY <1>0, <2>1, ConsumerGoes DEF ConsumerPc
  <2>3. UNCHANGED <<hazards, old, kv, credit, queue, dead, duplicates>>
    BY <1>4 DEF Complete
  <2>4. /\ status' \in [Job -> Status] /\ worked' \in [Job -> Nat]
        /\ \A j \in Job : status'[j] = status[j] \/ j = proc[w].job
    BY <1>a, <1>4, <2>1 DEF Complete, SetStatus, TypeOK, Status, Terminal
  <2>5. WorkCounted'
    BY <1>4, WorkStored
  <2>6. Only(Mild) => Accounted'
    BY <1>0, <1>d, <1>e, <1>f, <2>1, <2>2, <2>3, <2>4, StillAccounted
  <2>7. QED
    BY <1>a, <1>c, <2>1, <2>2, <2>3, <2>4, <2>5, <2>6, Actors, CourierKeeps DEF TypeOK
<1>5. CASE Marker(w) \/ FailMark(w)
  <2>1. PICK pc \in {"settle", "release"} :
          /\ proc[w].pc = (IF pc = "settle" THEN "marker" ELSE "failMark") /\ Goto(w, pc)
    BY <1>5 DEF Marker, FailMark, At
  <2>2. /\ Moved(w) /\ AtWork(proc'[w], ConsumerAct) /\ proc'[w].pc = pc
        /\ proc'[w].run = proc[w].run /\ proc'[w].job = proc[w].job
    BY <1>0, <2>1, ConsumerGoes DEF ConsumerPc
  <2>3. /\ kv' \in [Job -> {"absent", "queued", "completed", "failed"}]
        /\ UNCHANGED <<hazards, status, old, credit, queue, dead, duplicates, worked>>
    BY <1>a, <1>5, <2>1 DEF Marker, FailMark, SetMarker, TypeOK
  <2>4. \A j : Settler(w, j) => Settler(w, j)'
    BY <1>e, <1>f, <2>2
  <2>5. QED
    BY <1>a, <1>c, <2>1, <2>2, <2>3, <2>4, Actors, CourierQuiet DEF TypeOK
<1>6. CASE Settle(w) \/ ReleaseFailed(w)
  <2>1. PICK ending \in {"charged", "returned"} :
          /\ proc[w].pc = (IF ending = "charged" THEN "settle" ELSE "release")
          /\ Goto(w, "ack") /\ SettleRun(w, proc[w].job, ending)
    BY <1>6 DEF Settle, ReleaseFailed, Consume, Release, At
  <2>2. /\ Moved(w) /\ AtWork(proc'[w], ConsumerAct) /\ proc'[w].pc = "ack"
        /\ proc'[w].run = proc[w].run /\ proc'[w].job = proc[w].job
    BY <1>0, <2>1, ConsumerGoes DEF ConsumerPc
  <2>3. UNCHANGED <<hazards, status, old, kv, queue, dead, duplicates, worked>>
    BY <1>6 DEF Settle, ReleaseFailed
  <2>4. /\ credit' \in [Run -> CreditState]
        /\ \A k \in Run : \/ credit'[k] = credit[k]
                          \/ /\ credit[k] = "held" /\ JobOf[k] = proc[w].job
                             /\ credit'[k] = ending
    BY <1>a, <2>1, SettleEffect
  <2>5. WorkCounted'
    <3>1. CASE Settle(w)
      BY <3>1, WorkCharged
    <3>2. CASE ReleaseFailed(w)
      <4>1. ending = "returned"
        BY <2>1, <3>2 DEF ReleaseFailed, At
      <4>2. QED
        BY <1>g, <2>2, <2>3, <2>4, <4>1
    <3>3. QED
      BY <1>6, <3>1, <3>2
  <2>6. Only(Mild) => Accounted'
    <3>1. Only(Mild) => \A k \in Run : JobOf[k] = proc[w].job => credit'[k] # "held"
      BY <1>a, <2>1, SettlesAll
    <3>2. QED
      BY <1>0, <1>e, <2>2, <2>3, <2>4, <3>1, StillAccounted
  <2>7. Only(Mild) => \A k \in Rerun : credit[k] = "unheld"
    BY DEF Benign, FirstRuns
  <2>8. QED
    BY <1>a, <1>c, <2>1, <2>2, <2>3, <2>4, <2>5, <2>6, <2>7, Actors, CourierKeeps DEF TypeOK
<1>7. CASE Requeue(w) \/ Fail(w)
  <2>1. PICK s \in {"queued", "failed"} :
          /\ proc[w].pc = (IF s = "queued" THEN "requeue" ELSE "fail") /\ SetStatus(proc[w].job, s)
          /\ Goto(w, IF s = "queued" THEN "requeueMark" ELSE "failMark")
    BY <1>7 DEF Requeue, Fail, At
  <2>2. /\ Moved(w) /\ AtWork(proc'[w], ConsumerAct)
        /\ proc'[w].pc = (IF s = "queued" THEN "requeueMark" ELSE "failMark")
        /\ proc'[w].run = proc[w].run /\ proc'[w].job = proc[w].job
    BY <1>0, <2>1, ConsumerGoes DEF ConsumerPc
  <2>3. UNCHANGED <<hazards, old, kv, credit, queue, dead, duplicates, worked>>
    BY <1>7 DEF Requeue, Fail
  <2>4. /\ status' \in [Job -> Status]
        /\ \A j \in Job : status'[j] = IF j = proc[w].job THEN s ELSE status[j]
    BY <1>a, <2>1 DEF SetStatus, TypeOK, Status, Active, Terminal
  <2>5. Only(Mild) => Accounted'
    BY <1>0, <1>d, <1>e, <1>f, <2>1, <2>2, <2>3, <2>4, StillAccounted DEF Active
  <2>6. QED
    BY <1>a, <1>c, <1>g, <2>1, <2>2, <2>3, <2>4, <2>5, Actors, CourierKeeps DEF TypeOK
<1>8. CASE RequeueMark(w) \/ Abandon(w)
  <2>1. /\ Moved(w) /\ proc'[w] = Idle /\ proc[w].pc # "idle"
        /\ Only(Mild) => proc[w].pc = "requeueMark"
        /\ Redeliver(proc[w].run, proc[w].attempt)
    BY <1>0, <1>8, Rested DEF RequeueMark, Abandon, At, Only, Mild
  <2>2. /\ kv' \in [Job -> {"absent", "queued", "completed", "failed"}]
        /\ UNCHANGED <<hazards, status, old, credit, duplicates, worked>>
    BY <1>a, <1>8, <2>1 DEF RequeueMark, Abandon, SetMarker, TypeOK
  <2>3. Only(Mild) => \A j : ~Settler(w, j)
    BY <1>e, <2>1
  <2>4. QED
    BY <1>b, <2>1, <2>2, <2>3, IdlePc, Actors, RedeliverEffect, CourierQuiet DEF TypeOK
<1>9. CASE Ack(w)
  <2>1. Moved(w) /\ proc'[w] = Idle /\ proc[w].pc = "ack"
    BY <1>0, <1>9, Rested DEF Ack, At
  <2>2. UNCHANGED <<hazards, status, old, kv, credit, queue, dead, duplicates, worked>>
    BY <1>9 DEF Ack
  <2>3. \A j : ~Settler(w, j)
    BY <1>e, <2>1
  <2>4. QED
    BY <1>b, <1>c, <2>1, <2>2, <2>3, IdlePc, Actors, CourierQuiet DEF TypeOK
<1>10. QED
  BY <1>1, <1>2, <1>3, <1>4, <1>5, <1>6, <1>7, <1>8, <1>9 DEF ConsumerStep

LEMMA DlqStepKeeps ==
  ASSUME PipelineInv, DlqStep
  PROVE  PipelineInv'
<1> USE DEF PipelineInv
<1>0. ProcOK /\ Dlq \in Actor
  BY Actors DEF TypeOK
<1>a. proc[Dlq].pc # "idle" => /\ proc[Dlq].job \in Job /\ proc[Dlq].run \in Run
                               /\ proc[Dlq].job = JobOf[proc[Dlq].run] /\ Out(proc[Dlq].run)
  BY <1>0, Holds DEF Out
<1>b. AtWork(Idle, DlqAct)
  BY DEF AtWork
<1>c. /\ \A k \in Run, n \in 1..MaxDeliveries : <<k, n>> \in queue => Out(k)
      /\ \A k \in dead : Out(k)
  BY DEF Out
<1>d. \A k \in Run : JobOf[k] \in Job
  BY RunAssumption
<1>e. \A j : Settler(Dlq, j) <=> proc[Dlq].pc \in {"buryMark", "release"} /\ proc[Dlq].job = j
  BY Actors DEF Settler
<1>f. \A j : Settler(Dlq, j)' <=> proc'[Dlq].pc \in {"buryMark", "release"} /\ proc'[Dlq].job = j
  BY Actors DEF Settler
<1>g. ASSUME Moved(Dlq), worked' = worked,
             \A k \in Run : credit'[k] = "charged" => credit[k] = "charged"
      PROVE  WorkCounted'
  BY <1>g, Actors, WorkShrinks DEF Moved
<1>1. ASSUME NEW k \in dead, DeadDeliver(k)
      PROVE  PipelineInv'
  <2> DEFINE q == [pc |-> "bury", job |-> JobOf[k], run |-> k]
  <2>1. k \in Run /\ Out(k)
    BY DEF TypeOK, Out
  <2>2. q \in DlqAct /\ q.job = JobOf[q.run] /\ q.pc = "bury" /\ q.run = k
    BY <2>1, RunAssumption DEF DlqAct, DlqPc
  <2>3. proc' = [proc EXCEPT ![Dlq] = q] /\ proc[Dlq].pc = "idle"
    BY <1>1 DEF DeadDeliver, At
  <2> HIDE DEF q
  <2>4. Moved(Dlq) /\ proc'[Dlq] = q
    BY <1>0, <2>3, MovesTo
  <2>5. UNCHANGED <<hazards, status, old, kv, credit, queue, dead, duplicates, worked>>
    BY <1>1 DEF DeadDeliver
  <2>6. \A j : ~Settler(Dlq, j)
    BY <1>e, <2>3
  <2>7. QED
    BY <1>c, <2>1, <2>2, <2>3, <2>4, <2>5, <2>6, Actors, CourierQuiet DEF AtWork, TypeOK
<1>2. CASE Bury
  <2>1. PICK pc \in {"buryMark", "release"} :
          /\ proc[Dlq].pc = "bury" /\ Goto(Dlq, pc)
          /\ SetStatus(proc[Dlq].job, "failed") \/ UNCHANGED status
    BY <1>2 DEF Bury, At
  <2>2. /\ Moved(Dlq) /\ AtWork(proc'[Dlq], DlqAct) /\ proc'[Dlq].pc = pc
        /\ proc'[Dlq].run = proc[Dlq].run /\ proc'[Dlq].job = proc[Dlq].job
    BY <1>0, <2>1, DlqGoes DEF DlqPc
  <2>3. UNCHANGED <<hazards, old, kv, credit, queue, dead, duplicates, worked>>
    BY <1>2 DEF Bury
  <2>4. /\ status' \in [Job -> Status]
        /\ \A j \in Job : status'[j] = status[j] \/ j = proc[Dlq].job
    BY <1>a, <2>1 DEF SetStatus, TypeOK, Status, Terminal
  <2>5. Only(Mild) => Accounted'
    BY <1>0, <1>d, <1>e, <1>f, <2>1, <2>2, <2>3, <2>4, StillAccounted
  <2>6. QED
    BY <1>a, <1>c, <1>g, <2>1, <2>2, <2>3, <2>4, <2>5, Actors, CourierKeeps DEF TypeOK
<1>3. CASE BuryMark
  <2>1. proc[Dlq].pc = "buryMark" /\ Goto(Dlq, "release")
    BY <1>3 DEF BuryMark, At
  <2>2. /\ Moved(Dlq) /\ AtWork(proc'[Dlq], DlqAct) /\ proc'[Dlq].pc = "release"
        /\ proc'[Dlq].run = proc[Dlq].run /\ proc'[Dlq].job = proc[Dlq].job
    BY <1>0, <2>1, DlqGoes DEF DlqPc
  <2>3. /\ kv' \in [Job -> {"absent", "queued", "completed", "failed"}]
        /\ UNCHANGED <<hazards, status, old, credit, queue, dead, duplicates, worked>>
    BY <1>a, <1>3, <2>1 DEF BuryMark, SetMarker, TypeOK
  <2>4. \A j : Settler(Dlq, j) => Settler(Dlq, j)'
    BY <1>e, <1>f, <2>2
  <2>5. QED
    BY <1>a, <1>c, <2>1, <2>2, <2>3, <2>4, Actors, CourierQuiet DEF TypeOK
<1>4. CASE BuryRelease
  <2>1. /\ Moved(Dlq) /\ proc'[Dlq] = Idle /\ proc[Dlq].pc = "release"
        /\ SettleRun(Dlq, proc[Dlq].job, "returned")
    BY <1>0, <1>4, Rested DEF BuryRelease, Release, At
  <2>2. dead' \subseteq dead /\ UNCHANGED <<hazards, status, old, kv, queue, duplicates, worked>>
    BY <1>4 DEF BuryRelease
  <2>3. /\ credit' \in [Run -> CreditState]
        /\ \A k \in Run : \/ credit'[k] = credit[k]
                          \/ /\ credit[k] = "held" /\ JobOf[k] = proc[Dlq].job
                             /\ credit'[k] = "returned"
    BY <1>a, <2>1, SettleEffect
  <2>4. Only(Mild) => Accounted'
    <3>1. Only(Mild) => \A k \in Run : JobOf[k] = proc[Dlq].job => credit'[k] # "held"
      BY <1>a, <2>1, SettlesAll
    <3>2. QED
      BY <1>0, <1>e, <2>1, <2>2, <2>3, <3>1, StillAccounted
  <2>5. Only(Mild) => \A k \in Rerun : credit[k] = "unheld"
    BY DEF Benign, FirstRuns
  <2>6. QED
    BY <1>b, <1>c, <1>g, <2>1, <2>2, <2>3, <2>4, <2>5, IdlePc, Actors, CourierKeeps DEF TypeOK
<1>5. CASE DlqStops
  <2>1. Moved(Dlq) /\ proc'[Dlq] = Idle /\ ~Only(Mild)
    BY <1>0, <1>5, Rested DEF DlqStops, Only, Mild
  <2>2. /\ dead' \subseteq dead
        /\ UNCHANGED <<hazards, status, old, kv, credit, queue, duplicates, worked>>
    BY <1>5 DEF DlqStops
  <2>3. QED
    BY <1>b, <1>c, <2>1, <2>2, IdlePc, Actors, CourierQuiet DEF TypeOK
<1>6. QED
  BY <1>1, <1>2, <1>3, <1>4, <1>5 DEF DlqStep

-----------------------------------------------------------------------------
(***************************************************************************)
(* The sweeper, and time                                                   *)
(***************************************************************************)
LEMMA SweeperKeeps ==
  ASSUME PipelineInv, ~Only(Mild), Moved(Sweeper),
         proc'[Sweeper] = Idle \/ proc'[Sweeper] \in SweeperAct,
         UNCHANGED <<hazards, old, queue, dead, duplicates, worked>>,
         status' \in [Job -> Status],
         kv' \in [Job -> {"absent", "queued", "completed", "failed"}],
         credit' \in [Run -> CreditState],
         \A k \in Run : credit'[k] = "charged" => credit[k] = "charged"
  PROVE  PipelineInv'
<1>1. ProcOK'
  BY Actors, ProcKept DEF PipelineInv, TypeOK
<1>2. TypeOK'
  BY <1>1 DEF PipelineInv, TypeOK
<1>3. WorkCounted'
  BY Actors, WorkShrinks DEF PipelineInv, Moved
<1>4. QED
  BY <1>2, <1>3 DEF PipelineInv, Only

LEMMA SweepNextTyped ==
  ASSUME ProcOK, NEW left \in SUBSET Job, SweepNext(left)
  PROVE  Moved(Sweeper) /\ (proc'[Sweeper] = Idle \/ proc'[Sweeper] \in SweeperAct)
<1>1. CASE left = {}
  BY <1>1, Actors, Rested DEF SweepNext
<1>2. CASE left # {}
  <2>1. PICK j \in left :
          proc' = [proc EXCEPT ![Sweeper] = [pc |-> "release", job |-> j, left |-> left \ {j}]]
    BY <1>2 DEF SweepNext
  <2> DEFINE q == [pc |-> "release", job |-> j, left |-> left \ {j}]
  <2>2. q \in SweeperAct /\ proc' = [proc EXCEPT ![Sweeper] = q]
    BY <2>1 DEF SweeperAct
  <2> HIDE DEF q
  <2>3. QED
    BY <2>2, Actors, MovesTo
<1>3. QED
  BY <1>1, <1>2

LEMMA SweeperStepKeeps ==
  ASSUME PipelineInv, SweeperStep
  PROVE  PipelineInv'
<1> USE DEF PipelineInv
<1>0. ProcOK /\ Sweeper \in Actor
  BY Actors DEF TypeOK
<1>1. ~Only(Mild)
  BY IdlePc DEF Benign, NothingOld, SweeperStep, SweepSelect, Zombies, SweepUpdate,
                SweepRelease, SweepMark, Stop, At
<1>2. CASE SweepSelect
  <2> DEFINE q == [pc |-> "sweep", left |-> Zombies]
  <2>1. q \in SweeperAct /\ proc' = [proc EXCEPT ![Sweeper] = q]
    BY <1>2 DEF SweepSelect, SweeperAct, Zombies
  <2> HIDE DEF q
  <2>2. Moved(Sweeper) /\ proc'[Sweeper] = q
    BY <1>0, <2>1, MovesTo
  <2>3. UNCHANGED <<hazards, status, old, kv, credit, queue, dead, duplicates, worked>>
    BY <1>2 DEF SweepSelect
  <2>4. QED
    BY <1>1, <2>1, <2>2, <2>3, SweeperKeeps DEF TypeOK
<1>3. CASE SweepUpdate
  <2>1. proc[Sweeper].pc = "sweep" /\ SweepNext(proc[Sweeper].left)
    BY <1>3 DEF SweepUpdate, At
  <2>2. proc[Sweeper].left \in SUBSET Job
    BY <1>0, <2>1, IdlePc DEF ProcOK, SweeperAct
  <2>3. Moved(Sweeper) /\ (proc'[Sweeper] = Idle \/ proc'[Sweeper] \in SweeperAct)
    BY <1>0, <2>1, <2>2, SweepNextTyped
  <2>4. /\ status' \in [Job -> Status]
        /\ UNCHANGED <<hazards, old, kv, credit, queue, dead, duplicates, worked>>
    BY <1>3 DEF SweepUpdate, TypeOK, Status, Terminal
  <2>5. QED
    BY <1>1, <2>3, <2>4, SweeperKeeps DEF TypeOK
<1>4. CASE SweepRelease
  <2>1. /\ proc[Sweeper].pc = "release" /\ Goto(Sweeper, "sweepMark")
        /\ SettleRun(Sweeper, proc[Sweeper].job, "returned")
    BY <1>4 DEF SweepRelease, Release, At
  <2> DEFINE q == [proc[Sweeper] EXCEPT !.pc = "sweepMark"]
  <2>2. proc[Sweeper] \in [pc : {"release", "sweepMark"}, job : Job, left : SUBSET Job]
    BY <1>0, <2>1, IdlePc DEF ProcOK, SweeperAct
  <2>3. q \in SweeperAct /\ proc' = [proc EXCEPT ![Sweeper] = q] /\ proc[Sweeper].job \in Job
    BY <2>1, <2>2 DEF Goto, SweeperAct
  <2> HIDE DEF q
  <2>4. Moved(Sweeper) /\ proc'[Sweeper] = q
    BY <1>0, <2>3, MovesTo
  <2>5. UNCHANGED <<hazards, status, old, kv, queue, dead, duplicates, worked>>
    BY <1>4 DEF SweepRelease
  <2>6. /\ credit' \in [Run -> CreditState]
        /\ \A k \in Run : credit'[k] = "charged" => credit[k] = "charged"
    BY <2>1, <2>3, SettleEffect
  <2>7. QED
    BY <1>1, <2>3, <2>4, <2>5, <2>6, SweeperKeeps DEF TypeOK
<1>5. CASE SweepMark
  <2>1. proc[Sweeper].pc = "sweepMark" /\ SweepNext(proc[Sweeper].left)
    BY <1>5 DEF SweepMark, At
  <2>2. proc[Sweeper].left \in SUBSET Job /\ proc[Sweeper].job \in Job
    BY <1>0, <2>1, IdlePc DEF ProcOK, SweeperAct
  <2>3. Moved(Sweeper) /\ (proc'[Sweeper] = Idle \/ proc'[Sweeper] \in SweeperAct)
    BY <1>0, <2>1, <2>2, SweepNextTyped
  <2>4. /\ kv' \in [Job -> {"absent", "queued", "completed", "failed"}]
        /\ UNCHANGED <<hazards, status, old, credit, queue, dead, duplicates, worked>>
    BY <1>5, <2>2 DEF SweepMark, SetMarker, TypeOK
  <2>5. QED
    BY <1>1, <2>3, <2>4, SweeperKeeps DEF TypeOK
<1>6. CASE Stop(Sweeper)
  <2>1. Moved(Sweeper) /\ proc'[Sweeper] = Idle
    BY <1>0, <1>6, Rested DEF Stop
  <2>2. UNCHANGED <<hazards, status, old, kv, credit, queue, dead, duplicates, worked>>
    BY <1>6 DEF Stop
  <2>3. QED
    BY <1>1, <2>1, <2>2, SweeperKeeps DEF TypeOK
<1>7. QED
  BY <1>2, <1>3, <1>4, <1>5, <1>6 DEF SweeperStep

\* The actors rest; where nothing is swept, nothing but markers changes.
LEMMA TimeKeeps ==
  ASSUME PipelineInv, (\E j \in Job : Age(j) \/ Expire(j)) \/ UNCHANGED vars
  PROVE  PipelineInv'
<1> USE DEF PipelineInv
<1>1. UNCHANGED <<hazards, status, credit, queue, dead, duplicates, proc, worked>>
  BY DEF Age, Expire, vars
<1>2. /\ old' \in [Job -> BOOLEAN]
      /\ kv' \in [Job -> {"absent", "queued", "completed", "failed"}]
  BY DEF Age, Expire, SetMarker, vars, TypeOK
<1>3. Only(Mild) => old' = old
  BY DEF Age, Expire, vars, Only, Mild
<1>4. TypeOK'
  BY <1>1, <1>2 DEF TypeOK, ProcOK, AtWork
<1>5. WorkCounted'
  BY <1>1, WorkShrinks
<1>6. ASSUME Only(Mild) PROVE Benign'
  <2>1. UNCHANGED <<status, old, credit, queue, dead, proc>> /\ Benign
    BY <1>1, <1>3, <1>6
  <2>2. \A k : Out(k)' = Out(k)
    BY <2>1 DEF Out
  <2>3. \A a, j : Settler(a, j)' = Settler(a, j)
    BY <2>1 DEF Settler
  <2>4. NothingOld' /\ FirstRuns'
    BY <2>1 DEF Benign, NothingOld, FirstRuns
  <2>5. SentLast'
    BY <2>1, <2>2 DEF Benign, SentLast
  <2>6. Accounted'
    BY <2>1, <2>3 DEF Benign, Accounted
  <2>7. QED
    BY <2>4, <2>5, <2>6 DEF Benign
<1>7. QED
  BY <1>1, <1>4, <1>5, <1>6 DEF Only

-----------------------------------------------------------------------------
(***************************************************************************)
(* The theorems                                                            *)
(***************************************************************************)
LEMMA PipelineBegins == Init => PipelineInv
<1> SUFFICES ASSUME Init PROVE PipelineInv
  OBVIOUS
<1>1. \A a \in Actor : proc[a] = Idle /\ proc[a].pc = "idle"
  BY IdlePc DEF Init
<1>2. TypeOK
  BY <1>1, Actors DEF Init, TypeOK, ProcOK, AtWork, Status, CreditState
<1>3. WorkCounted
  <2> SUFFICES ASSUME NEW j \in Job
               PROVE  /\ IsFiniteSet(Storing(j)) /\ worked[j] <= Cardinality(Run)
                      /\ Cardinality(Charged(j)) + Cardinality(Storing(j)) <= worked[j]
    BY DEF WorkCounted
  <2>1. Storing(j) = {} /\ Charged(j) = {}
    BY <1>1, Actors DEF Init, Storing, Charged
  <2>2. worked[j] = 0 /\ Cardinality(Run) \in Nat
    BY RunAssumption, FS_CardinalityType DEF Init
  <2>3. QED
    BY <2>1, <2>2, FS_EmptySet
<1>4. Benign
  <2>1. \A k \in Run : ~Out(k) /\ credit[k] = "unheld"
    BY <1>1, Actors DEF Init, Out
  <2>2. \A c \in Caller : proc[c].pc = "idle"
    BY <1>1, Actors
  <2>3. NothingOld /\ FirstRuns
    BY <1>1, <2>1, <2>2, Actors, RunAssumption DEF Init, NothingOld, FirstRuns
  <2>4. SentLast /\ Accounted
    BY <2>1, <2>2 DEF SentLast, Accounted, CallerPc
  <2>5. QED
    BY <2>3, <2>4 DEF Benign
<1>5. QED
  BY <1>2, <1>3, <1>4 DEF PipelineInv

LEMMA PipelineStep == PipelineInv /\ [Next]_vars => PipelineInv'
  BY CallerStepKeeps, ConsumerStepKeeps, DlqStepKeeps, SweeperStepKeeps, TimeKeeps DEF Next

\* What every actor of the pipeline relies on, in every reachable state.
THEOREM PipelineAsItStands == Spec => []PipelineInv
  BY PipelineBegins, PipelineStep, PTL DEF Spec

\* Every reachable state is well typed.
THEOREM PipelineTypeCorrect == Spec => []TypeOK
<1>1. PipelineInv => TypeOK
  BY DEF PipelineInv
<1> QED
  BY <1>1, PipelineAsItStands, PTL

\* For any number of jobs, reruns, callers and consumers, whatever is retried, delivered twice,
\* swept, buried, lost or left half done: a job is charged no more credits than extractions
\* were stored for it (queue-consumer.ts, maintenance.ts, the roll backs of the routes).
THEOREM ChargesAreForWork == Spec => []ChargedOnlyForWork
<1>1. PipelineInv => ChargedOnlyForWork
  <2> SUFFICES ASSUME PipelineInv, NEW j \in Job PROVE Cardinality(Charged(j)) <= worked[j]
    BY DEF ChargedOnlyForWork, Charged
  <2>1. /\ Cardinality(Charged(j)) \in Nat /\ Cardinality(Charged(j)) <= Cardinality(Run)
        /\ Cardinality(Storing(j)) \in Nat /\ worked[j] \in Nat
    BY ChargedIsFinite, FS_CardinalityType DEF PipelineInv, WorkCounted, TypeOK
  <2>2. QED
    BY <2>1 DEF PipelineInv, WorkCounted
<1> QED
  BY <1>1, PipelineAsItStands, PTL

\* For any number of jobs, callers and consumers: while messages are lost, delivered twice or
\* find no browser, but no statement fails, nothing is evicted, swept or run again, a job that is
\* over and at rest has no credit left held.
THEOREM CreditIsNotStranded == Spec => []NoStrandedCredit
<1>1. PipelineInv => NoStrandedCredit
  <2> SUFFICES ASSUME PipelineInv, Only(Mild), NEW j \in Job, AtRest(j), status[j] \notin Active,
                      NEW k \in Held(j)
               PROVE  FALSE
    BY DEF NoStrandedCredit, Mild
  <2>1. PICK a \in Actor : Settler(a, j)
    BY DEF PipelineInv, Benign, Accounted, Held
  <2>2. QED
    BY <2>1 DEF Settler, AtRest
<1> QED
  BY <1>1, PipelineAsItStands, PTL
-----------------------------------------------------------------------------
(***************************************************************************)
(* Numbers and finite sets                                                 *)
(***************************************************************************)
LEMMA Least ==
  ASSUME NEW S \in SUBSET Nat, S # {}
  PROVE  \E i \in S : \A j \in S : i <= j
<1> DEFINE Before == OpToRel(<, Nat)
<1>1. IsWellFoundedOn(Before, Nat)
  BY NatLessThanWellFounded
<1>2. \A a, b \in Nat : a < b => <<a, b>> \in Before
  BY DEF Before, OpToRel
<1> HIDE DEF Before
<1>3. PICK i \in S : \A j \in S : ~ (<<j, i>> \in Before)
  BY <1>1, WFMin
<1>4. \A j \in S : i \in Nat /\ j \in Nat /\ ~(j < i)
  BY <1>2, <1>3
<1>5. \A j \in S : i <= j
  BY <1>4
<1> QED
  BY <1>5

\* A family of finite sets with a member has a smallest one.
LEMMA Smallest ==
  ASSUME NEW F, \A s \in F : IsFiniteSet(s), F # {}
  PROVE  \E s \in F : \A t \in F : Cardinality(s) <= Cardinality(t)
<1> DEFINE N == {Cardinality(s) : s \in F}
<1>1. N \in SUBSET Nat /\ N # {}
  BY FS_CardinalityType
<1>2. PICK i \in N : \A j \in N : i <= j
  BY <1>1, Least
<1> QED
  BY <1>2

LEMMA Smaller ==
  ASSUME NEW s, IsFiniteSet(s), NEW x \in s
  PROVE  /\ IsFiniteSet(s \ {x}) /\ ~(Cardinality(s) <= Cardinality(s \ {x}))
         /\ s \ {x} \subseteq s /\ s \ {x} # s
<1>1. IsFiniteSet(s \ {x}) /\ Cardinality(s \ {x}) = Cardinality(s) - 1
  BY FS_RemoveElement
<1>2. Cardinality(s) \in Nat
  BY FS_CardinalityType
<1> QED
  BY <1>1, <1>2

\* A set of numbers has a greatest, if it is finite.
LEMMA MaxIn ==
  ASSUME NEW S \in SUBSET Nat, IsFiniteSet(S), S # {}
  PROVE  R!Max(S) \in S /\ \A y \in S : y <= R!Max(S)
<1> DEFINE Ups(x) == {y \in S : x <= y}
           F == {Ups(x) : x \in S}
<1>1. PICK s \in F : \A t \in F : Cardinality(s) <= Cardinality(t)
  <2>1. \A s \in F : IsFiniteSet(s)
    BY FS_Subset
  <2> QED
    BY <2>1, Smallest
<1>2. PICK x \in S : s = Ups(x)
  BY <1>1
<1>3. \A y \in S : y <= x
  <2> SUFFICES ASSUME NEW y \in S, ~(y <= x) PROVE FALSE
    OBVIOUS
  <2>0. x \in Nat /\ y \in Nat /\ x < y
    OBVIOUS
  <2>1. Ups(y) \subseteq Ups(x) \ {x} /\ x \in Ups(x)
    <3>1. x \in Ups(x)
      BY <2>0
    <3>2. ASSUME NEW z \in Ups(y) PROVE z \in Ups(x) /\ z # x
      <4>1. z \in Nat /\ z \in S /\ y <= z
        OBVIOUS
      <4> QED
        BY <2>0, <4>1
    <3> QED
      BY <3>1, <3>2
  <2>2. IsFiniteSet(Ups(x))
    BY FS_Subset
  <2>3. ~(Cardinality(Ups(x)) <= Cardinality(Ups(x) \ {x})) /\ IsFiniteSet(Ups(x) \ {x})
    BY <2>1, <2>2, Smaller
  <2>4. Cardinality(Ups(y)) <= Cardinality(Ups(x) \ {x})
    BY <2>1, <2>3, FS_Subset
  <2>5. /\ Cardinality(Ups(x)) \in Nat /\ Cardinality(Ups(x) \ {x}) \in Nat
        /\ Cardinality(Ups(y)) \in Nat
    BY <2>1, <2>2, <2>3, FS_Subset, FS_CardinalityType
  <2>6. Cardinality(Ups(x)) <= Cardinality(Ups(y))
    BY <1>1, <1>2
  <2> QED
    BY <2>3, <2>4, <2>5, <2>6
<1>4. \E z \in S : \A y \in S : z >= y
  BY <1>3
<1>5. R!Max(S) \in S /\ \A y \in S : R!Max(S) >= y
  BY <1>4 DEF R!Max
<1> QED
  BY <1>5

LEMMA MaxTo ==
  ASSUME NEW n \in Nat \ {0}
  PROVE  R!Max(1..n) = n /\ (1..n) \ {n} = 1..(n - 1)
<1>0. IsFiniteSet(1..n) /\ 1..n \in SUBSET Nat /\ n \in 1..n
  BY FS_Interval
<1>1. R!Max(1..n) \in 1..n /\ \A y \in 1..n : y <= R!Max(1..n)
  BY <1>0, MaxIn
<1>2. n <= R!Max(1..n)
  BY <1>0, <1>1
<1> QED
  BY <1>1, <1>2

\* The library's fold over the rows, named.
Fold(rows, S) == R!MapThenFoldSet(LAMBDA x, y : R!Entered(y, x), <<>>, LAMBDA i : rows[i],
                                  LAMBDA s : R!Max(s), S)
Round(rows, S, g) ==
    g = [s \in SUBSET S |-> IF s = {} THEN <<>>
                            ELSE R!Entered(g[s \ {R!Max(s)}], rows[R!Max(s)])]
Folding(rows, S) == CHOOSE g : Round(rows, S, g)

LEMMA FoldIs ==
  /\ \A rows : R!Lines(rows) = Fold(rows, DOMAIN rows)
  /\ \A rows, S : Fold(rows, S) = Folding(rows, S)[S]
BY DEF R!Lines, R!FoldLeft, Fold, R!MapThenFoldSet, Folding, Round

Steps(rows, s) ==
    Fold(rows, s) = IF s = {} THEN <<>> ELSE R!Entered(Fold(rows, s \ {R!Max(s)}), rows[R!Max(s)])

\* The loop has a solution, and it is the folds themselves.
LEMMA FoldSteps ==
  ASSUME NEW rows, NEW S \in SUBSET Nat, IsFiniteSet(S)
  PROVE  Steps(rows, S)
<1> DEFINE Bad == {s \in SUBSET S : ~Steps(rows, s)}
<1> SUFFICES ASSUME Bad # {} PROVE FALSE
  OBVIOUS
<1>1. \A s \in SUBSET S : IsFiniteSet(s)
  BY FS_Subset
<1>2. PICK s \in Bad : \A t \in Bad : Cardinality(s) <= Cardinality(t)
  BY <1>1, Smallest
<1> HIDE DEF Bad
<1>3. IsFiniteSet(s) /\ s \subseteq S /\ ~Steps(rows, s)
  BY <1>1, <1>2 DEF Bad
<1>4. \A t \in SUBSET s : t # s => Steps(rows, t)
  <2> TAKE t \in SUBSET s
  <2> HAVE t # s
  <2>1. ~(Cardinality(s) <= Cardinality(t))
    <3>1. IsFiniteSet(t) /\ Cardinality(t) <= Cardinality(s) /\ Cardinality(s) # Cardinality(t)
      BY <1>3, FS_Subset
    <3>2. Cardinality(t) \in Nat /\ Cardinality(s) \in Nat
      BY <1>3, <3>1, FS_CardinalityType
    <3> QED
      BY <3>1, <3>2
  <2> QED
    BY <1>2, <1>3, <2>1 DEF Bad
<1>0. \A t \in SUBSET s : t # {} => R!Max(t) \in t
  <2> SUFFICES ASSUME NEW t \in SUBSET s, t # {} PROVE R!Max(t) \in t
    OBVIOUS
  <2>1. IsFiniteSet(t) /\ t \in SUBSET Nat
    BY <1>1, <1>3
  <2> QED
    BY <2>1, MaxIn
<1> DEFINE g == [t \in SUBSET s |-> IF t # s THEN Fold(rows, t)
                                   ELSE IF s = {} THEN <<>>
                                   ELSE R!Entered(Fold(rows, s \ {R!Max(s)}), rows[R!Max(s)])]
<1>5. Round(rows, s, g)
  <2> SUFFICES ASSUME NEW t \in SUBSET s
               PROVE  g[t] = IF t = {} THEN <<>>
                             ELSE R!Entered(g[t \ {R!Max(t)}], rows[R!Max(t)])
    BY DEF Round
  <2>1. t # {} => t \ {R!Max(t)} \in SUBSET s /\ t \ {R!Max(t)} # s
    BY <1>0
  <2> QED
    BY <2>1, <1>4 DEF Steps
<1> HIDE DEF g
<1> DEFINE h == Folding(rows, s)
<1>6. Round(rows, s, h)
  BY <1>5 DEF Folding
<1>7. Fold(rows, s) = h[s]
  BY FoldIs
<1> HIDE DEF h
<1>8. \A t \in SUBSET s : h[t] = IF t = {} THEN <<>>
                                 ELSE R!Entered(h[t \ {R!Max(t)}], rows[R!Max(t)])
  BY <1>6 DEF Round
<1>9. \A t \in SUBSET s : t # s => h[t] = Fold(rows, t)
  <2> DEFINE Off == {t \in SUBSET s : t # s /\ h[t] # Fold(rows, t)}
  <2> SUFFICES ASSUME Off # {} PROVE FALSE
    OBVIOUS
  <2>1. PICK t \in Off : \A u \in Off : Cardinality(t) <= Cardinality(u)
    BY <1>1, <1>3, FS_Subset, Smallest
  <2>2. t # {}
    BY <1>8, <1>4, <2>1 DEF Steps
  <2>3. IsFiniteSet(t)
    BY <1>1, <1>3, <2>1
  <2> DEFINE u == t \ {R!Max(t)}
  <2>4. ~(Cardinality(t) <= Cardinality(u)) /\ u \subseteq t
    BY <1>0, <2>1, <2>2, <2>3, Smaller
  <2>5. u \in SUBSET s /\ u # s
    BY <1>0, <2>1, <2>2
  <2>6. h[u] = Fold(rows, u)
    BY <2>1, <2>4, <2>5
  <2>7. Fold(rows, t) = R!Entered(Fold(rows, u), rows[R!Max(t)])
    BY <1>4, <2>1, <2>2 DEF Steps
  <2>8. h[t] = R!Entered(h[u], rows[R!Max(t)])
    BY <1>8, <2>1, <2>2
  <2> QED
    BY <2>1, <2>6, <2>7, <2>8
<1>10. s # {} => s \ {R!Max(s)} \in SUBSET s /\ s \ {R!Max(s)} # s
  BY <1>0
<1>11. Steps(rows, s)
  BY <1>7, <1>8, <1>9, <1>10 DEF Steps
<1> QED
  BY <1>3, <1>11

\* Row after row.
LEMMA FoldNext ==
  ASSUME NEW rows, NEW n \in Nat \ {0}
  PROVE  Fold(rows, 1..n) = R!Entered(Fold(rows, 1..(n - 1)), rows[n])
<1>1. Steps(rows, 1..n)
  BY FoldSteps, FS_Interval
<1>2. 1..n # {}
  OBVIOUS
<1> QED
  BY <1>1, <1>2, MaxTo DEF Steps

LEMMA FoldNone == \A rows : Fold(rows, {}) = <<>>
  BY FoldSteps, FS_EmptySet DEF Steps

-----------------------------------------------------------------------------
(***************************************************************************)
(* A line, and the jobs that it is of                                      *)
(***************************************************************************)
Outcome == {"queued", "completed", "failed"}
JobRec == [url : R!Url, at : Nat, status : Outcome,
           credit : {"none", "reserved", "consumed", "released"}]
LineRec == [url : R!Url, total : Nat, completed : Nat, failed : Nat, run : Nat \cup {None},
            done : Nat \cup {None}]

\* The latest of some jobs.
LatestIs(t, js) ==
    \/ js = {} /\ t = None
    \/ (\E j \in js : t = jobs[j].at) /\ \A j \in js : jobs[j].at <= t

LineIs(line, js) ==
    /\ line.total = Cardinality(js)
    /\ line.completed = Cardinality(js \cap R!Having("completed"))
    /\ line.failed = Cardinality(js \cap R!Having("failed"))
    /\ LatestIs(line.run, js)
    /\ LatestIs(line.done, js \cap R!Having("completed"))

JobsTyped ==
    /\ jobs \in Seq(JobRec)
    /\ \A i, j \in DOMAIN jobs : i <= j => jobs[i].at <= jobs[j].at

LEMMA JobsFinite ==
  ASSUME JobsTyped, NEW js \in SUBSET DOMAIN jobs
  PROVE  /\ IsFiniteSet(js) /\ Cardinality(js) \in Nat
         /\ \A j \in js : jobs[j] \in JobRec /\ jobs[j].at \in Nat
<1>1. IsFiniteSet(DOMAIN jobs)
  <2>1. DOMAIN jobs = 1..Len(jobs) /\ Len(jobs) \in Nat
    BY DEF JobsTyped
  <2> QED
    BY <2>1, FS_Interval
<1>2. \A j \in js : jobs[j] \in JobRec
  BY DEF JobsTyped
<1>3. \A j \in js : jobs[j].at \in Nat
  BY <1>2 DEF JobRec
<1> QED
  BY <1>1, <1>2, <1>3, FS_Subset, FS_CardinalityType

\* SQL's MAX.
LEMMA LatestOK ==
  ASSUME JobsTyped, NEW js \in SUBSET DOMAIN jobs
  PROVE  LatestIs(R!Latest(js), js) /\ R!Latest(js) \in Nat \cup {None}
<1>1. CASE js = {}
  BY <1>1 DEF LatestIs, R!Latest
<1>2. CASE js # {}
  <2> DEFINE ats == {jobs[j].at : j \in js}
  <2>1. \A j \in js : jobs[j].at \in Nat
    BY JobsFinite
  <2>2. ats \in SUBSET Nat /\ ats # {}
    BY <1>2, <2>1
  <2>3. IsFiniteSet(ats)
    <3> DEFINE f == [j \in js |-> jobs[j].at]
    <3>1. f \in Surjection(js, ats)
      BY DEF Surjection
    <3> QED
      BY <3>1, JobsFinite, FS_Surjection
  <2>4. R!Max(ats) \in ats /\ \A y \in ats : y <= R!Max(ats)
    BY <2>2, <2>3, MaxIn
  <2>5. R!Latest(js) = R!Max(ats)
    BY <1>2 DEF R!Latest
  <2> HIDE DEF ats
  <2>6. (\E j \in js : R!Latest(js) = jobs[j].at) /\ \A j \in js : jobs[j].at <= R!Latest(js)
    BY <2>4, <2>5 DEF ats
  <2> QED
    BY <2>2, <2>4, <2>5, <2>6 DEF LatestIs
<1> QED
  BY <1>1, <1>2

\* There is but one.
LEMMA LatestOnce ==
  ASSUME JobsTyped, NEW js \in SUBSET DOMAIN jobs, NEW t, NEW u, LatestIs(t, js), LatestIs(u, js)
  PROVE  t = u
<1>1. CASE js = {}
  BY <1>1 DEF LatestIs
<1>2. CASE js # {}
  <2>1. PICK i \in js, j \in js : t = jobs[i].at /\ u = jobs[j].at
    BY <1>2 DEF LatestIs
  <2>2. jobs[i].at <= jobs[j].at /\ jobs[j].at <= jobs[i].at
    BY <1>2, <2>1 DEF LatestIs
  <2>3. jobs[i].at \in Nat /\ jobs[j].at \in Nat
    BY JobsFinite
  <2> QED
    BY <2>1, <2>2, <2>3
<1> QED
  BY <1>1, <1>2

\* It is the last, as jobs are in the order of their dates.
LEMMA LastIsLatest ==
  ASSUME JobsTyped, NEW js \in SUBSET DOMAIN jobs, js # {}
  PROVE  R!Max(js) \in DOMAIN jobs /\ LatestIs(jobs[R!Max(js)].at, js)
<1>1. DOMAIN jobs \subseteq Nat
  BY DEF JobsTyped
<1>2. R!Max(js) \in js /\ \A j \in js : j <= R!Max(js)
  BY <1>1, JobsFinite, MaxIn
<1> QED
  BY <1>2 DEF LatestIs, JobsTyped

LEMMA LatestOfBoth ==
  ASSUME JobsTyped, NEW a \in SUBSET DOMAIN jobs, NEW b \in SUBSET DOMAIN jobs,
         NEW t \in Nat \cup {None}, NEW u \in Nat \cup {None}, LatestIs(t, a), LatestIs(u, b)
  PROVE  LatestIs(IF u # None /\ (t = None \/ u > t) THEN u ELSE t, a \cup b)
<1>0. \A j \in DOMAIN jobs : jobs[j].at \in Nat
  BY JobsFinite
<1>00. None \notin Nat
  BY ReportsAssumption
<1>1. (t = None <=> a = {}) /\ (u = None <=> b = {})
  BY <1>0, <1>00 DEF LatestIs
<1>2. CASE a = {}
  <2>1. a \cup b = b
    BY <1>2
  <2> QED
    BY <1>1, <1>2, <2>1
<1>3. CASE b = {}
  <2>1. a \cup b = a
    BY <1>3
  <2> QED
    BY <1>1, <1>3, <2>1
<1>4. CASE a # {} /\ b # {}
  <2>1. t \in Nat /\ u \in Nat
    BY <1>1, <1>4
  <2>2. CASE u > t
    <3>1. \A j \in a \cup b : jobs[j].at <= u
      BY <1>0, <1>4, <2>1, <2>2 DEF LatestIs
    <3> QED
      BY <1>1, <1>4, <2>2, <3>1 DEF LatestIs
  <2>3. CASE ~(u > t)
    <3>1. \A j \in a \cup b : jobs[j].at <= t
      BY <1>0, <1>4, <2>1, <2>3 DEF LatestIs
    <3> QED
      BY <1>1, <1>4, <2>3, <3>1 DEF LatestIs
  <2> QED
    BY <2>2, <2>3
<1> QED
  BY <1>2, <1>3, <1>4

\* Reports counts with the library's operator.
LEMMA CountIs == \A S : R!Cardinality(S) = Cardinality(S)
  BY DEF R!Cardinality, Cardinality, R!IsFiniteSet, IsFiniteSet

LEMMA TogetherAre ==
  ASSUME JobsTyped, NEW a \in SUBSET DOMAIN jobs, NEW b \in SUBSET DOMAIN jobs, a \cap b = {}
  PROVE  Cardinality(a \cup b) = Cardinality(a) + Cardinality(b)
<1>1. IsFiniteSet(a) /\ IsFiniteSet(b) /\ Cardinality(a) \in Nat /\ Cardinality(b) \in Nat
  BY JobsFinite
<1>2. Cardinality(a \cap b) = 0
  BY FS_EmptySet
<1>3. Cardinality(a \cup b) = Cardinality(a) + Cardinality(b) - Cardinality(a \cap b)
  BY <1>1, FS_Union
<1> QED
  BY <1>1, <1>2, <1>3

\* A row is the line of its group.
GroupJobs(g) == {j \in DOMAIN jobs : R!GroupOf(jobs[j].url) = g}

LEMMA RowOK ==
  ASSUME JobsTyped, NEW g \in R!Groups
  PROVE  /\ R!Row(g) \in LineRec /\ R!Row(g).url = g
         /\ LineIs(R!Row(g), GroupJobs(g)) /\ GroupJobs(g) # {}
<1> DEFINE js == GroupJobs(g)
           done == js \cap R!Having("completed")
           failed == js \cap R!Having("failed")
<1>1. js \in SUBSET DOMAIN jobs /\ done \in SUBSET DOMAIN jobs /\ failed \in SUBSET DOMAIN jobs
  BY DEF GroupJobs
<1>2. js # {} /\ g \in R!Url
  <2>1. PICK j \in DOMAIN jobs : g = R!GroupOf(jobs[j].url)
    BY DEF R!Groups
  <2>2. jobs[j] \in JobRec
    BY JobsFinite
  <2> QED
    BY <2>1, <2>2 DEF GroupJobs, R!GroupOf, JobRec
<1>3. R!Row(g) = [url |-> g, total |-> Cardinality(js), completed |-> Cardinality(done),
                  failed |-> Cardinality(failed), run |-> R!Latest(js), done |-> R!Latest(done)]
  BY CountIs DEF R!Row, GroupJobs
<1>4. /\ Cardinality(js) \in Nat /\ Cardinality(done) \in Nat /\ Cardinality(failed) \in Nat
      /\ LatestIs(R!Latest(js), js) /\ R!Latest(js) \in Nat \cup {None}
      /\ LatestIs(R!Latest(done), done) /\ R!Latest(done) \in Nat \cup {None}
  BY <1>1, JobsFinite, LatestOK
<1> HIDE DEF js, done, failed
<1>5. /\ R!Row(g) \in LineRec /\ R!Row(g).url = g
      /\ R!Row(g).total = Cardinality(js) /\ R!Row(g).completed = Cardinality(done)
      /\ R!Row(g).failed = Cardinality(failed)
      /\ R!Row(g).run = R!Latest(js) /\ R!Row(g).done = R!Latest(done)
  BY <1>2, <1>3, <1>4 DEF LineRec
<1>6. LineIs(R!Row(g), js)
  BY <1>4, <1>5 DEF LineIs, done, failed
<1> QED
  BY <1>2, <1>5, <1>6 DEF js

\* A line to which a row is added is of the jobs of both.
LEMMA MergedOK ==
  ASSUME JobsTyped, NEW line \in LineRec, NEW row \in LineRec,
         NEW a \in SUBSET DOMAIN jobs, NEW b \in SUBSET DOMAIN jobs, a \cap b = {}, a # {}, b # {},
         LineIs(line, a), LineIs(row, b)
  PROVE  R!Merged(line, row) \in LineRec /\ LineIs(R!Merged(line, row), a \cup b)
<1> DEFINE C == R!Having("completed")
           F == R!Having("failed")
           run == IF row.run > line.run THEN row.run ELSE line.run
           done == IF row.done # None /\ (line.done = None \/ row.done > line.done)
                   THEN row.done ELSE line.done
           url == IF line.url.query = {} \/ row.url.query = {} THEN row.url ELSE line.url
           m == R!Merged(line, row)
<1>1. /\ line.total \in Nat /\ line.completed \in Nat /\ line.failed \in Nat
      /\ row.total \in Nat /\ row.completed \in Nat /\ row.failed \in Nat
      /\ line.run \in Nat \cup {None} /\ row.run \in Nat \cup {None}
      /\ line.done \in Nat \cup {None} /\ row.done \in Nat \cup {None}
      /\ line.url \in R!Url /\ row.url \in R!Url
  BY DEF LineRec
<1>2. line.run \in Nat /\ row.run \in Nat
  <2>1. \A j \in DOMAIN jobs : jobs[j].at \in Nat
    BY JobsFinite
  <2> QED
    BY <2>1 DEF LineIs, LatestIs
<1>3. run \in Nat /\ done \in Nat \cup {None} /\ url \in R!Url
  BY <1>1, <1>2
<1>4. m = [line EXCEPT !.total = line.total + row.total,
                       !.completed = line.completed + row.completed,
                       !.failed = line.failed + row.failed, !.run = run, !.done = done,
                       !.url = url]
  BY DEF R!Merged, LineRec
<1>5. LatestIs(run, a \cup b)
  <2>1. run = IF row.run # None /\ (line.run = None \/ row.run > line.run)
              THEN row.run ELSE line.run
    BY <1>2, ReportsAssumption
  <2> QED
    BY <1>1, <2>1, LatestOfBoth DEF LineIs
<1>6. LatestIs(done, (a \cap C) \cup (b \cap C))
  BY <1>1, LatestOfBoth DEF LineIs
<1> HIDE DEF run, done, url, m
<1>7. /\ m \in LineRec /\ m.total = line.total + row.total
      /\ m.completed = line.completed + row.completed /\ m.failed = line.failed + row.failed
      /\ m.run = run /\ m.done = done
  <2> DEFINE x == line.total + row.total
             y == line.completed + row.completed
             z == line.failed + row.failed
  <2>1. x \in Nat /\ y \in Nat /\ z \in Nat
    BY <1>1
  <2>2. m = [line EXCEPT !.total = x, !.completed = y, !.failed = z, !.run = run, !.done = done,
                         !.url = url]
    BY <1>4
  <2> HIDE DEF x, y, z
  <2>3. /\ m \in LineRec /\ m.total = x /\ m.completed = y /\ m.failed = z
        /\ m.run = run /\ m.done = done
    BY <1>3, <2>1, <2>2 DEF LineRec
  <2> QED
    BY <2>3 DEF x, y, z
<1>8. (a \cup b) \cap C = (a \cap C) \cup (b \cap C) /\ (a \cup b) \cap F = (a \cap F) \cup (b \cap F)
  OBVIOUS
<1>9. /\ Cardinality(a \cup b) = Cardinality(a) + Cardinality(b)
      /\ Cardinality((a \cap C) \cup (b \cap C)) = Cardinality(a \cap C) + Cardinality(b \cap C)
      /\ Cardinality((a \cap F) \cup (b \cap F)) = Cardinality(a \cap F) + Cardinality(b \cap F)
  <2> HIDE DEF C, F
  <2> QED
    BY TogetherAre
<1>10. LineIs(m, a \cup b)
  BY <1>5, <1>6, <1>7, <1>8, <1>9 DEF LineIs
<1> QED
  BY <1>7, <1>10 DEF m

-----------------------------------------------------------------------------
(***************************************************************************)
(* The lines, row after row                                                *)
(***************************************************************************)
LEMMA OrderOK ==
  ASSUME JobsTyped, NEW order \in R!SetToSeqs(R!Groups)
  PROVE  /\ Cardinality(R!Groups) \in Nat /\ DOMAIN order = 1..Cardinality(R!Groups)
         /\ \A i \in DOMAIN order : order[i] \in R!Groups
         /\ \A i, k \in DOMAIN order : order[i] = order[k] => i = k
         /\ \A g \in R!Groups : \E i \in DOMAIN order : order[i] = g
<1> DEFINE G == R!Groups
           n == Cardinality(G)
           K == DOMAIN jobs
<1>1. IsFiniteSet(G) /\ n \in Nat
  <2> DEFINE f == [j \in K |-> R!GroupOf(jobs[j].url)]
  <2>1. f \in Surjection(K, G)
    BY DEF Surjection, R!Groups
  <2>2. IsFiniteSet(K)
    BY JobsFinite
  <2>3. IsFiniteSet(G)
    BY <2>1, <2>2, FS_Surjection
  <2> QED
    BY <2>3, FS_CardinalityType
<1> HIDE DEF G
<1>2. order \in [1..n -> G] /\ \A i, k \in 1..n : i # k => order[i] # order[k]
  <2>1. R!Cardinality(G) = n
    BY CountIs
  <2> QED
    BY <2>1 DEF R!SetToSeqs, G
<1>3. order \in Injection(1..n, G)
  BY <1>2 DEF Injection, IsInjective
<1>4. Cardinality(1..n) = n
  BY <1>1, FS_Interval
<1>5. order \in Surjection(1..n, G)
  BY <1>1, <1>3, <1>4, FS_Injection
<1>6. \A g \in G : \E i \in 1..n : order[i] = g
  BY <1>5 DEF Surjection
<1> QED
  BY <1>1, <1>2, <1>6 DEF G

\* The jobs of a page that are in the first i groups.
Grouped(order, i, p) ==
    {j \in DOMAIN jobs : /\ R!PageOf(jobs[j].url) = p
                         /\ \E h \in 1..i : order[h] = R!GroupOf(jobs[j].url)}

LinesTo(order, i, lines) ==
    /\ DOMAIN lines = {R!PageOf(order[h]) : h \in 1..i}
    /\ \A p \in DOMAIN lines :
          /\ lines[p] \in LineRec /\ LineIs(lines[p], Grouped(order, i, p))
          /\ Grouped(order, i, p) # {}

LEMMA LinesStep ==
  ASSUME JobsTyped, NEW order \in R!SetToSeqs(R!Groups), NEW i \in DOMAIN order,
         NEW lines, LinesTo(order, i - 1, lines)
  PROVE  LinesTo(order, i, R!Entered(lines, R!Row(order[i])))
<1> DEFINE g == order[i]
           p0 == R!PageOf(g)
           row == R!Row(g)
           a == Grouped(order, i - 1, p0)
           b == GroupJobs(g)
           new == R!Entered(lines, row)
<1>0. i \in Nat /\ 1 <= i /\ i - 1 \in Nat /\ 1..i = (1..(i - 1)) \cup {i} /\ i \notin 1..(i - 1)
  BY OrderOK
<1>1. g \in R!Groups /\ \A h \in 1..(i - 1) : order[h] # g
  BY <1>0, OrderOK
<1>2. row \in LineRec /\ row.url = g /\ LineIs(row, b) /\ b # {}
  BY <1>1, RowOK
<1>3. a \in SUBSET DOMAIN jobs /\ b \in SUBSET DOMAIN jobs /\ a \cap b = {}
  BY <1>1 DEF Grouped, GroupJobs
<1>4. Grouped(order, i, p0) = a \cup b
  BY <1>0 DEF Grouped, GroupJobs, R!GroupOf, R!PageOf
<1>5. \A p : p # p0 => Grouped(order, i, p) = Grouped(order, i - 1, p)
  BY <1>0 DEF Grouped, R!GroupOf, R!PageOf
<1>6. {R!PageOf(order[h]) : h \in 1..i} = {R!PageOf(order[h]) : h \in 1..(i - 1)} \cup {p0}
  BY <1>0
<1>7. R!PageOf(row.url) = p0
  BY <1>2
<1> HIDE DEF row, a, b, p0, g
<1>8. CASE p0 \in DOMAIN lines
  <2> DEFINE m == R!Merged(lines[p0], row)
  <2>1. lines[p0] \in LineRec /\ LineIs(lines[p0], a) /\ a # {}
    BY <1>8 DEF LinesTo, a
  <2>2. m \in LineRec /\ LineIs(m, a \cup b)
    BY <1>2, <1>3, <2>1, MergedOK
  <2>3. new = [lines EXCEPT ![p0] = m]
    BY <1>7, <1>8 DEF R!Entered
  <2> HIDE DEF m, new
  <2>4. /\ DOMAIN new = DOMAIN lines /\ new[p0] = m
        /\ \A p \in DOMAIN lines : p # p0 => new[p] = lines[p]
    BY <1>8, <2>3
  <2>5. DOMAIN new = {R!PageOf(order[h]) : h \in 1..i}
    BY <1>6, <1>8, <2>4 DEF LinesTo
  <2>6. ASSUME NEW p \in DOMAIN new
        PROVE  /\ new[p] \in LineRec /\ LineIs(new[p], Grouped(order, i, p))
               /\ Grouped(order, i, p) # {}
    <3>1. CASE p = p0
      BY <1>2, <1>4, <2>2, <2>4, <3>1
    <3>2. CASE p # p0
      BY <1>5, <2>4, <2>6, <3>2 DEF LinesTo
    <3> QED
      BY <3>1, <3>2
  <2> QED
    BY <2>5, <2>6 DEF LinesTo, new, row, g
<1>9. CASE p0 \notin DOMAIN lines
  <2>1. a = {}
    <3> SUFFICES ASSUME NEW j \in a PROVE FALSE
      OBVIOUS
    <3>1. PICK h \in 1..(i - 1) : order[h] = R!GroupOf(jobs[j].url)
      BY DEF a, Grouped
    <3>2. R!PageOf(order[h]) = p0
      BY <3>1 DEF a, Grouped, R!GroupOf, R!PageOf
    <3> QED
      BY <1>9, <3>2 DEF LinesTo
  <2>2. new = [q \in DOMAIN lines \cup {p0} |-> IF q = p0 THEN row ELSE lines[q]]
    BY <1>7, <1>9 DEF R!Entered
  <2> HIDE DEF new
  <2>3. /\ DOMAIN new = DOMAIN lines \cup {p0} /\ new[p0] = row
        /\ \A p \in DOMAIN lines : p # p0 => new[p] = lines[p]
    BY <2>2
  <2>4. DOMAIN new = {R!PageOf(order[h]) : h \in 1..i}
    BY <1>6, <2>3 DEF LinesTo
  <2>5. ASSUME NEW p \in DOMAIN new
        PROVE  /\ new[p] \in LineRec /\ LineIs(new[p], Grouped(order, i, p))
               /\ Grouped(order, i, p) # {}
    <3>1. CASE p = p0
      <4>1. a \cup b = b
        BY <2>1
      <4> QED
        BY <1>2, <1>4, <2>3, <3>1, <4>1
    <3>2. CASE p # p0
      BY <1>5, <2>3, <2>5, <3>2 DEF LinesTo
    <3> QED
      BY <3>1, <3>2
  <2> QED
    BY <2>4, <2>5 DEF LinesTo, new, row, g
<1> QED
  BY <1>8, <1>9

\* The rows of an answer, and how many are read.
RowsIn(order) == [i \in DOMAIN order |-> R!Row(order[i])]
Read(order) ==
    IF Cardinality(R!Groups) <= Limit THEN Cardinality(R!Groups) ELSE Limit

LEMMA LinesAre ==
  ASSUME JobsTyped, NEW order \in R!SetToSeqs(R!Groups)
  PROVE  /\ Read(order) \in Nat /\ 1..Read(order) \subseteq DOMAIN order
         /\ LinesTo(order, Read(order), R!Lines(R!Shown(RowsIn(order))))
<1> DEFINE k == Read(order)
           rows == R!Shown(RowsIn(order))
           Right(i) == LinesTo(order, i, Fold(rows, 1..i))
           Bad == {i \in 0..k : ~Right(i)}
<1>1. /\ k \in Nat /\ DOMAIN order \cap 1..Limit = 1..k /\ 1..k \subseteq DOMAIN order
  BY OrderOK, ReportsAssumption DEF Read
<1>2. DOMAIN rows = 1..k /\ \A i \in 1..k : rows[i] = R!Row(order[i])
  BY <1>1 DEF R!Shown, RowsIn
<1> HIDE DEF rows, k
<1>3. Bad = {}
  <2> SUFFICES ASSUME Bad # {} PROVE FALSE
    OBVIOUS
  <2>0. Bad \in SUBSET Nat
    BY <1>1
  <2>1. PICK i \in Bad : \A j \in Bad : i <= j
    <3> HIDE DEF Bad
    <3> QED
      BY <2>0, Least
  <2>2. CASE i = 0
    <3>1. 1..0 = {}
      OBVIOUS
    <3>2. Fold(rows, 1..0) = <<>>
      BY <3>1, FoldNone
    <3>3. LinesTo(order, 0, <<>>)
      BY DEF LinesTo
    <3> QED
      BY <2>1, <2>2, <3>2, <3>3
  <2>3. CASE i # 0
    <3>1. i \in Nat \ {0} /\ i \in 1..k /\ i - 1 \in 0..k /\ ~(i <= i - 1)
      BY <1>1, <2>1, <2>3
    <3>2. LinesTo(order, i - 1, Fold(rows, 1..(i - 1)))
      BY <2>1, <3>1
    <3>3. LinesTo(order, i, R!Entered(Fold(rows, 1..(i - 1)), R!Row(order[i])))
      BY <1>1, <3>1, <3>2, LinesStep
    <3>4. Fold(rows, 1..i) = R!Entered(Fold(rows, 1..(i - 1)), R!Row(order[i]))
      BY <1>2, <3>1, FoldNext
    <3> QED
      BY <2>1, <3>3, <3>4
  <2> QED
    BY <2>2, <2>3
<1>4. Right(k)
  BY <1>1, <1>3
<1>5. R!Lines(rows) = Fold(rows, 1..k)
  BY <1>2, FoldIs
<1> QED
  BY <1>1, <1>4, <1>5 DEF rows, k

\* The lines of an answer and the jobs that its reader saw.
LinesRight(lines, saw) ==
    LET Of(p) == {j \in DOMAIN saw : R!PageOf(saw[j].url) = p}
        With(word, js) == {j \in js : saw[j].status = word}
        Newest(js) == IF js = {} THEN None ELSE saw[R!Max(js)].at
        whole == R!Cardinality({R!GroupOf(saw[j].url) : j \in DOMAIN saw}) <= Limit
    IN  /\ whole => DOMAIN lines = {R!PageOf(saw[j].url) : j \in DOMAIN saw}
        /\ \A p \in DOMAIN lines :
            LET line == lines[p]
                done == With("completed", Of(p))
            IN  /\ line.run = Newest(Of(p))
                /\ whole => /\ line.total = R!Cardinality(Of(p))
                            /\ line.completed = R!Cardinality(done)
                            /\ line.failed = R!Cardinality(With("failed", Of(p)))
                            /\ line.done = Newest(done)

LEMMA RowsAreRight ==
  ASSUME JobsTyped, NEW order \in R!SetToSeqs(R!Groups), R!Ordered(RowsIn(order))
  PROVE  /\ LinesRight(R!Lines(R!Shown(RowsIn(order))), jobs)
         /\ DOMAIN R!Lines(R!Shown(RowsIn(order))) \subseteq Path
<1> DEFINE k == Read(order)
           n == Cardinality(R!Groups)
           lines == R!Lines(R!Shown(RowsIn(order)))
           Of(p) == {j \in DOMAIN jobs : R!PageOf(jobs[j].url) = p}
           With(word, js) == {j \in js : jobs[j].status = word}
           Newest(js) == IF js = {} THEN None ELSE jobs[R!Max(js)].at
<1>1. /\ k \in Nat /\ n \in Nat /\ 1..k \subseteq DOMAIN order /\ DOMAIN order = 1..n
      /\ (n <= Limit => k = n) /\ LinesTo(order, k, lines)
  BY LinesAre, OrderOK DEF Read
<1> HIDE DEF k, lines
<1>2. \A p : Of(p) \in SUBSET DOMAIN jobs /\ Grouped(order, k, p) \subseteq Of(p)
  BY DEF Grouped
<1>3. \A h \in DOMAIN order : order[h] \in R!Url
  <2> TAKE h \in DOMAIN order
  <2>1. order[h] \in R!Groups
    BY OrderOK
  <2> QED
    BY <2>1, RowOK DEF LineRec
<1>4. DOMAIN lines \subseteq Path
  BY <1>1, <1>3 DEF LinesTo, R!PageOf, R!Url
<1>5. \A j \in DOMAIN jobs : \E i \in DOMAIN order : order[i] = R!GroupOf(jobs[j].url)
  BY OrderOK DEF R!Groups
<1>6. n <= Limit => \A p : Grouped(order, k, p) = Of(p)
  BY <1>1, <1>5 DEF Grouped
<1>7. \A js \in SUBSET DOMAIN jobs : \A t : LatestIs(t, js) => t = Newest(js)
  <2> TAKE js \in SUBSET DOMAIN jobs
  <2> TAKE t
  <2> HAVE LatestIs(t, js)
  <2>1. CASE js = {}
    BY <2>1 DEF LatestIs
  <2>2. CASE js # {}
    BY <2>2, LastIsLatest, LatestOnce
  <2> QED
    BY <2>1, <2>2
<1>8. ASSUME NEW p \in DOMAIN lines
      PROVE  lines[p].run = Newest(Of(p))
  <2> DEFINE run == lines[p].run
             a == Grouped(order, k, p)
  <2>1. LatestIs(run, a) /\ a # {}
    BY <1>1 DEF LinesTo, LineIs
  <2>2. \E j \in Of(p) : run = jobs[j].at
    BY <1>2, <2>1 DEF LatestIs
  <2>3. ASSUME NEW j \in Of(p) PROVE jobs[j].at <= run
    <3>1. PICK i \in DOMAIN order : order[i] = R!GroupOf(jobs[j].url)
      BY <1>5
    <3>2. CASE i \in 1..k
      <4>1. j \in a
        BY <3>1, <3>2 DEF Grouped
      <4> QED
        BY <2>1, <4>1 DEF LatestIs
    <3>3. CASE i \notin 1..k
      <4>1. PICK o \in a : TRUE
        BY <2>1
      <4>2. PICK h \in 1..k : order[h] = R!GroupOf(jobs[o].url)
        BY DEF Grouped
      <4>3. h \in DOMAIN order /\ h < i
        BY <1>1, <3>3
      <4>4. R!Row(order[h]).run >= R!Row(order[i]).run
        BY <4>3 DEF R!Ordered, RowsIn
      <4>5. order[h] \in R!Groups /\ order[i] \in R!Groups
        BY <4>3, OrderOK
      <4>6. /\ LatestIs(R!Row(order[h]).run, GroupJobs(order[h])) /\ GroupJobs(order[h]) # {}
            /\ LatestIs(R!Row(order[i]).run, GroupJobs(order[i])) /\ GroupJobs(order[i]) # {}
        BY <4>5, RowOK DEF LineIs
      <4>7. j \in GroupJobs(order[i])
        BY <3>1 DEF GroupJobs
      <4>8. PICK l \in GroupJobs(order[h]) : R!Row(order[h]).run = jobs[l].at
        BY <4>6 DEF LatestIs
      <4>9. l \in a
        BY <4>2, <4>8 DEF GroupJobs, Grouped, R!GroupOf, R!PageOf
      <4>10. jobs[l].at <= run
        BY <2>1, <4>9 DEF LatestIs
      <4>11. jobs[j].at <= R!Row(order[i]).run
        BY <4>6, <4>7 DEF LatestIs
      <4>12. PICK q \in GroupJobs(order[i]) : R!Row(order[i]).run = jobs[q].at
        BY <4>6 DEF LatestIs
      <4>13. jobs[j].at \in Nat /\ jobs[l].at \in Nat /\ jobs[q].at \in Nat
        BY <1>2, <4>7, JobsFinite DEF GroupJobs
      <4>14. run \in Nat
        BY <2>2, JobsFinite
      <4> QED
        BY <4>4, <4>8, <4>10, <4>11, <4>12, <4>13, <4>14
    <3> QED
      BY <3>2, <3>3
  <2>4. LatestIs(run, Of(p))
    BY <2>2, <2>3 DEF LatestIs
  <2> QED
    BY <1>2, <1>7, <2>4
<1>9. ASSUME NEW p \in DOMAIN lines, n <= Limit
      PROVE  /\ lines[p].total = Cardinality(Of(p))
             /\ lines[p].completed = Cardinality(With("completed", Of(p)))
             /\ lines[p].failed = Cardinality(With("failed", Of(p)))
             /\ lines[p].done = Newest(With("completed", Of(p)))
  <2>1. LineIs(lines[p], Of(p))
    BY <1>1, <1>6, <1>9 DEF LinesTo
  <2>2. /\ With("completed", Of(p)) = Of(p) \cap R!Having("completed")
        /\ With("failed", Of(p)) = Of(p) \cap R!Having("failed")
    BY DEF R!Having
  <2>3. With("completed", Of(p)) \in SUBSET DOMAIN jobs
    OBVIOUS
  <2> HIDE DEF With, Of, Newest
  <2> QED
    BY <1>7, <2>1, <2>2, <2>3 DEF LineIs
<1>10. n <= Limit => DOMAIN lines = {R!PageOf(jobs[j].url) : j \in DOMAIN jobs}
  <2> SUFFICES ASSUME n <= Limit
               PROVE  DOMAIN lines = {R!PageOf(jobs[j].url) : j \in DOMAIN jobs}
    OBVIOUS
  <2>1. DOMAIN lines = {R!PageOf(order[h]) : h \in DOMAIN order}
    BY <1>1 DEF LinesTo
  <2>2. \A h \in DOMAIN order : \E j \in DOMAIN jobs : order[h] = R!GroupOf(jobs[j].url)
    BY OrderOK DEF R!Groups
  <2> QED
    BY <1>5, <2>1, <2>2 DEF R!GroupOf, R!PageOf
<1>11. R!Cardinality({R!GroupOf(jobs[j].url) : j \in DOMAIN jobs}) = n
  BY CountIs DEF R!Groups
<1>12. LinesRight(lines, jobs)
  BY <1>8, <1>9, <1>10, <1>11, CountIs DEF LinesRight
<1> QED
  BY <1>4, <1>12 DEF lines

-----------------------------------------------------------------------------
(***************************************************************************)
(* While the report is read                                                *)
(***************************************************************************)
\* What a reader has seen stays, and what was paid for stays paid.
SawSound ==
    /\ Len(reader.saw) <= Len(jobs) /\ reader.saw \in Seq(JobRec)
    /\ \A j \in DOMAIN reader.saw :
          /\ jobs[j].url = reader.saw[j].url
          /\ reader.saw[j].credit = "consumed" => jobs[j].credit = "consumed"
    /\ LinesRight(reader.lines, reader.saw) /\ DOMAIN reader.lines \subseteq Path

SpentCovers(spent, lines, saw) ==
    \A p \in DOMAIN lines :
        spent[p] >= R!Cardinality({j \in {i \in {h \in DOMAIN saw : R!PageOf(saw[h].url) = p} :
                                              saw[i].status = "completed"} :
                                       saw[j].credit = "consumed"})

BooksInv ==
    /\ now \in Nat
    /\ JobsTyped /\ \A j \in DOMAIN jobs : jobs[j].at <= now
    /\ \A j \in DOMAIN jobs : jobs[j].status = "queued" => jobs[j].credit # "consumed"
    /\ reader = [pc |-> reader.pc, lines |-> reader.lines, spent |-> reader.spent,
                 saw |-> reader.saw]
    /\ reader.pc \in {"rows", "spend", "answer"}
    /\ reader.pc # "rows" => SawSound
    /\ reader.pc = "answer" => SpentCovers(reader.spent, reader.lines, reader.saw)

LEMMA BooksBegin == R!Init => BooksInv
<1> SUFFICES ASSUME R!Init PROVE BooksInv
  OBVIOUS
<1>1. jobs = <<>> /\ reader = [pc |-> "rows", lines |-> <<>>, spent |-> None, saw |-> <<>>] /\ now = 0
  BY DEF R!Init, R!Resting
<1>2. JobsTyped /\ \A j \in DOMAIN jobs : jobs[j].at <= now
  BY <1>1 DEF JobsTyped
<1> QED
  BY <1>1, <1>2 DEF BooksInv

\* The jobs change; the reader does not.
LEMMA JobsMove ==
  ASSUME BooksInv, JobsTyped', now' \in Nat, \A j \in DOMAIN jobs' : jobs'[j].at <= now',
         \A j \in DOMAIN jobs' : jobs'[j].status = "queued" => jobs'[j].credit # "consumed",
         Len(jobs) <= Len(jobs'),
         \A j \in DOMAIN jobs : /\ jobs'[j].url = jobs[j].url
                                /\ jobs[j].credit = "consumed" => jobs'[j].credit = "consumed",
         reader' = reader
  PROVE  BooksInv'
<1>1. ASSUME SawSound PROVE SawSound'
  <2>1. /\ DOMAIN reader.saw \subseteq DOMAIN jobs /\ Len(jobs) \in Nat /\ Len(jobs') \in Nat
        /\ Len(reader.saw) \in Nat
    BY <1>1 DEF BooksInv, JobsTyped, SawSound
  <2>2. LinesRight(reader.lines, reader.saw)'
    BY <1>1 DEF SawSound
  <2>3. Len(reader.saw) <= Len(jobs')
    BY <1>1, <2>1 DEF SawSound
  <2>4. \A j \in DOMAIN reader.saw :
          /\ jobs'[j].url = reader.saw[j].url
          /\ reader.saw[j].credit = "consumed" => jobs'[j].credit = "consumed"
    BY <1>1, <2>1 DEF SawSound
  <2> QED
    BY <1>1, <2>2, <2>3, <2>4 DEF SawSound
<1>2. (reader.pc = "answer" => SpentCovers(reader.spent, reader.lines, reader.saw))'
  BY DEF BooksInv, SpentCovers
<1> QED
  BY <1>1, <1>2 DEF BooksInv

LEMMA DispatchStep ==
  ASSUME BooksInv, NEW url \in Visited, NEW paid \in {"none", "reserved"},
         R!Dispatch(url, paid)
  PROVE  BooksInv'
<1> DEFINE job == [url |-> R!Canonical(url), at |-> now, status |-> "queued", credit |-> paid]
<1>1. R!Canonical(url) \in R!Url
  <2>1. url \in R!Url
    BY ReportsAssumption
  <2> QED
    BY <2>1 DEF R!Canonical, R!Url
<1>2. job \in JobRec /\ job.at = now /\ now \in Nat
  BY <1>1 DEF JobRec, BooksInv, Outcome
<1>3. jobs' = Append(jobs, job) /\ UNCHANGED <<now, reader>>
  BY DEF R!Dispatch
<1> HIDE DEF job
<1>4. jobs \in Seq(JobRec) /\ Len(jobs) \in Nat
  BY DEF BooksInv, JobsTyped
<1>5. /\ jobs' \in Seq(JobRec) /\ Len(jobs') = Len(jobs) + 1
      /\ DOMAIN jobs = 1..Len(jobs) /\ DOMAIN jobs' = 1..(Len(jobs) + 1)
      /\ \A j \in DOMAIN jobs : jobs'[j] = jobs[j]
      /\ jobs'[Len(jobs) + 1] = job
  BY <1>2, <1>3, <1>4
<1>6. \A j \in DOMAIN jobs' : j \in DOMAIN jobs \/ j = Len(jobs) + 1
  BY <1>4, <1>5
<1>0. \A j \in DOMAIN jobs' : jobs'[j].status = "queued" => jobs'[j].credit # "consumed"
  BY <1>5, <1>6 DEF BooksInv, job
<1>7. \A j \in DOMAIN jobs' : jobs'[j].at <= now
  BY <1>2, <1>5, <1>6 DEF BooksInv
<1>8. \A i, j \in DOMAIN jobs' : i <= j => jobs'[i].at <= jobs'[j].at
  <2> TAKE i, j \in DOMAIN jobs'
  <2> HAVE i <= j
  <2>1. CASE j \in DOMAIN jobs
    <3>1. i \in DOMAIN jobs
      BY <1>4, <1>5, <2>1
    <3> QED
      BY <1>5, <2>1, <3>1 DEF BooksInv, JobsTyped
  <2>2. CASE j = Len(jobs) + 1
    BY <1>2, <1>5, <1>7, <2>2
  <2> QED
    BY <1>6, <2>1, <2>2
<1>9. JobsTyped'
  BY <1>5, <1>8 DEF JobsTyped
<1>10. Len(jobs) <= Len(jobs')
  BY <1>4, <1>5
<1> QED
  BY <1>0, <1>2, <1>3, <1>5, <1>7, <1>9, <1>10, JobsMove

LEMMA FinishStep ==
  ASSUME BooksInv, NEW j \in DOMAIN jobs, NEW word \in {"completed", "failed"},
         R!Finish(j, word)
  PROVE  BooksInv'
<1>1. PICK q \in JobRec : q = jobs[j]
  BY DEF BooksInv, JobsTyped
<1> DEFINE paid == IF q.credit = "none" THEN q.credit
                     ELSE IF word = "completed" THEN "consumed" ELSE "released"
           n == [q EXCEPT !.status = word, !.credit = paid]
<1>2. paid \in {"none", "reserved", "consumed", "released"}
  BY DEF JobRec
<1>3. jobs' = [jobs EXCEPT ![j] = [q EXCEPT !.status = word,
                   !.credit = IF @ = "none" THEN @ ELSE IF word = "completed" THEN "consumed"
                              ELSE "released"]]
  BY <1>1 DEF R!Finish
<1>4. q.status = "queued" /\ UNCHANGED <<now, reader>>
  BY <1>1 DEF R!Finish
<1>5. jobs' = [jobs EXCEPT ![j] = n]
  BY <1>3 DEF JobRec
<1>6. n \in JobRec /\ n.url = q.url /\ n.at = q.at /\ n.credit = paid
  BY <1>2 DEF JobRec, Outcome
<1>7. q.credit # "consumed" /\ n.status = word
  BY <1>1, <1>4 DEF BooksInv, JobRec
<1> HIDE DEF n, paid
<1>8. /\ jobs' \in Seq(JobRec) /\ DOMAIN jobs' = DOMAIN jobs /\ Len(jobs') = Len(jobs)
      /\ Len(jobs) \in Nat
      /\ jobs'[j] = n /\ \A i \in DOMAIN jobs : i # j => jobs'[i] = jobs[i]
  BY <1>5, <1>6 DEF BooksInv, JobsTyped
<1>9. \A i \in DOMAIN jobs : jobs'[i].at = jobs[i].at /\ jobs'[i].url = jobs[i].url
  BY <1>1, <1>6, <1>8
<1>10. JobsTyped'
  BY <1>8, <1>9 DEF BooksInv, JobsTyped
<1>11. \A i \in DOMAIN jobs : jobs'[i].at <= now
  BY <1>9 DEF BooksInv
<1>12. \A i \in DOMAIN jobs : jobs'[i].status = "queued" => jobs'[i].credit # "consumed"
  BY <1>7, <1>8 DEF BooksInv
<1>13. \A i \in DOMAIN jobs : jobs[i].credit = "consumed" => jobs'[i].credit = "consumed"
  BY <1>1, <1>7, <1>8
<1>14. Len(jobs) <= Len(jobs') /\ now' \in Nat
  BY <1>4, <1>8 DEF BooksInv
<1> QED
  BY <1>4, <1>8, <1>9, <1>10, <1>11, <1>12, <1>13, <1>14, JobsMove

LEMMA ReadRowsStep ==
  ASSUME BooksInv, R!ReadRows
  PROVE  BooksInv'
<1>1. PICK order \in R!SetToSeqs(R!Groups) :
         /\ R!Ordered(RowsIn(order))
         /\ reader' = [reader EXCEPT !.pc = "spend", !.saw = jobs,
                                     !.lines = R!Lines(R!Shown(RowsIn(order)))]
  BY DEF R!ReadRows, RowsIn
<1>2. UNCHANGED <<now, jobs>>
  BY DEF R!ReadRows
<1> DEFINE lines == R!Lines(R!Shown(RowsIn(order)))
<1>3. LinesRight(lines, jobs) /\ DOMAIN lines \subseteq Path
  BY <1>1, RowsAreRight DEF BooksInv
<1> HIDE DEF lines
<1>4. reader' = [pc |-> "spend", lines |-> lines, spent |-> reader.spent, saw |-> jobs]
  <2>1. reader' = [reader EXCEPT !.pc = "spend", !.saw = jobs, !.lines = lines]
    BY <1>1 DEF lines
  <2>2. reader = [pc |-> reader.pc, lines |-> reader.lines, spent |-> reader.spent,
                  saw |-> reader.saw]
    BY DEF BooksInv
  <2> QED
    BY <2>1, <2>2
<1>5. SawSound'
  <2>1. Len(jobs) <= Len(jobs) /\ jobs \in Seq(JobRec)
    BY DEF BooksInv, JobsTyped
  <2>2. LinesRight(reader.lines, reader.saw)'
    BY <1>3, <1>4
  <2> QED
    BY <1>2, <1>3, <1>4, <2>1, <2>2 DEF SawSound
<1>6. /\ (reader = [pc |-> reader.pc, lines |-> reader.lines, spent |-> reader.spent,
                    saw |-> reader.saw])'
      /\ reader'.pc = "spend"
  BY <1>4
<1>7. JobsTyped' /\ (\A j \in DOMAIN jobs : jobs[j].at <= now)'
      /\ (\A j \in DOMAIN jobs : jobs[j].status = "queued" => jobs[j].credit # "consumed")'
      /\ now' \in Nat
  BY <1>2 DEF BooksInv, JobsTyped
<1> QED
  BY <1>5, <1>6, <1>7 DEF BooksInv

LEMMA ReadSpendStep ==
  ASSUME BooksInv, R!ReadSpend
  PROVE  BooksInv'
<1>1. /\ reader.pc = "spend" /\ UNCHANGED <<now, jobs>>
      /\ reader' = [reader EXCEPT !.pc = "answer", !.spent = [p \in Path |-> R!Spent(p)]]
  BY DEF R!ReadSpend
<1> DEFINE spent == [p \in Path |-> R!Spent(p)]
<1>2. reader' = [pc |-> "answer", lines |-> reader.lines, spent |-> spent, saw |-> reader.saw]
  <2> HIDE DEF spent
  <2>1. reader' = [reader EXCEPT !.pc = "answer", !.spent = spent]
    BY <1>1 DEF spent
  <2>2. reader = [pc |-> reader.pc, lines |-> reader.lines, spent |-> reader.spent,
                  saw |-> reader.saw]
    BY DEF BooksInv
  <2> QED
    BY <2>1, <2>2
<1>3. SawSound
  BY <1>1 DEF BooksInv
<1>4. SpentCovers(spent, reader.lines, reader.saw)
  <2> SUFFICES ASSUME NEW p \in DOMAIN reader.lines
               PROVE  spent[p] >= R!Cardinality({j \in {i \in {h \in DOMAIN reader.saw :
                                                   R!PageOf(reader.saw[h].url) = p} :
                                              reader.saw[i].status = "completed"} :
                                       reader.saw[j].credit = "consumed"})
    BY DEF SpentCovers
  <2> DEFINE a == {j \in {i \in {h \in DOMAIN reader.saw : R!PageOf(reader.saw[h].url) = p} :
                                              reader.saw[i].status = "completed"} :
                                       reader.saw[j].credit = "consumed"}
             b == {j \in DOMAIN jobs : /\ R!PageOf(jobs[j].url) = p
                                       /\ jobs[j].credit \in {"reserved", "consumed"}}
  <2>1. DOMAIN reader.saw \subseteq DOMAIN jobs
    BY <1>3 DEF SawSound, BooksInv, JobsTyped
  <2>2. a \subseteq b
    BY <1>3, <2>1 DEF SawSound
  <2>3. IsFiniteSet(b) /\ Cardinality(b) \in Nat /\ Cardinality(a) \in Nat
    BY <2>2, JobsFinite DEF BooksInv
  <2>4. Cardinality(a) <= Cardinality(b)
    BY <2>2, <2>3, FS_Subset
  <2>5. spent[p] = Cardinality(b)
    BY <1>3, CountIs DEF SawSound, R!Spent
  <2> HIDE DEF a, b, spent
  <2>6. spent[p] >= R!Cardinality(a)
    BY <2>3, <2>4, <2>5, CountIs
  <2> QED
    BY <2>6 DEF a
<1> HIDE DEF spent
<1>5. SawSound'
  <2>1. reader'.lines = reader.lines /\ reader'.saw = reader.saw
    BY <1>2
  <2>2. LinesRight(reader.lines, reader.saw)'
    BY <1>3, <2>1 DEF SawSound
  <2> QED
    BY <1>1, <1>3, <2>1, <2>2 DEF SawSound
<1>6. /\ (reader = [pc |-> reader.pc, lines |-> reader.lines, spent |-> reader.spent,
                    saw |-> reader.saw])'
      /\ reader'.pc = "answer" /\ SpentCovers(reader.spent, reader.lines, reader.saw)'
  BY <1>2, <1>4 DEF SpentCovers
<1>7. JobsTyped' /\ (\A j \in DOMAIN jobs : jobs[j].at <= now)'
      /\ (\A j \in DOMAIN jobs : jobs[j].status = "queued" => jobs[j].credit # "consumed")'
      /\ now' \in Nat
  BY <1>1 DEF BooksInv, JobsTyped
<1> QED
  BY <1>5, <1>6, <1>7 DEF BooksInv

LEMMA BooksStep ==
  ASSUME BooksInv, [R!Next]_books
  PROVE  BooksInv'
<1>1. CASE R!Tick
  <2>1. now' = now + 1 /\ UNCHANGED <<jobs, reader>>
    BY <1>1 DEF R!Tick
  <2>2. now \in Nat /\ jobs \in Seq(JobRec)
    BY DEF BooksInv, JobsTyped
  <2>3. \A j \in DOMAIN jobs : jobs[j].at <= now + 1
    <3>1. \A j \in DOMAIN jobs : jobs[j].at \in Nat
      BY JobsFinite DEF BooksInv
    <3> QED
      BY <2>2, <3>1 DEF BooksInv
  <2>4. JobsTyped' /\ now' \in Nat /\ Len(jobs) <= Len(jobs)
    BY <2>1, <2>2 DEF BooksInv, JobsTyped
  <2>5. \A j \in DOMAIN jobs : jobs[j].status = "queued" => jobs[j].credit # "consumed"
    BY DEF BooksInv
  <2> QED
    BY <2>1, <2>3, <2>4, <2>5, JobsMove
<1>2. CASE R!Answer
  <2>1. UNCHANGED <<now, jobs>>
        /\ reader' = [pc |-> "rows", lines |-> <<>>, spent |-> None, saw |-> <<>>]
    BY <1>2 DEF R!Answer, R!Resting
  <2>2. /\ reader'.pc = "rows"
        /\ (reader = [pc |-> reader.pc, lines |-> reader.lines, spent |-> reader.spent,
                      saw |-> reader.saw])'
    BY <2>1
  <2>3. JobsTyped' /\ (\A j \in DOMAIN jobs : jobs[j].at <= now)'
        /\ (\A j \in DOMAIN jobs : jobs[j].status = "queued" => jobs[j].credit # "consumed")'
        /\ now' \in Nat
    BY <2>1 DEF BooksInv, JobsTyped
  <2> QED
    BY <2>2, <2>3 DEF BooksInv
<1>3. CASE UNCHANGED books
  <2>1. UNCHANGED <<now, jobs, reader>>
    BY <1>3 DEF books
  <2>2. JobsTyped' /\ now' \in Nat /\ Len(jobs) <= Len(jobs')
    BY <2>1 DEF BooksInv, JobsTyped
  <2>3. /\ \A j \in DOMAIN jobs : jobs[j].at <= now
        /\ \A j \in DOMAIN jobs : jobs[j].status = "queued" => jobs[j].credit # "consumed"
    BY DEF BooksInv
  <2> QED
    BY <2>1, <2>2, <2>3, JobsMove
<1> QED
  BY <1>1, <1>2, <1>3, DispatchStep, FinishStep, ReadRowsStep, ReadSpendStep DEF R!Next

\* The dashboard's lines add up to the jobs of their pages, for any URLs, parameters and
\* limits, any number of jobs, and whatever happens between the two queries.
THEOREM LinesAddUp == BothSpec => []PagesAddUp
<1>1. BothInit => BooksInv
  BY BooksBegin DEF BothInit
<1>2. BooksInv /\ [BothNext]_<<vars, books, part>> => BooksInv'
  <2> SUFFICES ASSUME BooksInv, [BothNext]_<<vars, books, part>>
               PROVE  BooksInv'
    OBVIOUS
  <2>1. [R!Next]_books
    BY DEF BothNext
  <2> QED
    BY <2>1, BooksStep
<1>3. BooksInv => PagesAddUp
  BY DEF BooksInv, SawSound, SpentCovers, LinesRight, PagesAddUp, R!PagesAddUp
<1> QED
  BY <1>1, <1>2, <1>3, PTL DEF BothSpec
===============================================================================
