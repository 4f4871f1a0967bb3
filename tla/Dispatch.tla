-------------------------------- MODULE Dispatch --------------------------------
(***************************************************************************)
(* How an optimization job comes to be, and what it publishes: the dispatch  *)
(* routes of the API and of the embedded dashboard (routes/optimize.ts,      *)
(* routes/embed.ts), the crawl that a consumer starts when a root page       *)
(* completes (services/queue-consumer.ts), the template deduplication they  *)
(* share (services/template-dedup.ts), and the extraction that writes an     *)
(* artifact to R2 (services/puppeteer-extractor.ts).                         *)
(*                                                                         *)
(* A page's HTML has a structure, and its hash names a template: a page whose *)
(* hash is known at the edge takes a copy of the template's critical CSS, for *)
(* free. Of an artifact, the model keeps the structure it was extracted from. *)
(*                                                                         *)
(* The ledger and the settling of a job are in CreditLedger and JobPipeline:  *)
(* here a reservation is one step, and so is the roll back of a failed send;  *)
(* reruns are in JobPipeline.                                               *)
(***************************************************************************)
EXTENDS Naturals, Sequences, FiniteSets

CONSTANTS
    Caller,         \* requests handled at the same time
    Consumer,       \* consumers of the optimization queue
    Page, Root,     \* the pages of the site, and its root
    Structure,
    None,
    Routes,         \* the routes that are called
    Lists,          \* the lists of viewports that are asked for
    SiteCap,        \* MAX_ACTIVE_JOBS_PER_SITE (12)
    FleetCap,       \* plan.maxConcurrentJobs
    MaxJobs,        \* bound on the job ids that are minted
    Credits,        \* the credits of the period
    MaxRedesigns,   \* bound on how often a page changes its structure
    MaxFaults,      \* bound on the failures, one at a time
    MarkerFails     \* whether the put of a KV marker may be what fails

Viewport == {"mobile", "desktop"}

ASSUME ActorAssumption == Caller \cap Consumer = {}
ASSUME PageAssumption == Root \in Page /\ IsFiniteSet(Page)
ASSUME RoutesAssumption == Routes \subseteq {"dispatch", "embed", "crawl"}
\* Without viewports, a call is for both of them.
ASSUME ListsAssumption == Lists \subseteq Seq(Viewport) \ {<<>>}
ASSUME BoundAssumption ==
    {SiteCap, FleetCap, MaxJobs, Credits, MaxRedesigns, MaxFaults} \subseteq Nat
ASSUME MarkerAssumption == MarkerFails \in BOOLEAN

VARIABLES
    structure,  \* the structure of each page, as its origin serves it
    rows,       \* optimization_jobs
    minted,     \* how many job ids were minted
    credit,     \* what the ledger holds for each job
    left,       \* the credits left in the period
    template,   \* KV: template:<site>:<hash>:<viewport>, an R2 key or None
    r2,         \* ASSETS_BUCKET: the structure an artifact was extracted from
    queue,      \* the optimization queue: a job and the hash its message carries
    proc,       \* where each request and each consumer is
    redesigns, faults

vars == <<structure, rows, minted, credit, left, template, r2, queue, proc,
          redesigns, faults>>
bounds == <<redesigns, faults>>
world == <<structure, redesigns>>

Job == 1..MaxJobs
Actor == Caller \cup Consumer

\* An extraction writes <url>_<viewport>.css, a copy of a template <url>_<viewport>.
Key == [page : Page, viewport : Viewport, copy : BOOLEAN]
KeyOf(p, v, copy) == [page |-> p, viewport |-> v, copy |-> copy]

\* A row of optimization_jobs. (A job that needs attention counts as one that failed.)
Row == [page : Page, viewport : Viewport, key : Key \cup {None},
        status : {"queued", "processing", "completed", "failed"}]

ASSUME NoneAssumption == None \notin Job \cup Structure \cup Key \cup Row

Idle == [pc |-> "idle"]
At(a, pc) == proc[a].pc = pc
Goto(a, pc) == proc' = [proc EXCEPT ![a].pc = pc]
Rest(a) == proc' = [proc EXCEPT ![a] = Idle]
Fault == faults < MaxFaults /\ faults' = faults + 1

InFlight == {"queued", "processing"}
Active == {j \in Job : rows[j] # None /\ rows[j].status \in InFlight}

-----------------------------------------------------------------------------
(***************************************************************************)
(* The call, up to its first viewport                                      *)
(***************************************************************************)
\* job: the id of the viewport at hand; free: the viewports a template completed;
\* pages: what the crawl has yet to enqueue, on behalf of the consumer's job msg.
Call(route, p, hash, list) ==
    [pc |-> "count", route |-> route, page |-> p, hash |-> hash, todo |-> list,
     job |-> None, free |-> {}, pages |-> {}, msg |-> None]

\* Of the HTML only tags, ids, classes and the paths of its assets count, as a set, and
\* with their numbers cut off: two pages of one template have one hash.
HashOf(p) == structure[p]

\* The structure hash comes with the request, or is computed from what the origin
\* serves; there is none when it cannot be fetched (hashUrlContent).
Hash(p) == {HashOf(p), None}

Called(c, route, p, list) ==
    /\ route \in Routes
    /\ At(c, "idle") /\ minted < MaxJobs
    /\ \E h \in Hash(p) : proc' = [proc EXCEPT ![c] = Call(route, p, h, list)]
    /\ UNCHANGED <<world, rows, minted, credit, left, template, r2, queue, faults>>

\* A repeated viewport is dropped; the embedded route takes the list as it is.
Distinct(list) == Cardinality({list[i] : i \in DOMAIN list}) = Len(list)

Request(c, p, list) == Distinct(list) /\ Called(c, "dispatch", p, list)
EmbedRequest(c, p, list) == Called(c, "embed", p, list)

\* The caps of the site and of the plan: the whole batch has to fit in what remains.
BatchFits(c) ==
    /\ Cardinality(Active) + Len(proc[c].todo) <= SiteCap
    /\ Cardinality(Active) + Len(proc[c].todo) <= FleetCap

\* The embedded route knows the cap of the plan only, and not the batch.
EmbedFits == Cardinality(Active) < FleetCap

Fits(c) == IF proc[c].route = "dispatch" THEN BatchFits(c) ELSE EmbedFits

\* The counts are read before any job is made. A site may have no subscription, or
\* have used up its rate: both refuse the call.
Count(c) ==
    /\ At(c, "count") /\ proc[c].route # "crawl"
    /\ IF Fits(c) THEN Goto(c, "lookup") ELSE Rest(c)
    /\ UNCHANGED <<world, rows, minted, credit, left, template, r2, queue, faults>>

Refused(c) ==
    /\ At(c, "count") /\ proc[c].route # "crawl"
    /\ Fault /\ Rest(c)
    /\ UNCHANGED <<world, rows, minted, credit, left, template, r2, queue>>

-----------------------------------------------------------------------------
(***************************************************************************)
(* The crawl                                                               *)
(***************************************************************************)
\* The latest job of a page, of either viewport: ids are minted in order.
Latest(p) ==
    LET js == {j \in Job : rows[j] # None /\ rows[j].page = p}
    IN IF js = {} THEN None ELSE CHOOSE j \in js : \A i \in js : i <= j

\* A page with a job is not crawled again, one that failed only after a week.
MayCrawl(p, week) ==
    \/ Latest(p) = None
    \/ rows[Latest(p)].status = "failed" /\ week

\* Every page that is picked counts as two jobs: the loop ends once they reach the cap.
Room(n) == IF n >= SiteCap THEN 0 ELSE (SiteCap - n + 1) \div 2

\* The internal links on the root page, itself left out: here it links to every page.
Links == Page \ {Root}

Pick(w) ==
    /\ At(w, "count") /\ proc[w].route = "crawl"
    /\ \E week \in BOOLEAN :
         LET links == {p \in Links : MayCrawl(p, week)}
             n == Room(Cardinality(Active))
         IN \E ps \in SUBSET links :
              /\ Cardinality(ps) = IF Cardinality(links) < n THEN Cardinality(links) ELSE n
              /\ proc' = [proc EXCEPT ![w].pc = "next", ![w].pages = ps]
    /\ UNCHANGED <<world, rows, minted, credit, left, template, r2, queue, faults>>

-----------------------------------------------------------------------------
(***************************************************************************)
(* One viewport after the other                                            *)
(***************************************************************************)
ThisViewport(c) == Head(proc[c].todo)
Both == <<"mobile", "desktop">>

\* What call q does after a viewport. A request looks for a template and, failing
\* that, pays, viewport by viewport. The crawl looks for both templates, then pays for
\* both unless both were free, and takes its next page.
Advance(q, phase) ==
    LET rest == [q EXCEPT !.todo = Tail(@), !.job = None]
    IN CASE rest.todo # <<>> ->
              [rest EXCEPT !.pc = IF q.route = "crawl" THEN phase ELSE "lookup"]
         [] rest.todo = <<>> /\ q.route # "crawl" -> Idle
         [] rest.todo = <<>> /\ q.route = "crawl" ->
              IF phase = "lookup" /\ q.free # Viewport
              THEN [rest EXCEPT !.pc = "pay", !.todo = Both]
              ELSE [rest EXCEPT !.pc = "next"]

\* A call that stops here; a crawl gives its consumer back.
Stop(q) == IF q.route = "crawl" THEN [q EXCEPT !.pc = "settle"] ELSE Idle

NextPage(w) ==
    /\ At(w, "next")
    /\ IF proc[w].pages = {} THEN proc' = [proc EXCEPT ![w] = Stop(@)]
       ELSE \E p \in proc[w].pages : \E h \in Hash(p) :
              proc' = [proc EXCEPT ![w].pc = IF h = None THEN "pay" ELSE "lookup",
                                   ![w].page = p, ![w].hash = h, ![w].free = {},
                                   ![w].pages = @ \ {p}, ![w].todo = Both]
    /\ UNCHANGED <<world, rows, minted, credit, left, template, r2, queue, faults>>

\* The template of the hash, for this viewport, if the edge has one.
Known(c) ==
    IF proc[c].hash = None THEN None ELSE template[proc[c].hash][ThisViewport(c)]

CopyKey(c) == KeyOf(proc[c].page, ThisViewport(c), TRUE)

\* No template, or an artifact that cannot be copied: the crawl looks for the next,
\* any other call pays.
Miss(c) ==
    proc' = [proc EXCEPT ![c] = IF @.route = "crawl" THEN Advance(@, "lookup")
                                ELSE [@ EXCEPT !.pc = "pay"]]

\* Mutant of Lookup: the job is completed without the artifact under its key.
LookupOnly(c) ==
    /\ At(c, "lookup")
    /\ IF Known(c) # None THEN Goto(c, "free") ELSE Miss(c)
    /\ UNCHANGED <<world, rows, minted, credit, left, template, r2, queue, faults>>

\* lookupTemplate, and ensureUrlArtifact: the template's artifact is put under the key
\* of this page. The bucket may fail.
Lookup(c) ==
    /\ At(c, "lookup")
    /\ \/ /\ Known(c) = None /\ Miss(c) /\ UNCHANGED <<r2, faults>>
       \/ /\ Known(c) # None /\ Goto(c, "free")
          /\ r2' = [r2 EXCEPT ![CopyKey(c)] = r2[Known(c)]]
          /\ UNCHANGED faults
       \/ Known(c) # None /\ Fault /\ Miss(c) /\ UNCHANGED r2
    /\ UNCHANGED <<world, rows, minted, credit, left, template, queue>>

-----------------------------------------------------------------------------
(***************************************************************************)
(* Its job                                                                 *)
(***************************************************************************)
\* generateJobId. The bound on ids ends a call early.
Id(c) == IF proc[c].job = None THEN minted + 1 ELSE proc[c].job
Mint(c) == Id(c) \in Job /\ minted' = IF proc[c].job = None THEN minted + 1 ELSE minted

Out(c) ==
    /\ proc[c].pc \in {"free", "pay"} /\ Id(c) \notin Job
    /\ proc' = [proc EXCEPT ![c] = Stop(@)]
    /\ UNCHANGED <<world, rows, minted, credit, left, template, r2, queue, faults>>

RowOf(c, status, key) ==
    [page |-> proc[c].page, viewport |-> ThisViewport(c), key |-> key, status |-> status]

\* The job is completed from the template, before any credit was reserved. Then the KV
\* marker is put, and the CSS pushed to the plugin. A failed put is swallowed by the shared helper; in the dispatch route it is
\* caught around the template branch, and the viewport goes on to pay under the same id.
FreeRow(c) ==
    rows' = [rows EXCEPT ![Id(c)] = RowOf(c, "completed", CopyKey(c))]

NextAfterFree(c) ==
    proc' = [proc EXCEPT ![c] =
                Advance([@ EXCEPT !.free = proc[c].free \cup {ThisViewport(c)}], "lookup")]

Free(c) ==
    /\ At(c, "free") /\ Mint(c)
    /\ FreeRow(c)
    /\ \/ NextAfterFree(c) /\ UNCHANGED faults
       \/ /\ MarkerFails /\ proc[c].route = "dispatch" /\ Fault
          /\ proc' = [proc EXCEPT ![c].pc = "pay", ![c].job = Id(c)]
    /\ UNCHANGED <<world, credit, left, template, r2, queue>>

\* reserveCredits; without credits the call answers with what it has.
Reserve(c) ==
    /\ At(c, "pay")
    /\ IF left > 0
       THEN /\ Mint(c)
            /\ left' = left - 1
            /\ credit' = [credit EXCEPT ![Id(c)] = "held"]
            /\ proc' = [proc EXCEPT ![c].pc = "insert", ![c].job = Id(c)]
       ELSE proc' = [proc EXCEPT ![c] = Stop(@)] /\ UNCHANGED <<minted, left, credit>>
    /\ UNCHANGED <<world, rows, template, r2, queue, faults>>

GiveBack(j) ==
    IF credit[j] = "held"
    THEN credit' = [credit EXCEPT ![j] = "returned"] /\ left' = left + 1
    ELSE UNCHANGED <<credit, left>>

\* INSERT, the KV marker, and the message. An id that has its row already is a
\* conflict: the route throws.
Enqueue(c) ==
    /\ At(c, "insert")
    /\ IF rows[proc[c].job] = None
       THEN /\ rows' = [rows EXCEPT ![proc[c].job] = RowOf(c, "queued", None)]
            /\ queue' = queue \cup {[job |-> proc[c].job, hash |-> proc[c].hash]}
            /\ proc' = [proc EXCEPT ![c] = Advance(@, "pay")]
       ELSE proc' = [proc EXCEPT ![c] = Stop(@)] /\ UNCHANGED <<rows, queue>>
    /\ UNCHANGED <<world, minted, credit, left, template, r2, faults>>

\* What a send that throws leaves of the row: a request deletes it, the crawl fails it.
RolledBack(c) ==
    IF proc[c].route = "crawl" THEN RowOf(c, "failed", None) ELSE None

\* Mutant of SendFails: the ledger is not told.
SendFailsCharged(c) ==
    /\ At(c, "insert") /\ Fault
    /\ rows[proc[c].job] = None
    /\ rows' = [rows EXCEPT ![proc[c].job] = RolledBack(c)]
    /\ proc' = [proc EXCEPT ![c] = IF @.route = "crawl" THEN Advance(@, "pay") ELSE Idle]
    /\ UNCHANGED <<world, minted, credit, left, template, r2, queue>>

\* The roll back gives the credit back. A request answers 503, whatever its earlier
\* viewports became; the crawl goes on.
SendFails(c) ==
    /\ At(c, "insert") /\ Fault
    /\ rows[proc[c].job] = None
    /\ rows' = [rows EXCEPT ![proc[c].job] = RolledBack(c)]
    /\ GiveBack(proc[c].job)
    /\ proc' = [proc EXCEPT ![c] = IF @.route = "crawl" THEN Advance(@, "pay") ELSE Idle]
    /\ UNCHANGED <<world, minted, template, r2, queue>>

-----------------------------------------------------------------------------
(***************************************************************************)
(* The consumer                                                            *)
(***************************************************************************)
JobOf(w) == rows[proc[w].msg]

\* A message whose job is not queued is acked without work.
Claim(w, m) ==
    /\ At(w, "idle") /\ m \in queue
    /\ queue' = queue \ {m}
    /\ IF rows[m.job] # None /\ rows[m.job].status = "queued"
       THEN /\ rows' = [rows EXCEPT ![m.job].status = "processing"]
            /\ proc' = [proc EXCEPT ![w] = [pc |-> "extract", msg |-> m.job, hash |-> m.hash]]
       ELSE UNCHANGED <<rows, proc>>
    /\ UNCHANGED <<world, minted, credit, left, template, r2, faults>>

OwnKey(w) == KeyOf(JobOf(w).page, JobOf(w).viewport, FALSE)

\* extractCriticalCssAndLcp: what the page is made of at that moment is put to R2.
Extract(w) ==
    /\ At(w, "extract")
    /\ r2' = [r2 EXCEPT ![OwnKey(w)] = structure[JobOf(w).page]]
    /\ Goto(w, "complete")
    /\ UNCHANGED <<world, rows, minted, credit, left, template, queue, faults>>

\* An error page, a challenge, too little CSS: the job is tried again, or fails and its
\* credit is given back.
ExtractFails(w) ==
    /\ At(w, "extract") /\ Fault
    /\ \/ /\ rows' = [rows EXCEPT ![proc[w].msg].status = "queued"]
          /\ queue' = queue \cup {[job |-> proc[w].msg, hash |-> proc[w].hash]}
          /\ UNCHANGED <<credit, left>>
       \/ /\ rows' = [rows EXCEPT ![proc[w].msg].status = "failed"]
          /\ GiveBack(proc[w].msg)
          /\ UNCHANGED queue
    /\ Rest(w)
    /\ UNCHANGED <<world, minted, template, r2>>

\* The artifact becomes the template of the hash the message carries. A root page
\* starts the crawl, where plan and site have it on.
Complete(w) ==
    /\ At(w, "complete")
    /\ rows' = [rows EXCEPT ![proc[w].msg] = [@ EXCEPT !.status = "completed",
                                                       !.key = OwnKey(w)]]
    /\ template' = IF proc[w].hash = None THEN template
                   ELSE [template EXCEPT ![proc[w].hash][JobOf(w).viewport] = OwnKey(w)]
    /\ proc' = [proc EXCEPT ![w] =
         IF "crawl" \in Routes /\ JobOf(w).page = Root
         THEN [Call("crawl", Root, None, <<>>) EXCEPT !.msg = proc[w].msg]
         ELSE [@ EXCEPT !.pc = "settle"]]
    /\ UNCHANGED <<world, minted, credit, left, r2, queue, faults>>

\* The push to the plugin changes nothing here; consumeReservationForJob.
Settle(w) ==
    /\ At(w, "settle")
    /\ credit' = [credit EXCEPT ![proc[w].msg] = IF @ = "held" THEN "charged" ELSE @]
    /\ Rest(w)
    /\ UNCHANGED <<world, rows, minted, left, template, r2, queue, faults>>

Redesign(p, s) ==
    /\ redesigns < MaxRedesigns /\ redesigns' = redesigns + 1
    /\ structure[p] # s
    /\ structure' = [structure EXCEPT ![p] = s]
    /\ UNCHANGED <<rows, minted, credit, left, template, r2, queue, proc, faults>>

-----------------------------------------------------------------------------
Init ==
    /\ structure \in [Page -> Structure]
    /\ rows = [j \in Job |-> None] /\ minted = 0
    /\ credit = [j \in Job |-> "none"] /\ left = Credits
    /\ template = [h \in Structure |-> [v \in Viewport |-> None]]
    /\ r2 = [k \in Key |-> None]
    /\ queue = {}
    /\ proc = [a \in Actor |-> Idle]
    /\ redesigns = 0 /\ faults = 0

\* One viewport of any of the calls.
Step(a) ==
    \/ Lookup(a) \/ Out(a) \/ Free(a) \/ Reserve(a)
    \/ Enqueue(a) \/ SendFails(a)

Next ==
    \/ \E c \in Caller :
         \/ \E p \in Page, list \in Lists : Request(c, p, list) \/ EmbedRequest(c, p, list)
         \/ Count(c) \/ Refused(c) \/ Step(c)
    \/ \E w \in Consumer :
         \/ \E m \in queue : Claim(w, m)
         \/ Extract(w) \/ ExtractFails(w) \/ Complete(w) \/ Settle(w)
         \/ Pick(w) \/ NextPage(w) \/ Step(w)
    \/ \E p \in Page, s \in Structure : Redesign(p, s)

Spec == Init /\ [][Next]_vars

-----------------------------------------------------------------------------
\* "The artifact must exist under THIS url's key before the job is marked completed"
\* (optimize.ts:326): what GET /optimize/css is asked for, it finds.
CompletedHasArtifact ==
    \A j \in Job : rows[j] # None /\ rows[j].status = "completed" =>
        rows[j].key # None /\ r2[rows[j].key] # None

\* Whether some request or consumer is at work on job j.
Handled(j) ==
    \E a \in Actor : proc[a].pc # "idle" /\
        (proc[a].msg = j \/ ("job" \in DOMAIN proc[a] /\ proc[a].job = j))

\* "leaving a zombie 'queued' job while falsely reporting 202" (optimize.ts:427): a job
\* nobody is at work on is queued just when its message is in the queue, and holds a
\* credit just when it is queued.
NoZombie ==
    \A j \in Job :
        ~Handled(j) =>
            LET waits == rows[j] # None /\ rows[j].status = "queued"
            IN /\ waits <=> \E m \in queue : m.job = j
               /\ waits <=> credit[j] = "held"
               /\ j \in Active => waits
=============================================================================
