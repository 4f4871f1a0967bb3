----------------------------- MODULE JourneyProofs -----------------------------
(***************************************************************************)
(* Proofs about the journey of a page's critical CSS (MCDispatch), for any    *)
(* pages, requests, consumers, colos and bounds: a completed job has its       *)
(* artifact; a job nobody is at work on is queued just when its message is;    *)
(* what a tab yields is the page's cascade, for any sheets and rules; an answer *)
(* of the edge is recent; and a plugin that knows of a version's jobs does not  *)
(* order them again.                                                         *)
(***************************************************************************)
EXTENDS MCDispatch, FiniteSetTheorems, WellFoundedInduction, SequenceTheorems, TLAPS

-----------------------------------------------------------------------------
(***************************************************************************)
(* The inductive invariant of Dispatch                                     *)
(***************************************************************************)
Hashes == Structure \cup {None}

CallPc == {"count", "next", "lookup", "free", "pay", "insert", "settle"}
Calls == [pc : CallPc, route : {"dispatch", "embed", "crawl"}, page : Page, hash : Hashes,
          todo : Seq(Viewport), job : Job \cup {None}, free : SUBSET Viewport,
          pages : SUBSET Page, msg : Job \cup {None}]
Works == [pc : {"extract", "complete", "settle"}, msg : Job, hash : Hashes]

\* A call has a viewport at hand from the look for a template to the message, and an id
\* once it has a row or a credit.
AtHand == {"lookup", "free", "pay", "insert"}
Handy(q) ==
    /\ q.pc \in AtHand \/ (q.pc = "count" /\ q.route # "crawl") => q.todo # <<>>
    /\ q.pc \notin {"pay", "insert", "settle"} => q.job = None
    /\ q.pc = "pay" /\ ~MarkerFails => q.job = None
    /\ q.pc = "insert" => q.job \in Job

Requests == {q \in Calls : /\ Handy(q) /\ q.msg = None
                           /\ q.route # "crawl" /\ q.pc \notin {"next", "settle"}}
Crawls == {q \in Calls : Handy(q) /\ q.msg \in Job /\ q.route = "crawl"}

DispatchTypes ==
    /\ structure \in [Page -> Structure]
    /\ rows \in [Job -> Row \cup {None}]
    /\ minted \in 0..MaxJobs /\ left \in Nat
    /\ credit \in [Job -> {"none", "held", "charged", "returned"}]
    /\ template \in [Structure -> [Viewport -> Key \cup {None}]]
    /\ r2 \in [Key -> Structure \cup {None}]
    /\ queue \subseteq [job : Job, hash : Hashes]
    /\ DOMAIN proc = Actor
    /\ \A c \in Caller : proc[c] \in Requests \cup {Idle}
    /\ \A w \in Consumer : proc[w] \in Works \cup Crawls \cup {Idle}

\* What is completed, or is about to be, has its artifact; so has every template.
Extracting(w) == proc[w].pc \in {"extract", "complete"}

Artifacts ==
    /\ \A j \in Job : minted < j => rows[j] = None
    /\ \A a \in Actor : proc[a].pc \in {"pay", "insert"} => proc[a].job \in 1..minted \cup {None}
    /\ \A w \in Consumer : Extracting(w) => rows[proc[w].msg] # None
    /\ \A h \in Structure, v \in Viewport : template[h][v] # None => r2[template[h][v]] # None
    /\ \A a \in Actor : At(a, "free") => r2[CopyKey(a)] # None
    /\ \A w \in Consumer : At(w, "complete") => r2[OwnKey(w)] # None
    /\ CompletedHasArtifact

\* Who has job j: a call that has reserved its credit; a consumer that has claimed it,
\* and one that has completed it and not settled it.
Writes(a, j) == proc[a].pc = "insert" /\ proc[a].job = j
Extracts(a, j) == a \in Consumer /\ Extracting(a) /\ proc[a].msg = j
Ends(a, j) == a \in Consumer /\ proc[a].pc # "idle" /\ ~Extracting(a) /\ proc[a].msg = j
Has(a, j) == Writes(a, j) \/ Extracts(a, j) \/ Ends(a, j)

Sent(j) == \E m \in queue : m.job = j
Is(j, status) == rows[j] # None /\ rows[j].status = status

\* What job j is to the one that has it.
Kept(j) ==
    /\ \A a \in Actor : Has(a, j) => credit[j] = "held" /\ ~Sent(j)
    /\ \A a \in Actor : Writes(a, j) => rows[j] = None
    /\ \A a \in Actor : Extracts(a, j) => Is(j, "processing")
    /\ \A a \in Actor : Ends(a, j) => Is(j, "completed")
    /\ \A a, b \in Actor : Has(a, j) /\ Has(b, j) => a = b

\* What it is when nobody has it.
Loose(j) ==
    /\ Is(j, "queued") <=> Sent(j)
    /\ Is(j, "queued") <=> credit[j] = "held"
    /\ ~Is(j, "processing")
    /\ \A m, n \in queue : m.job = j /\ n.job = j => m = n

JobFine(j) ==
    /\ Kept(j)
    /\ (\A a \in Actor : ~Has(a, j)) => Loose(j)
    /\ minted < j => /\ \A a \in Actor : ~Has(a, j)
                     /\ rows[j] = None

DispatchInv == DispatchTypes /\ Artifacts /\ (~MarkerFails => \A j \in Job : JobFine(j))

-----------------------------------------------------------------------------
(***************************************************************************)
(* Moves of one actor                                                      *)
(***************************************************************************)
Moved(a) == DOMAIN proc' = Actor /\ \A b \in Actor \ {a} : proc'[b] = proc[b]

CallsOf(a) == IF a \in Caller THEN Requests ELSE Crawls

\* A call goes on, or a request is over; a crawl keeps its consumer's job.
GoesOn(a, q) ==
    \/ q \in CallsOf(a) /\ (a \in Consumer => q.msg = proc[a].msg)
    \/ a \in Caller /\ q = Idle

LEMMA IdlePc == Idle.pc = "idle"
  BY DEF Idle

LEMMA Actors ==
  ASSUME NEW a \in Actor
  PROVE  (a \in Caller /\ a \notin Consumer) \/ (a \in Consumer /\ a \notin Caller)
  BY ActorAssumption DEF Actor

LEMMA MovesTo ==
  ASSUME DispatchTypes, NEW a \in Actor, NEW q, proc' = [proc EXCEPT ![a] = q]
  PROVE  Moved(a) /\ proc'[a] = q
  BY DEF DispatchTypes, Moved

LEMMA InCall ==
  ASSUME DispatchTypes, NEW a \in Actor, proc[a].pc \in AtHand \cup {"count", "next"}
  PROVE  proc[a] \in CallsOf(a) /\ proc[a] \in Calls /\ Handy(proc[a])
<1>1. proc[a].pc \notin {"idle", "extract", "complete", "settle"}
  BY DEF AtHand
<1>2. CASE a \in Caller
  BY <1>1, <1>2, IdlePc DEF DispatchTypes, CallsOf, Requests
<1>3. CASE a \in Consumer /\ a \notin Caller
  BY <1>1, <1>3, IdlePc DEF DispatchTypes, CallsOf, Crawls, Works
<1> QED
  BY <1>2, <1>3, Actors

LEMMA InWork ==
  ASSUME DispatchTypes, NEW w \in Consumer, proc[w].pc \in {"extract", "complete"}
  PROVE  proc[w] \in Works
  BY IdlePc DEF DispatchTypes, Crawls, Calls, CallPc

\* The viewport at hand.
LEMMA ViewportAtHand ==
  ASSUME DispatchTypes, NEW a \in Actor, proc[a].pc \in AtHand
  PROVE  /\ proc[a].todo \in Seq(Viewport) /\ proc[a].todo # <<>>
         /\ ThisViewport(a) \in Viewport /\ CopyKey(a) \in Key /\ CopyKey(a) # None
<1>1. proc[a] \in Calls /\ Handy(proc[a])
  BY InCall
<1>2. proc[a].todo \in Seq(Viewport) /\ proc[a].todo # <<>> /\ proc[a].page \in Page
  BY <1>1 DEF Calls, Handy
<1>3. ThisViewport(a) \in Viewport
  BY <1>2 DEF ThisViewport
<1>4. CopyKey(a) \in Key
  BY <1>2, <1>3 DEF CopyKey, KeyOf, Key
<1> QED
  BY <1>2, <1>3, <1>4, NoneAssumption

LEMMA GoesOnTyped ==
  ASSUME DispatchTypes, NEW a \in Actor, Moved(a), GoesOn(a, proc'[a])
  PROVE  /\ DOMAIN proc' = Actor
         /\ \A c \in Caller : proc'[c] \in Requests \cup {Idle}
         /\ \A w \in Consumer : proc'[w] \in Works \cup Crawls \cup {Idle}
<1>1. /\ a \in Caller => proc'[a] \in Requests \cup {Idle}
      /\ a \in Consumer => proc'[a] \in Crawls
  BY Actors DEF GoesOn, CallsOf
<1>2. \A b \in Actor : b = a \/ proc'[b] = proc[b]
  BY DEF Moved
<1> QED
  BY <1>1, <1>2 DEF DispatchTypes, Moved, Actor

-----------------------------------------------------------------------------
(***************************************************************************)
(* What a call becomes                                                     *)
(***************************************************************************)
\* With another pc, it is a call still.
LEMMA CallAt ==
  ASSUME NEW a \in Actor, NEW q \in CallsOf(a), NEW at \in {"lookup", "free", "pay"},
         q.todo # <<>>, q.job = None
  PROVE  /\ [q EXCEPT !.pc = at] \in CallsOf(a) /\ [q EXCEPT !.pc = at].pc = at
         /\ [q EXCEPT !.pc = at].msg = q.msg /\ [q EXCEPT !.pc = at].job = None
<1> DEFINE r == [q EXCEPT !.pc = at]
<1>1. q \in Calls
  BY DEF CallsOf, Requests, Crawls
<1>2. /\ r \in Calls /\ r.pc = at /\ r.todo = q.todo /\ r.job = q.job /\ r.msg = q.msg
      /\ r.route = q.route
  BY <1>1 DEF Calls, CallPc
<1>3. Handy(r)
  BY <1>2 DEF Handy
<1> QED
  BY <1>2, <1>3 DEF CallsOf, Requests, Crawls

LEMMA StopGoesOn ==
  ASSUME NEW a \in Actor, NEW q \in CallsOf(a)
  PROVE  /\ Stop(q) \in CallsOf(a) \/ (a \in Caller /\ Stop(q) = Idle)
         /\ a \in Caller => Stop(q) = Idle
         /\ a \in Consumer => Stop(q).pc = "settle" /\ Stop(q).msg = q.msg
<1>1. CASE a \in Caller /\ a \notin Consumer
  BY <1>1 DEF CallsOf, Requests, Stop
<1>2. CASE a \in Consumer /\ a \notin Caller
  <2> DEFINE r == [q EXCEPT !.pc = "settle"]
  <2>1. q \in Calls /\ q.route = "crawl" /\ q.msg \in Job
    BY <1>2 DEF CallsOf, Crawls
  <2>2. /\ r \in Calls /\ r.pc = "settle" /\ r.msg = q.msg /\ r.route = "crawl"
    BY <2>1 DEF Calls, CallPc
  <2>3. r \in Crawls
    BY <2>1, <2>2 DEF Handy, AtHand, Crawls
  <2> QED
    BY <1>2, <2>1, <2>2, <2>3 DEF Stop, CallsOf
<1> QED
  BY <1>1, <1>2, Actors

LEMMA AdvanceGoesOn ==
  ASSUME NEW a \in Actor, NEW q \in CallsOf(a), q.todo # <<>>, NEW phase \in {"lookup", "pay"}
  PROVE  LET r == Advance(q, phase)
         IN /\ r \in CallsOf(a) \/ (a \in Caller /\ r = Idle)
            /\ r.pc \in {"idle", "lookup", "pay", "next"}
            /\ r.pc = "pay" => r.job = None
            /\ a \in Consumer => r.pc # "idle" /\ r.msg = q.msg
<1> DEFINE rest == [q EXCEPT !.todo = Tail(@), !.job = None]
<1>1. /\ q \in Calls /\ q.todo \in Seq(Viewport) /\ Tail(q.todo) \in Seq(Viewport)
      /\ (a \in Caller => q \in Requests) /\ (a \in Consumer => q \in Crawls)
  BY Actors DEF CallsOf, Requests, Crawls, Calls
<1>2. /\ rest \in Calls /\ rest.job = None /\ rest.msg = q.msg /\ rest.route = q.route
      /\ rest.todo = Tail(q.todo)
  BY <1>1 DEF Calls
<1>3. ASSUME NEW at \in {"lookup", "pay", "next"}, NEW todo \in Seq(Viewport),
             todo # <<>> \/ at = "next", NEW s, s = [[rest EXCEPT !.pc = at] EXCEPT !.todo = todo]
      PROVE  /\ s \in Calls /\ s.pc = at /\ Handy(s) /\ s.msg = q.msg /\ s.route = q.route
             /\ s.job = None
  <2> HIDE DEF rest
  <2>1. /\ s \in Calls /\ s.pc = at /\ s.todo = todo /\ s.msg = q.msg /\ s.route = q.route
        /\ s.job = None
    BY <1>2, <1>3 DEF Calls, CallPc
  <2> QED
    BY <2>1, <1>3 DEF Handy, AtHand
<1>4. ASSUME NEW at \in {"lookup", "pay", "next"}, rest.todo # <<>> \/ at = "next"
      PROVE  LET s == [rest EXCEPT !.pc = at]
             IN /\ s \in Calls /\ s.pc = at /\ Handy(s) /\ s.msg = q.msg /\ s.route = q.route
                /\ s.job = None
  <2> HIDE DEF rest
  <2> DEFINE s == [rest EXCEPT !.pc = at]
  <2>1. /\ s \in Calls /\ s.pc = at /\ s.todo = rest.todo /\ s.msg = q.msg
        /\ s.route = q.route /\ s.job = None
    BY <1>2 DEF Calls, CallPc
  <2> QED
    BY <2>1, <1>4 DEF Handy, AtHand
<1>5. CASE a \in Caller /\ a \notin Consumer
  <2>1. q \in Requests /\ q.route # "crawl" /\ q.msg = None
    BY <1>1, <1>5 DEF Requests
  <2>2. CASE rest.todo # <<>>
    <3>1. Advance(q, phase) = [rest EXCEPT !.pc = "lookup"]
      BY <2>1, <2>2 DEF Advance
    <3> QED
      BY <3>1, <2>1, <2>2, <1>4, <1>5 DEF CallsOf, Requests
  <2>3. CASE rest.todo = <<>>
    BY <2>1, <2>3, <1>5, IdlePc DEF Advance
  <2> QED
    BY <2>2, <2>3
<1>6. CASE a \in Consumer /\ a \notin Caller
  <2>1. q \in Crawls /\ q.route = "crawl" /\ q.msg \in Job
    BY <1>1, <1>6 DEF Crawls
  <2>2. CASE rest.todo # <<>>
    <3>1. Advance(q, phase) = [rest EXCEPT !.pc = phase]
      BY <2>1, <2>2 DEF Advance
    <3> QED
      BY <3>1, <2>1, <2>2, <1>4, <1>6 DEF CallsOf, Crawls
  <2>3. CASE rest.todo = <<>> /\ phase = "lookup" /\ q.free # Viewport
    <3>1. Advance(q, phase) = [rest EXCEPT !.pc = "pay", !.todo = Both]
      BY <2>1, <2>3 DEF Advance
    <3>2. Both \in Seq(Viewport) /\ Both # <<>>
      BY DEF Both, Viewport
    <3>3. [rest EXCEPT !.pc = "pay", !.todo = Both]
            = [[rest EXCEPT !.pc = "pay"] EXCEPT !.todo = Both]
      BY <1>2
    <3> DEFINE s == Advance(q, phase)
    <3>4. s = [[rest EXCEPT !.pc = "pay"] EXCEPT !.todo = Both]
      BY <3>1, <3>3
    <3> HIDE DEF s, rest
    <3>5. /\ s \in Calls /\ s.pc = "pay" /\ Handy(s) /\ s.msg = q.msg /\ s.route = q.route
          /\ s.job = None
      BY <3>2, <3>4, <1>3
    <3>6. s \in CallsOf(a)
      BY <3>5, <2>1, <1>6 DEF CallsOf, Crawls
    <3> QED
      BY <3>5, <3>6 DEF s
  <2>4. CASE rest.todo = <<>> /\ ~(phase = "lookup" /\ q.free # Viewport)
    <3>1. Advance(q, phase) = [rest EXCEPT !.pc = "next"]
      BY <2>1, <2>4 DEF Advance
    <3> QED
      BY <3>1, <2>1, <2>4, <1>4, <1>6 DEF CallsOf, Crawls
  <2> QED
    BY <2>2, <2>3, <2>4
<1> QED
  BY <1>5, <1>6, Actors

-----------------------------------------------------------------------------
(***************************************************************************)
(* What a step has to leave as it is                                       *)
(***************************************************************************)
\* What an actor relies on.
Sound(a) ==
    /\ proc[a].pc \in {"pay", "insert"} => proc[a].job \in 1..minted \cup {None}
    /\ At(a, "free") => r2[CopyKey(a)] # None
    /\ a \in Consumer /\ Extracting(a) => rows[proc[a].msg] # None
    /\ a \in Consumer /\ At(a, "complete") => r2[OwnKey(a)] # None

RowsGrow ==
    \A j \in Job : rows[j] # None => /\ rows'[j] # None
                                     /\ rows'[j].page = rows[j].page
                                     /\ rows'[j].viewport = rows[j].viewport
ArtifactsGrow == \A k \in Key : r2[k] # None => r2'[k] # None

\* A row is completed once its artifact is there; so is a template made.
RowsSound ==
    \A j \in Job : Is(j, "completed")' =>
        \/ Is(j, "completed") /\ rows'[j].key = rows[j].key
        \/ rows'[j].key # None /\ r2'[rows'[j].key] # None
TemplatesSound ==
    \A h \in Structure, v \in Viewport : template'[h][v] # None =>
        template'[h][v] = template[h][v] \/ r2'[template'[h][v]] # None

LEMMA OwnKeyTyped ==
  ASSUME DispatchTypes, NEW w \in Consumer, proc[w].pc \in {"extract", "complete"},
         rows[proc[w].msg] # None
  PROVE  /\ proc[w].msg \in Job /\ JobOf(w) \in Row /\ OwnKey(w) \in Key /\ OwnKey(w) # None
<1>1. proc[w].msg \in Job
  BY InWork DEF Works
<1>2. JobOf(w) \in Row
  BY <1>1 DEF DispatchTypes, JobOf
<1>3. OwnKey(w) \in Key
  BY <1>2 DEF OwnKey, KeyOf, Key, Row
<1> QED
  BY <1>1, <1>2, <1>3, NoneAssumption

LEMMA ArtifactsKept ==
  ASSUME DispatchTypes, Artifacts, NEW a \in Actor, Moved(a), Sound(a)',
         RowsGrow, ArtifactsGrow, RowsSound, TemplatesSound, minted' \in Nat, minted <= minted',
         \A j \in Job : minted' < j => rows'[j] = None
  PROVE  Artifacts'
<1>1. ASSUME NEW b \in Actor, b # a
      PROVE  Sound(b)'
  <2>1. proc'[b] = proc[b]
    BY <1>1 DEF Moved
  <2>0. (proc[b].pc \in {"pay", "insert"} => proc[b].job \in 1..minted \cup {None})'
    BY <2>1 DEF Artifacts, DispatchTypes
  <2>2. (At(b, "free") => r2[CopyKey(b)] # None)'
    <3> SUFFICES ASSUME proc[b].pc = "free"
                 PROVE  r2'[CopyKey(b)'] # None
      BY <2>1 DEF At
    <3>1. CopyKey(b)' = CopyKey(b)
      BY <2>1 DEF CopyKey, ThisViewport
    <3>2. CopyKey(b) \in Key
      BY ViewportAtHand DEF AtHand
    <3>3. r2[CopyKey(b)] # None
      BY DEF Artifacts, At
    <3> QED
      BY <3>1, <3>2, <3>3 DEF ArtifactsGrow
  <2>3. b \in Consumer /\ Extracting(b)' => rows'[proc'[b].msg] # None
    <3> SUFFICES ASSUME b \in Consumer, proc[b].pc \in {"extract", "complete"}
                 PROVE  rows'[proc[b].msg] # None
      BY <2>1 DEF Extracting
    <3>1. rows[proc[b].msg] # None
      BY DEF Artifacts, Extracting
    <3> QED
      BY <3>1, OwnKeyTyped DEF RowsGrow
  <2>4. (b \in Consumer /\ At(b, "complete") => r2[OwnKey(b)] # None)'
    <3> SUFFICES ASSUME b \in Consumer, proc[b].pc = "complete"
                 PROVE  r2'[OwnKey(b)'] # None
      BY <2>1 DEF At
    <3>1. rows[proc[b].msg] # None /\ r2[OwnKey(b)] # None
      BY DEF Artifacts, Extracting, At
    <3>2. OwnKey(b) \in Key /\ proc[b].msg \in Job
      BY <3>1, OwnKeyTyped
    <3>3. OwnKey(b)' = OwnKey(b)
      BY <2>1, <3>1, <3>2 DEF RowsGrow, OwnKey, JobOf
    <3> QED
      BY <3>1, <3>2, <3>3 DEF ArtifactsGrow
  <2> QED
    BY <2>0, <2>2, <2>3, <2>4 DEF Sound
<1>2. \A b \in Actor : Sound(b)'
  BY <1>1
<1>3. \A h \in Structure, v \in Viewport : template'[h][v] # None => r2'[template'[h][v]] # None
  BY DEF TemplatesSound, ArtifactsGrow, Artifacts, DispatchTypes
<1>4. CompletedHasArtifact'
  <2> SUFFICES ASSUME NEW j \in Job, rows'[j] # None, rows'[j].status = "completed"
               PROVE  rows'[j].key # None /\ r2'[rows'[j].key] # None
    BY DEF CompletedHasArtifact
  <2>1. CASE Is(j, "completed") /\ rows'[j].key = rows[j].key
    <3>1. rows[j].key # None /\ r2[rows[j].key] # None
      BY <2>1 DEF Is, Artifacts, CompletedHasArtifact
    <3>2. rows[j].key \in Key
      BY <2>1, <3>1 DEF Is, DispatchTypes, Row
    <3> QED
      BY <2>1, <3>1, <3>2 DEF ArtifactsGrow
  <2> QED
    BY <2>1 DEF RowsSound, Is
<1> QED
  BY <1>2, <1>3, <1>4 DEF Artifacts, Sound, Actor

\* Job j, when the step touches neither it nor who has it.
Untouched(j) ==
    /\ rows'[j] = rows[j] /\ credit'[j] = credit[j]
    /\ \A m \in queue \cup queue' : m.job = j => m \in queue \cap queue'

SameHands(a, j) ==
    /\ Writes(a, j)' <=> Writes(a, j)
    /\ Extracts(a, j)' <=> Extracts(a, j)
    /\ Ends(a, j)' <=> Ends(a, j)

LEMMA OthersHands ==
  ASSUME NEW a \in Actor, Moved(a), NEW j
  PROVE  \A b \in Actor : b # a => SameHands(b, j)
  BY DEF Moved, SameHands, Writes, Extracts, Ends, Extracting

LEMMA JobKept ==
  ASSUME DispatchTypes, NEW j \in Job, JobFine(j), NEW a \in Actor, Moved(a),
         SameHands(a, j), Untouched(j), minted' \in Nat, minted <= minted'
  PROVE  JobFine(j)'
<1>1. \A b \in Actor : SameHands(b, j)
  BY OthersHands
<1>2. /\ Sent(j)' <=> Sent(j)
      /\ \A status : Is(j, status)' <=> Is(j, status)
      /\ \A b \in Actor : Has(b, j)' <=> Has(b, j)
  BY <1>1 DEF Untouched, Sent, Is, SameHands, Has
<1>3. Kept(j)'
  BY <1>1, <1>2 DEF JobFine, Kept, SameHands, Untouched
<1>4. Loose(j) => Loose(j)'
  BY <1>2 DEF Loose, Untouched
<1>5. minted' < j => minted < j
  BY DEF DispatchTypes, Job
<1> QED
  BY <1>2, <1>3, <1>4, <1>5 DEF JobFine, Untouched

\* A call that goes on, and does not write, has in hand what it had.
LEMMA GoesOnHands ==
  ASSUME DispatchTypes, NEW a \in Actor, Moved(a), GoesOn(a, proc'[a]),
         proc[a].pc \notin {"insert", "extract", "complete"}, proc'[a].pc # "insert",
         a \in Consumer => proc[a].pc # "idle"
  PROVE  \A j \in Job : SameHands(a, j)
<1>1. CASE a \in Caller /\ a \notin Consumer
  BY <1>1 DEF SameHands, Writes, Extracts, Ends
<1>2. CASE a \in Consumer /\ a \notin Caller
  <2>1. proc'[a] \in Crawls /\ proc'[a].msg = proc[a].msg
    BY <1>2 DEF GoesOn, CallsOf
  <2>2. proc'[a].pc \notin {"idle", "extract", "complete"}
    BY <2>1 DEF Crawls, Calls, CallPc
  <2> QED
    BY <1>2, <2>1, <2>2 DEF SameHands, Writes, Extracts, Ends, Extracting
<1> QED
  BY <1>1, <1>2, Actors

LEMMA GoesOnSound ==
  ASSUME NEW a \in Actor, GoesOn(a, proc'[a]), proc'[a].pc \notin {"insert", "free"},
         proc'[a].pc = "pay" => proc'[a].job \in 1..minted' \cup {None}
  PROVE  Sound(a)'
<1>1. a \in Consumer => proc'[a] \in Crawls
  BY Actors DEF GoesOn, CallsOf
<1>2. a \in Consumer => proc'[a].pc \notin {"extract", "complete"}
  BY <1>1 DEF Crawls, Calls, CallPc
<1> QED
  BY <1>2 DEF Sound, At, Extracting

-----------------------------------------------------------------------------
(***************************************************************************)
(* Steps that only lead a call on                                          *)
(***************************************************************************)
LEMMA QuietStep ==
  ASSUME DispatchInv, NEW a \in Actor, Moved(a), GoesOn(a, proc'[a]),
         proc[a].pc \notin {"insert", "extract", "complete"}, proc'[a].pc \notin {"insert", "free"},
         proc'[a].pc = "pay" => proc'[a].job = None, a \in Consumer => proc[a].pc # "idle",
         UNCHANGED <<structure, rows, minted, credit, left, template, r2, queue>>
  PROVE  DispatchInv'
<1>1. DispatchTypes /\ Artifacts
  BY DEF DispatchInv
<1>2. DispatchTypes'
  BY <1>1, GoesOnTyped DEF DispatchTypes
<1>3. Artifacts'
  <2>1. RowsGrow /\ ArtifactsGrow /\ TemplatesSound /\ RowsSound
    BY DEF RowsGrow, ArtifactsGrow, TemplatesSound, RowsSound, Is
  <2>2. /\ \A j \in Job : minted' < j => rows'[j] = None
        /\ minted' \in Nat /\ minted <= minted'
    BY <1>1 DEF Artifacts, DispatchTypes
  <2> QED
    BY <1>1, <2>1, <2>2, GoesOnSound, ArtifactsKept
<1>4. ASSUME NEW j \in Job, JobFine(j)
      PROVE  JobFine(j)'
  <2>1. Untouched(j) /\ minted' \in Nat /\ minted <= minted'
    BY <1>1 DEF Untouched, DispatchTypes
  <2> QED
    BY <1>1, <1>4, <2>1, GoesOnHands, JobKept
<1> QED
  BY <1>2, <1>3, <1>4 DEF DispatchInv

LEMMA CalledKeeps ==
  ASSUME DispatchInv, NEW c \in Caller, NEW route \in {"dispatch", "embed"},
         NEW p \in Page, NEW list \in Lists, Called(c, route, p, list)
  PROVE  DispatchInv'
<1>1. c \in Actor /\ c \notin Consumer
  BY Actors DEF Actor
<1>2. PICK h \in Hash(p) : proc' = [proc EXCEPT ![c] = Call(route, p, h, list)]
  BY Zenon DEF Called
<1> DEFINE q == Call(route, p, h, list)
<1>3. h \in Hashes /\ list \in Seq(Viewport) /\ list # <<>>
  BY ListsAssumption DEF Hash, HashOf, Hashes, DispatchInv, DispatchTypes
<1>4. /\ q \in Calls /\ q.pc = "count" /\ q.job = None /\ q.msg = None /\ q.route = route
      /\ q.todo # <<>>
  BY <1>3 DEF Call, Calls, CallPc
<1>5. q \in Requests
  BY <1>4 DEF Requests, Handy, AtHand
<1> HIDE DEF q
<1>6. Moved(c) /\ proc'[c] = q
  BY <1>1, <1>2, MovesTo DEF DispatchInv, q
<1>7. GoesOn(c, proc'[c])
  BY <1>1, <1>5, <1>6 DEF GoesOn, CallsOf
<1>8. proc[c].pc = "idle"
  BY DEF Called, At
<1>9. UNCHANGED <<structure, rows, minted, credit, left, template, r2, queue>>
  BY DEF Called, world
<1> QED
  BY <1>1, <1>4, <1>6, <1>7, <1>8, <1>9, QuietStep

LEMMA RestGoesOn ==
  ASSUME DispatchTypes, NEW c \in Caller, Rest(c)
  PROVE  Moved(c) /\ proc'[c] = Idle /\ GoesOn(c, proc'[c])
<1>1. c \in Actor
  BY DEF Actor
<1> QED
  BY <1>1, MovesTo DEF Rest, GoesOn

LEMMA CountKeeps ==
  ASSUME DispatchInv, NEW c \in Caller, Count(c) \/ Refused(c)
  PROVE  DispatchInv'
<1>1. c \in Actor /\ c \notin Consumer
  BY Actors DEF Actor
<1>2. DispatchTypes /\ proc[c].pc = "count"
  BY DEF DispatchInv, Count, Refused, At
<1>3. UNCHANGED <<structure, rows, minted, credit, left, template, r2, queue>>
  BY DEF Count, Refused, world
<1>4. CASE Rest(c)
  BY <1>1, <1>2, <1>3, <1>4, RestGoesOn, IdlePc, QuietStep
<1>5. CASE Goto(c, "lookup") /\ proc[c].route # "crawl"
  <2> DEFINE q == [proc[c] EXCEPT !.pc = "lookup"]
  <2>1. proc[c] \in CallsOf(c) /\ proc[c].job = None /\ proc[c].todo # <<>>
    BY <1>1, <1>2, <1>5, InCall DEF Handy
  <2>2. q \in CallsOf(c) /\ q.pc = "lookup"
    BY <1>1, <1>5, <2>1, CallAt
  <2>3. proc' = [proc EXCEPT ![c] = q]
    BY <1>5 DEF Goto
  <2> HIDE DEF q
  <2>4. Moved(c) /\ proc'[c] = q
    BY <1>1, <1>2, <2>3, MovesTo
  <2> QED
    BY <1>1, <1>2, <1>3, <2>2, <2>4, QuietStep DEF GoesOn
<1> QED
  BY <1>4, <1>5 DEF Count, Refused

LEMMA PickKeeps ==
  ASSUME DispatchInv, NEW w \in Consumer, Pick(w)
  PROVE  DispatchInv'
<1>1. /\ w \in Actor /\ w \notin Caller /\ DispatchTypes /\ proc[w].pc = "count"
      /\ proc[w].route = "crawl"
  BY Actors DEF Actor, DispatchInv, Pick, At
<1>2. PICK ps \in SUBSET Page : proc' = [proc EXCEPT ![w].pc = "next", ![w].pages = ps]
  BY DEF Pick, Links
<1> DEFINE q == [proc[w] EXCEPT !.pc = "next", !.pages = ps]
<1>3. proc' = [proc EXCEPT ![w] = q]
  BY <1>1, <1>2 DEF DispatchTypes
<1>4. proc[w] \in Crawls /\ proc[w] \in Calls /\ Handy(proc[w])
  BY <1>1, InCall DEF CallsOf
<1>5. /\ q \in Calls /\ q.pc = "next" /\ q.job = proc[w].job /\ q.msg = proc[w].msg
      /\ q.route = "crawl"
  BY <1>1, <1>4 DEF Calls, CallPc
<1> HIDE DEF q
<1>6. Handy(q)
  BY <1>1, <1>4, <1>5 DEF Handy, AtHand
<1>7. q \in Crawls
  BY <1>4, <1>5, <1>6 DEF Crawls
<1>8. Moved(w) /\ proc'[w] = q
  BY <1>1, <1>3, MovesTo
<1>9. GoesOn(w, proc'[w])
  BY <1>1, <1>5, <1>7, <1>8 DEF GoesOn, CallsOf
<1>10. UNCHANGED <<structure, rows, minted, credit, left, template, r2, queue>>
  BY DEF Pick, world
<1> QED
  BY <1>1, <1>5, <1>8, <1>9, <1>10, QuietStep

LEMMA StopStep ==
  ASSUME DispatchTypes, NEW a \in Actor, proc[a] \in CallsOf(a),
         proc' = [proc EXCEPT ![a] = Stop(@)]
  PROVE  Moved(a) /\ GoesOn(a, proc'[a]) /\ proc'[a].pc \in {"idle", "settle"}
<1> DEFINE q == Stop(proc[a])
<1>1. /\ q \in CallsOf(a) \/ (a \in Caller /\ q = Idle)
      /\ a \in Caller => q = Idle
      /\ a \in Consumer => q.pc = "settle" /\ q.msg = proc[a].msg
  BY StopGoesOn
<1>2. proc' = [proc EXCEPT ![a] = q]
  OBVIOUS
<1> HIDE DEF q
<1>3. Moved(a) /\ proc'[a] = q
  BY <1>2, MovesTo
<1> QED
  BY <1>1, <1>3, Actors, IdlePc DEF GoesOn

LEMMA NextPageKeeps ==
  ASSUME DispatchInv, NEW w \in Consumer, NextPage(w)
  PROVE  DispatchInv'
<1>1. w \in Actor /\ w \notin Caller /\ DispatchTypes /\ proc[w].pc = "next"
  BY Actors DEF Actor, DispatchInv, NextPage, At
<1>2. /\ proc[w] \in CallsOf(w) /\ proc[w] \in Crawls /\ proc[w] \in Calls
      /\ proc[w].job = None
  BY <1>1, InCall DEF CallsOf, Handy
<1>3. UNCHANGED <<structure, rows, minted, credit, left, template, r2, queue>>
  BY DEF NextPage, world
<1>4. CASE proc' = [proc EXCEPT ![w] = Stop(@)]
  <2>1. Moved(w) /\ GoesOn(w, proc'[w]) /\ proc'[w].pc \in {"idle", "settle"}
    BY <1>1, <1>2, <1>4, StopStep
  <2> QED
    BY <1>1, <1>3, <2>1, QuietStep
<1>5. ASSUME NEW p \in proc[w].pages, NEW h \in Hash(p),
             proc' = [proc EXCEPT ![w].pc = IF h = None THEN "pay" ELSE "lookup",
                                  ![w].page = p, ![w].hash = h, ![w].free = {},
                                  ![w].pages = @ \ {p}, ![w].todo = Both]
      PROVE  DispatchInv'
  <2> DEFINE q == [proc[w] EXCEPT !.pc = IF h = None THEN "pay" ELSE "lookup",
                                  !.page = p, !.hash = h, !.free = {},
                                  !.pages = @ \ {p}, !.todo = Both]
  <2>1. proc' = [proc EXCEPT ![w] = q]
    BY <1>1, <1>5 DEF DispatchTypes
  <2>2. p \in Page /\ h \in Hashes /\ Both \in Seq(Viewport) /\ Both # <<>>
    BY <1>1, <1>2 DEF Calls, Hash, HashOf, Hashes, DispatchTypes, Both, Viewport
  <2>3. /\ q \in Calls /\ q.pc \in {"pay", "lookup"} /\ q.job = None
        /\ q.msg = proc[w].msg /\ q.route = proc[w].route /\ q.todo # <<>>
    BY <1>2, <2>2 DEF Calls, CallPc
  <2> HIDE DEF q
  <2>4. q \in Crawls
    BY <1>2, <2>3 DEF Handy, AtHand, Crawls
  <2>5. Moved(w) /\ proc'[w] = q
    BY <1>1, <2>1, MovesTo
  <2>6. GoesOn(w, proc'[w])
    BY <1>1, <2>3, <2>4, <2>5 DEF GoesOn, CallsOf
  <2> QED
    BY <1>1, <1>3, <2>3, <2>5, <2>6, QuietStep
<1> QED
  BY <1>4, <1>5, Zenon DEF NextPage

LEMMA MissGoesOn ==
  ASSUME DispatchTypes, NEW a \in Actor, At(a, "lookup"), Miss(a)
  PROVE  /\ Moved(a) /\ GoesOn(a, proc'[a]) /\ proc'[a].pc \notin {"insert", "free"}
         /\ proc'[a].pc = "pay" => proc'[a].job = None
<1>1. proc[a] \in CallsOf(a) /\ proc[a].job = None /\ proc[a].todo # <<>>
  BY InCall DEF Handy, AtHand, At
<1>2. CASE proc[a].route = "crawl"
  <2> DEFINE q == Advance(proc[a], "lookup")
  <2>1. /\ q \in CallsOf(a) \/ (a \in Caller /\ q = Idle)
        /\ q.pc \in {"idle", "lookup", "pay", "next"}
        /\ q.pc = "pay" => q.job = None
        /\ a \in Consumer => q.msg = proc[a].msg
    BY <1>1, AdvanceGoesOn
  <2>2. proc' = [proc EXCEPT ![a] = q]
    BY <1>2 DEF Miss
  <2> HIDE DEF q
  <2>3. Moved(a) /\ proc'[a] = q
    BY <2>2, MovesTo
  <2> QED
    BY <2>1, <2>3 DEF GoesOn
<1>3. CASE proc[a].route # "crawl"
  <2> DEFINE q == [proc[a] EXCEPT !.pc = "pay"]
  <2>1. q \in CallsOf(a) /\ q.pc = "pay" /\ q.msg = proc[a].msg /\ q.job = None
    BY <1>1, CallAt
  <2>2. proc' = [proc EXCEPT ![a] = q]
    BY <1>3 DEF Miss
  <2> HIDE DEF q
  <2>3. Moved(a) /\ proc'[a] = q
    BY <2>2, MovesTo
  <2> QED
    BY <2>1, <2>3 DEF GoesOn
<1> QED
  BY <1>2, <1>3

-----------------------------------------------------------------------------
(***************************************************************************)
(* Steps of a call that change more                                        *)
(***************************************************************************)
LEMMA LookupKeeps ==
  ASSUME DispatchInv, NEW a \in Actor, Lookup(a)
  PROVE  DispatchInv'
<1>1. DispatchTypes /\ Artifacts /\ proc[a].pc = "lookup" /\ At(a, "lookup")
  BY DEF DispatchInv, Lookup, At
<1>2. UNCHANGED <<structure, rows, minted, credit, left, template, queue>>
  BY DEF Lookup, world
<1>3. CASE Miss(a) /\ UNCHANGED r2
  BY <1>1, <1>2, <1>3, MissGoesOn, QuietStep
<1>4. CASE /\ Known(a) # None /\ Goto(a, "free")
           /\ r2' = [r2 EXCEPT ![CopyKey(a)] = r2[Known(a)]]
  <2> DEFINE q == [proc[a] EXCEPT !.pc = "free"]
  <2>1. /\ proc[a] \in CallsOf(a) /\ proc[a] \in Calls /\ proc[a].job = None
        /\ proc[a].todo # <<>>
    BY <1>1, InCall DEF Handy, AtHand
  <2>2. q \in CallsOf(a) /\ q.pc = "free" /\ q.msg = proc[a].msg
    BY <2>1, CallAt
  <2>3. q.page = proc[a].page /\ q.todo = proc[a].todo
    BY <2>1 DEF Calls
  <2>4. proc' = [proc EXCEPT ![a] = q]
    BY <1>4 DEF Goto
  <2> HIDE DEF q
  <2>5. Moved(a) /\ proc'[a] = q
    BY <1>1, <2>4, MovesTo
  <2>6. GoesOn(a, proc'[a])
    BY <2>2, <2>5 DEF GoesOn
  <2>7. CopyKey(a) \in Key /\ ThisViewport(a) \in Viewport
    BY <1>1, ViewportAtHand DEF AtHand
  <2>8. Known(a) \in Key /\ r2[Known(a)] \in Structure
    <3>1. proc[a].hash # None /\ proc[a].hash \in Structure
      BY <1>4, <2>1 DEF Known, Calls, Hashes
    <3>2. Known(a) = template[proc[a].hash][ThisViewport(a)]
      BY <3>1 DEF Known
    <3>3. Known(a) \in Key
      BY <1>1, <1>4, <2>7, <3>1, <3>2 DEF DispatchTypes
    <3>4. r2[Known(a)] # None
      BY <1>1, <1>4, <2>7, <3>1, <3>2 DEF Artifacts
    <3> QED
      BY <1>1, <3>3, <3>4 DEF DispatchTypes
  <2>9. ArtifactsGrow /\ r2'[CopyKey(a)] # None /\ r2' \in [Key -> Structure \cup {None}]
    BY <1>1, <1>4, <2>7, <2>8, NoneAssumption DEF ArtifactsGrow, DispatchTypes
  <2>10. DispatchTypes'
    BY <1>1, <1>2, <2>5, <2>6, <2>9, GoesOnTyped DEF DispatchTypes
  <2>11. Artifacts'
    <3>1. RowsGrow /\ TemplatesSound /\ RowsSound
      BY <1>2 DEF RowsGrow, TemplatesSound, RowsSound, Is
    <3>2. /\ \A j \in Job : minted' < j => rows'[j] = None
          /\ minted' \in Nat /\ minted <= minted'
      BY <1>1, <1>2 DEF Artifacts, DispatchTypes
    <3>3. CopyKey(a)' = CopyKey(a)
      BY <2>3, <2>5 DEF CopyKey, ThisViewport
    <3>4. Sound(a)'
      <4>1. (At(a, "free") => r2[CopyKey(a)] # None)'
        BY <2>9, <3>3
      <4>2. a \in Consumer => ~Extracting(a)' /\ ~At(a, "complete")'
        BY <2>2, <2>5 DEF Extracting, At
      <4> QED
        BY <2>2, <2>5, <4>1, <4>2 DEF Sound
    <3> QED
      BY <1>1, <2>5, <2>9, <3>1, <3>2, <3>4, ArtifactsKept
  <2>12. ASSUME NEW j \in Job, JobFine(j)
         PROVE  JobFine(j)'
    <3>1. Untouched(j) /\ minted' \in Nat /\ minted <= minted'
      BY <1>1, <1>2 DEF Untouched, DispatchTypes
    <3>2. SameHands(a, j)
      BY <1>1, <2>2, <2>5, <2>6, GoesOnHands
    <3> QED
      BY <1>1, <2>5, <2>12, <3>1, <3>2, JobKept
  <2> QED
    BY <2>10, <2>11, <2>12 DEF DispatchInv
<1> QED
  BY <1>3, <1>4 DEF Lookup

LEMMA OutKeeps ==
  ASSUME DispatchInv, NEW a \in Actor, Out(a)
  PROVE  DispatchInv'
<1>1. DispatchTypes /\ proc[a].pc \in {"free", "pay"}
  BY DEF DispatchInv, Out
<1>2. proc[a] \in CallsOf(a) /\ Handy(proc[a])
  BY <1>1, InCall DEF AtHand
<1>3. /\ proc' = [proc EXCEPT ![a] = Stop(@)]
      /\ UNCHANGED <<structure, rows, minted, credit, left, template, r2, queue>>
  BY DEF Out, world
<1>4. Moved(a) /\ GoesOn(a, proc'[a]) /\ proc'[a].pc \in {"idle", "settle"}
  BY <1>1, <1>2, <1>3, StopStep
<1> QED
  BY <1>1, <1>3, <1>4, IdlePc, QuietStep

LEMMA RowTyped ==
  ASSUME DispatchTypes, NEW a \in Actor, proc[a].pc \in AtHand,
         NEW status \in {"queued", "processing", "completed", "failed"}, NEW key \in Key \cup {None}
  PROVE  /\ RowOf(a, status, key) \in Row
         /\ RowOf(a, status, key).status = status /\ RowOf(a, status, key).key = key
<1>1. proc[a].page \in Page
  BY InCall DEF Calls
<1>2. ThisViewport(a) \in Viewport
  BY ViewportAtHand
<1> QED
  BY <1>1, <1>2 DEF RowOf, Row

LEMMA FreeGoesOn ==
  ASSUME DispatchTypes, NEW a \in Actor, Free(a)
  PROVE  /\ Moved(a) /\ GoesOn(a, proc'[a]) /\ proc'[a].pc \notin {"insert", "free"}
         /\ proc'[a].pc = "pay" => proc'[a].job \in {Id(a), None}
<1>1. /\ proc[a].pc = "free" /\ proc[a] \in CallsOf(a) /\ proc[a] \in Calls
      /\ proc[a].todo # <<>> /\ Handy(proc[a])
  BY InCall DEF Free, At, AtHand, Handy
<1>2. CASE NextAfterFree(a)
  <2> DEFINE q == [proc[a] EXCEPT !.free = @ \cup {ThisViewport(a)}]
             r == Advance(q, "lookup")
  <2>1. ThisViewport(a) \in Viewport
    BY <1>1, ViewportAtHand DEF AtHand
  <2>2. /\ q \in Calls /\ q.pc = "free" /\ q.todo = proc[a].todo /\ q.job = proc[a].job
        /\ q.msg = proc[a].msg /\ q.route = proc[a].route
    BY <1>1, <2>1 DEF Calls
  <2>3. proc' = [proc EXCEPT ![a] = r]
    BY <1>2 DEF NextAfterFree
  <2> HIDE DEF q
  <2>4. Handy(q)
    BY <1>1, <2>2 DEF Handy
  <2>5. q \in CallsOf(a)
    BY <1>1, <2>2, <2>4 DEF CallsOf, Requests, Crawls
  <2>6. /\ r \in CallsOf(a) \/ (a \in Caller /\ r = Idle)
        /\ r.pc \in {"idle", "lookup", "pay", "next"}
        /\ r.pc = "pay" => r.job = None
        /\ a \in Consumer => r.msg = q.msg
    <3>1. q.todo # <<>>
      BY <1>1, <2>2
    <3> QED
      BY <2>5, <3>1, AdvanceGoesOn
  <2> HIDE DEF r
  <2>7. Moved(a) /\ proc'[a] = r
    BY <2>3, MovesTo
  <2> QED
    BY <2>2, <2>6, <2>7 DEF GoesOn
<1>3. CASE /\ MarkerFails /\ proc[a].route = "dispatch"
           /\ proc' = [proc EXCEPT ![a].pc = "pay", ![a].job = Id(a)]
  <2> DEFINE q == [proc[a] EXCEPT !.pc = "pay", !.job = Id(a)]
  <2>1. Id(a) \in Job
    BY DEF Free, Mint
  <2>2. proc' = [proc EXCEPT ![a] = q]
    BY <1>3 DEF DispatchTypes
  <2>3. /\ q \in Calls /\ q.pc = "pay" /\ q.todo = proc[a].todo /\ q.job = Id(a)
        /\ q.msg = proc[a].msg /\ q.route = "dispatch"
    BY <1>1, <1>3, <2>1 DEF Calls, CallPc
  <2> HIDE DEF q
  <2>4. Handy(q)
    BY <1>1, <1>3, <2>3 DEF Handy
  <2>5. q \in CallsOf(a)
    BY <1>1, <1>3, <2>3, <2>4 DEF CallsOf, Requests, Crawls
  <2>6. Moved(a) /\ proc'[a] = q
    BY <2>2, MovesTo
  <2> QED
    BY <2>3, <2>5, <2>6 DEF GoesOn
<1> QED
  BY <1>2, <1>3 DEF Free

LEMMA FreeKeeps ==
  ASSUME DispatchInv, NEW a \in Actor, Free(a)
  PROVE  DispatchInv'
<1> DEFINE j == minted + 1
<1>1. DispatchTypes /\ Artifacts /\ proc[a].pc = "free" /\ At(a, "free")
  BY DEF DispatchInv, Free, At
<1>2. /\ j \in Job /\ minted' = j /\ minted < j /\ minted \in Nat
      /\ rows' = [rows EXCEPT ![j] = RowOf(a, "completed", CopyKey(a))] /\ Id(a) = j
  <2>1. proc[a].job = None
    BY <1>1, InCall DEF AtHand, Handy
  <2> QED
    BY <1>1, <2>1 DEF Free, FreeRow, Mint, Id, DispatchTypes
<1> HIDE DEF j
<1>3. UNCHANGED <<structure, credit, left, template, r2, queue>>
  BY DEF Free, world
<1>4. /\ Moved(a) /\ GoesOn(a, proc'[a]) /\ proc'[a].pc \notin {"insert", "free"}
      /\ proc'[a].pc = "pay" => proc'[a].job \in 1..minted' \cup {None}
  BY <1>1, <1>2, FreeGoesOn DEF Job
<1>5. /\ CopyKey(a) \in Key /\ CopyKey(a) # None /\ r2[CopyKey(a)] # None
  BY <1>1, ViewportAtHand DEF AtHand, Artifacts
<1>6. /\ rows'[j] \in Row /\ rows'[j].status = "completed" /\ rows'[j].key = CopyKey(a)
      /\ rows[j] = None
      /\ \A i \in Job : i # j => rows'[i] = rows[i]
  <2>1. rows'[j] = RowOf(a, "completed", CopyKey(a)) /\ \A i \in Job : i # j => rows'[i] = rows[i]
    BY <1>1, <1>2 DEF DispatchTypes
  <2>2. rows[j] = None
    BY <1>1, <1>2 DEF Artifacts
  <2> QED
    BY <1>1, <1>5, <2>1, <2>2, RowTyped DEF AtHand
<1>7. DispatchTypes'
  <2>1. rows' \in [Job -> Row \cup {None}]
    BY <1>1, <1>2, <1>6 DEF DispatchTypes
  <2>2. minted' \in 0..MaxJobs
    BY <1>2 DEF Job
  <2> QED
    BY <1>1, <1>3, <1>4, <2>1, <2>2, GoesOnTyped DEF DispatchTypes
<1>8. Artifacts'
  <2>1. RowsGrow
    BY <1>6 DEF RowsGrow
  <2>2. ArtifactsGrow /\ TemplatesSound
    BY <1>3 DEF ArtifactsGrow, TemplatesSound
  <2>3. RowsSound
    BY <1>3, <1>5, <1>6 DEF RowsSound, Is
  <2>4. ASSUME NEW i \in Job, minted' < i
        PROVE  rows'[i] = None
    BY <1>1, <1>2, <1>6, <2>4 DEF Artifacts, Job
  <2>5. minted' \in Nat /\ minted <= minted'
    BY <1>2 DEF Job
  <2> QED
    BY <1>1, <1>4, <2>1, <2>2, <2>3, <2>4, <2>5, GoesOnSound, ArtifactsKept
<1>9. ASSUME ~MarkerFails, NEW i \in Job, JobFine(i)
      PROVE  JobFine(i)'
  <2>1. SameHands(a, i)
    BY <1>1, <1>4, GoesOnHands
  <2>2. CASE i # j
    <3>1. Untouched(i) /\ minted' \in Nat /\ minted <= minted'
      BY <1>2, <1>3, <1>6, <2>2 DEF Untouched, Job
    <3> QED
      BY <1>1, <1>4, <1>9, <2>1, <3>1, JobKept
  <2>3. CASE i = j
    <3>1. /\ \A b \in Actor : ~Has(b, i)
          /\ Loose(i)
      BY <1>2, <1>9, <2>3 DEF JobFine
    <3>2. \A b \in Actor : ~Has(b, i)'
      BY <1>4, <2>1, <2>3, <3>1, OthersHands DEF SameHands, Has
    <3>3. ~Sent(i) /\ credit[i] # "held"
      BY <1>6, <2>3, <3>1 DEF Loose, Is
    <3>4. ~Sent(i)' /\ credit'[i] # "held" /\ ~Is(i, "queued")' /\ ~Is(i, "processing")'
      BY <1>3, <1>6, <2>3, <3>3 DEF Sent, Is
    <3>5. Loose(i)'
      BY <3>4 DEF Loose, Sent
    <3>6. ~(minted' < i)
      BY <1>2, <2>3 DEF Job
    <3> QED
      BY <2>3, <3>2, <3>5, <3>6 DEF JobFine, Kept, Has
  <2> QED
    BY <2>2, <2>3
<1> QED
  BY <1>7, <1>8, <1>9 DEF DispatchInv

LEMMA ReserveKeeps ==
  ASSUME DispatchInv, NEW a \in Actor, Reserve(a)
  PROVE  DispatchInv'
<1>1. /\ DispatchTypes /\ Artifacts /\ proc[a].pc = "pay" /\ proc[a] \in CallsOf(a)
      /\ proc[a] \in Calls /\ Handy(proc[a])
  BY InCall DEF DispatchInv, Reserve, At, AtHand
<1>2. UNCHANGED <<structure, rows, template, r2, queue>>
  BY DEF Reserve, world
<1>3. CASE proc' = [proc EXCEPT ![a] = Stop(@)] /\ UNCHANGED <<minted, left, credit>>
  <2>1. Moved(a) /\ GoesOn(a, proc'[a]) /\ proc'[a].pc \in {"idle", "settle"}
    BY <1>1, <1>3, StopStep
  <2> QED
    BY <1>1, <1>2, <1>3, <2>1, QuietStep
<1>4. ASSUME left > 0, Mint(a), NEW j \in Job, j = Id(a),
             left' = left - 1, credit' = [credit EXCEPT ![j] = "held"],
             proc' = [proc EXCEPT ![a].pc = "insert", ![a].job = j]
      PROVE  DispatchInv'
  <2> DEFINE q == [proc[a] EXCEPT !.pc = "insert", !.job = j]
  <2>1. proc' = [proc EXCEPT ![a] = q]
    BY <1>1, <1>4 DEF DispatchTypes
  <2>2. /\ q \in Calls /\ q.pc = "insert" /\ q.job = j /\ q.todo = proc[a].todo
        /\ q.msg = proc[a].msg /\ q.route = proc[a].route
    BY <1>1, <1>4 DEF Calls, CallPc
  <2> HIDE DEF q
  <2>3. Handy(q)
    BY <1>1, <1>4, <2>2 DEF Handy, AtHand
  <2>4. q \in CallsOf(a)
    BY <1>1, <2>2, <2>3 DEF CallsOf, Requests, Crawls
  <2>5. Moved(a) /\ proc'[a] = q
    BY <1>1, <2>1, MovesTo
  <2>6. GoesOn(a, proc'[a])
    BY <2>2, <2>4, <2>5 DEF GoesOn
  <2>7. minted' \in 0..MaxJobs /\ minted <= minted' /\ j \in 1..minted' /\ j # None
    <3>1. CASE proc[a].job = None
      BY <1>1, <1>4, <3>1, NoneAssumption DEF Mint, Id, Job, DispatchTypes
    <3>2. CASE proc[a].job # None
      BY <1>1, <1>4, <3>2, NoneAssumption DEF Mint, Id, Job, DispatchTypes, Artifacts
    <3> QED
      BY <3>1, <3>2
  <2>8. DispatchTypes'
    <3>1. /\ credit' \in [Job -> {"none", "held", "charged", "returned"}]
          /\ left' \in Nat
      BY <1>1, <1>4 DEF DispatchTypes
    <3> QED
      BY <1>1, <1>2, <2>5, <2>6, <2>7, <3>1, GoesOnTyped DEF DispatchTypes
  <2>9. Artifacts'
    <3>1. RowsGrow /\ ArtifactsGrow /\ TemplatesSound /\ RowsSound
      BY <1>2 DEF RowsGrow, ArtifactsGrow, TemplatesSound, RowsSound, Is
    <3>2. /\ \A i \in Job : minted' < i => rows'[i] = None
          /\ minted' \in Nat /\ minted <= minted'
      BY <1>1, <1>2, <2>7 DEF Artifacts, DispatchTypes, Job
    <3>3. Sound(a)'
      BY <2>2, <2>5, <2>7 DEF Sound, At, Extracting
    <3> QED
      BY <1>1, <2>5, <3>1, <3>2, <3>3, ArtifactsKept
  <2>10. ASSUME ~MarkerFails, NEW i \in Job, JobFine(i)
         PROVE  JobFine(i)'
    <3>1. j = minted + 1 /\ minted < j /\ minted' = j /\ rows[j] = None
      BY <1>1, <1>4, <2>10 DEF Handy, Id, Mint, DispatchTypes, Artifacts
    <3>2. ~Writes(a, i) /\ (Extracts(a, i)' <=> Extracts(a, i)) /\ (Ends(a, i)' <=> Ends(a, i))
      BY <1>1, <2>2, <2>5 DEF Writes, Extracts, Ends, Extracting
    <3>3. CASE i # j
      <4>1. Untouched(i) /\ minted' \in Nat /\ minted <= minted'
        BY <1>1, <1>2, <1>4, <2>7, <3>3 DEF Untouched, DispatchTypes, Job
      <4>2. SameHands(a, i)
        BY <2>2, <2>5, <3>2, <3>3 DEF SameHands, Writes
      <4> QED
        BY <1>1, <2>5, <2>10, <4>1, <4>2, JobKept
    <3>4. CASE i = j
      <4>1. (\A b \in Actor : ~Has(b, i)) /\ Loose(i)
        BY <2>10, <3>1, <3>4 DEF JobFine
      <4>2. \A b \in Actor : b # a => ~Has(b, i)'
        BY <2>5, <4>1, OthersHands DEF SameHands, Has
      <4>3. Writes(a, i)' /\ ~Extracts(a, i)' /\ ~Ends(a, i)'
        BY <2>2, <2>5, <3>2, <3>4, <4>1 DEF Writes, Has
      <4>4. ~Sent(i)' /\ rows'[i] = None /\ credit'[i] = "held"
        BY <1>1, <1>2, <1>4, <3>1, <3>4, <4>1 DEF Loose, Is, Sent, DispatchTypes
      <4>5. Kept(i)'
        BY <4>2, <4>3, <4>4 DEF Kept, Has
      <4> QED
        BY <3>1, <3>4, <4>3, <4>5 DEF JobFine, Has, Job
    <3> QED
      BY <3>3, <3>4
  <2> QED
    BY <2>8, <2>9, <2>10 DEF DispatchInv
<1>5. Mint(a) => Id(a) \in Job
  BY DEF Mint
<1> QED
  BY <1>3, <1>4, <1>5 DEF Reserve

\* After the viewport, whatever became of it.
LEMMA InsertGoesOn ==
  ASSUME DispatchTypes, NEW a \in Actor, proc[a].pc = "insert",
         \/ proc' = [proc EXCEPT ![a] = Advance(@, "pay")]
         \/ proc' = [proc EXCEPT ![a] = Stop(@)]
         \/ proc' = [proc EXCEPT ![a] = IF @.route = "crawl" THEN Advance(@, "pay") ELSE Idle]
  PROVE  /\ Moved(a) /\ GoesOn(a, proc'[a]) /\ proc'[a].pc \notin {"insert", "free"}
         /\ proc'[a].pc = "pay" => proc'[a].job = None
         /\ \A j \in Job : (Extracts(a, j)' <=> Extracts(a, j)) /\ (Ends(a, j)' <=> Ends(a, j))
<1>1. proc[a] \in CallsOf(a) /\ proc[a].todo # <<>>
  BY InCall DEF AtHand, Handy
<1>2. /\ Moved(a) /\ GoesOn(a, proc'[a]) /\ proc'[a].pc \notin {"insert", "free"}
      /\ proc'[a].pc = "pay" => proc'[a].job = None
  <2>1. ASSUME proc' = [proc EXCEPT ![a] = Advance(proc[a], "pay")]
        PROVE  /\ Moved(a) /\ GoesOn(a, proc'[a]) /\ proc'[a].pc \notin {"insert", "free"}
               /\ proc'[a].pc = "pay" => proc'[a].job = None
    <3> DEFINE q == Advance(proc[a], "pay")
    <3>1. /\ q \in CallsOf(a) \/ (a \in Caller /\ q = Idle)
          /\ q.pc \in {"idle", "lookup", "pay", "next"}
          /\ q.pc = "pay" => q.job = None
          /\ a \in Consumer => q.msg = proc[a].msg
      BY <1>1, AdvanceGoesOn
    <3>2. proc' = [proc EXCEPT ![a] = q]
      BY <2>1
    <3> HIDE DEF q
    <3>3. Moved(a) /\ proc'[a] = q
      BY <3>2, MovesTo
    <3> QED
      BY <3>1, <3>3 DEF GoesOn
  <2>2. CASE proc' = [proc EXCEPT ![a] = Stop(@)]
    BY <1>1, <2>2, StopStep
  <2>3. CASE proc' = [proc EXCEPT ![a] = Idle] /\ proc[a].route # "crawl"
    <3>1. Moved(a) /\ proc'[a] = Idle
      BY <2>3, MovesTo
    <3>2. a \in Caller
      BY <1>1, <2>3 DEF CallsOf, Crawls
    <3> QED
      BY <3>1, <3>2, IdlePc DEF GoesOn
  <2> QED
    BY <2>1, <2>2, <2>3
<1>3. a \in Consumer => /\ proc'[a].msg = proc[a].msg
                        /\ proc'[a].pc \notin {"idle", "extract", "complete"}
  BY <1>2, Actors DEF GoesOn, CallsOf, Crawls, Calls, CallPc
<1> QED
  BY <1>2, <1>3 DEF Extracts, Ends, Extracting

\* The job leaves the hands of the call that wrote it.
LEMMA Written ==
  ASSUME DispatchTypes, NEW a \in Actor, Moved(a), proc[a].pc = "insert",
         proc'[a].pc # "insert",
         \A j \in Job : (Extracts(a, j)' <=> Extracts(a, j)) /\ (Ends(a, j)' <=> Ends(a, j)),
         NEW i \in Job, JobFine(i)
  PROVE  /\ i # proc[a].job => SameHands(a, i)
         /\ i = proc[a].job => /\ credit[i] = "held" /\ ~Sent(i) /\ rows[i] = None
                               /\ ~(minted < i) /\ \A b \in Actor : ~Has(b, i)'
<1>1. i # proc[a].job => SameHands(a, i)
  BY DEF SameHands, Writes
<1>2. ASSUME i = proc[a].job
      PROVE  /\ credit[i] = "held" /\ ~Sent(i) /\ rows[i] = None
             /\ ~(minted < i) /\ \A b \in Actor : ~Has(b, i)'
  <2>1. Writes(a, i)
    BY <1>2 DEF Writes
  <2>2. credit[i] = "held" /\ ~Sent(i) /\ rows[i] = None /\ ~(minted < i)
    BY <2>1 DEF JobFine, Kept, Has
  <2>3. ~Extracts(a, i) /\ ~Ends(a, i)
    BY <2>2 DEF JobFine, Kept, Is
  <2>4. ~Has(a, i)'
    BY <2>3 DEF Has, Writes
  <2>5. ASSUME NEW b \in Actor, b # a
        PROVE  ~Has(b, i)'
    BY <2>1, <2>5, OthersHands DEF JobFine, Kept, SameHands, Has
  <2> QED
    BY <2>2, <2>4, <2>5
<1> QED
  BY <1>1, <1>2

\* One row is written that had none, by the call that holds its credit.
LEMMA InsertArtifacts ==
  ASSUME DispatchTypes, Artifacts, NEW a \in Actor, Moved(a), GoesOn(a, proc'[a]),
         proc'[a].pc \notin {"insert", "free"}, proc'[a].pc = "pay" => proc'[a].job = None,
         NEW j \in Job, j = proc[a].job, proc[a].pc = "insert", rows[j] = None,
         NEW row, row = None \/ row.status # "completed", rows' = [rows EXCEPT ![j] = row],
         UNCHANGED <<template, r2, minted>>
  PROVE  Artifacts'
<1>1. RowsGrow
  BY DEF RowsGrow, DispatchTypes
<1>2. ArtifactsGrow /\ TemplatesSound
  BY DEF ArtifactsGrow, TemplatesSound
<1>3. RowsSound
  BY DEF RowsSound, Is, DispatchTypes
<1>4. j \in 1..minted
  BY NoneAssumption DEF Artifacts
<1>5. /\ \A i \in Job : minted' < i => rows'[i] = None
      /\ minted' \in Nat /\ minted <= minted'
  BY <1>4 DEF Artifacts, DispatchTypes, Job
<1> QED
  BY <1>1, <1>2, <1>3, <1>5, GoesOnSound, ArtifactsKept

LEMMA EnqueueKeeps ==
  ASSUME DispatchInv, NEW a \in Actor, Enqueue(a)
  PROVE  DispatchInv'
<1>1. /\ DispatchTypes /\ Artifacts /\ proc[a].pc = "insert" /\ proc[a] \in Calls
      /\ proc[a].job \in Job
  BY InCall DEF DispatchInv, Enqueue, At, AtHand, Handy
<1>2. UNCHANGED <<structure, minted, credit, left, template, r2>>
  BY DEF Enqueue, world
<1>3. /\ Moved(a) /\ GoesOn(a, proc'[a]) /\ proc'[a].pc \notin {"insert", "free"}
      /\ proc'[a].pc = "pay" => proc'[a].job = None
      /\ \A j \in Job : (Extracts(a, j)' <=> Extracts(a, j)) /\ (Ends(a, j)' <=> Ends(a, j))
  BY <1>1, InsertGoesOn DEF Enqueue
<1>4. ASSUME NEW j \in Job, j = proc[a].job, rows[j] = None,
             NEW row, row = RowOf(a, "queued", None), rows' = [rows EXCEPT ![j] = row],
             NEW m, m = [job |-> j, hash |-> proc[a].hash], queue' = queue \cup {m}
      PROVE  DispatchInv'
  <2>1. row \in Row /\ row.status = "queued" /\ row # None
    BY <1>1, <1>4, RowTyped, NoneAssumption DEF AtHand
  <2>2. DispatchTypes'
    <3>1. rows' \in [Job -> Row \cup {None}]
      BY <1>1, <1>4, <2>1 DEF DispatchTypes
    <3>2. queue' \subseteq [job : Job, hash : Hashes]
      BY <1>1, <1>4 DEF DispatchTypes, Calls
    <3> QED
      BY <1>1, <1>2, <1>3, <3>1, <3>2, GoesOnTyped DEF DispatchTypes
  <2>3. Artifacts'
    BY <1>1, <1>2, <1>3, <1>4, <2>1, InsertArtifacts
  <2>4. ASSUME ~MarkerFails, NEW i \in Job, JobFine(i)
        PROVE  JobFine(i)'
    <3>1. CASE i # j
      <4>1. Untouched(i) /\ minted' \in Nat /\ minted <= minted'
        BY <1>1, <1>2, <1>4, <3>1 DEF Untouched, DispatchTypes
      <4>2. SameHands(a, i)
        BY <1>1, <1>3, <1>4, <2>4, <3>1, Written
      <4> QED
        BY <1>1, <1>3, <2>4, <4>1, <4>2, JobKept
    <3>2. CASE i = j
      <4>1. /\ credit[i] = "held" /\ ~Sent(i) /\ ~(minted < i)
            /\ \A b \in Actor : ~Has(b, i)'
        BY <1>1, <1>3, <1>4, <2>4, <3>2, Written
      <4>2. Is(i, "queued")' /\ ~Is(i, "processing")' /\ credit'[i] = "held" /\ Sent(i)'
        BY <1>1, <1>2, <1>4, <2>1, <3>2, <4>1 DEF Is, Sent, DispatchTypes
      <4>3. \A k, l \in queue' : k.job = i /\ l.job = i => k = l
        BY <1>4, <4>1 DEF Sent
      <4> QED
        BY <1>2, <4>1, <4>2, <4>3 DEF JobFine, Kept, Loose, Has
    <3> QED
      BY <3>1, <3>2
  <2> QED
    BY <2>2, <2>3, <2>4 DEF DispatchInv
<1>5. CASE rows[proc[a].job] # None /\ UNCHANGED <<rows, queue>>
  <2>1. DispatchTypes'
    BY <1>1, <1>2, <1>3, <1>5, GoesOnTyped DEF DispatchTypes
  <2>2. Artifacts'
    <3>1. RowsGrow /\ ArtifactsGrow /\ TemplatesSound /\ RowsSound
      BY <1>2, <1>5 DEF RowsGrow, ArtifactsGrow, TemplatesSound, RowsSound, Is
    <3>2. /\ \A i \in Job : minted' < i => rows'[i] = None
          /\ minted' \in Nat /\ minted <= minted'
      BY <1>1, <1>2, <1>5 DEF Artifacts, DispatchTypes
    <3> QED
      BY <1>1, <1>3, <3>1, <3>2, GoesOnSound, ArtifactsKept
  <2>3. ASSUME ~MarkerFails, JobFine(proc[a].job)
        PROVE  FALSE
    BY <1>1, <1>5, <2>3 DEF JobFine, Kept, Writes
  <2> QED
    BY <1>1, <2>1, <2>2, <2>3 DEF DispatchInv
<1> QED
  BY <1>1, <1>4, <1>5 DEF Enqueue

LEMMA GivenBack ==
  ASSUME DispatchTypes, NEW j \in Job, GiveBack(j)
  PROVE  /\ credit' \in [Job -> {"none", "held", "charged", "returned"}] /\ left' \in Nat
         /\ credit'[j] # "held" /\ \A i \in Job : i # j => credit'[i] = credit[i]
<1>1. CASE credit[j] = "held"
  <2>1. credit' = [credit EXCEPT ![j] = "returned"] /\ left' = left + 1
    BY <1>1 DEF GiveBack
  <2> QED
    BY <2>1 DEF DispatchTypes
<1>2. CASE credit[j] # "held"
  <2>1. credit' = credit /\ left' = left
    BY <1>2 DEF GiveBack
  <2> QED
    BY <1>2, <2>1 DEF DispatchTypes
<1> QED
  BY <1>1, <1>2

LEMMA SendFailsKeeps ==
  ASSUME DispatchInv, NEW a \in Actor, SendFails(a)
  PROVE  DispatchInv'
<1>1. /\ DispatchTypes /\ Artifacts /\ proc[a].pc = "insert" /\ proc[a] \in Calls
      /\ proc[a].job \in Job
  BY InCall DEF DispatchInv, SendFails, At, AtHand, Handy
<1>2. UNCHANGED <<structure, minted, template, r2, queue>>
  BY DEF SendFails, world
<1>3. /\ Moved(a) /\ GoesOn(a, proc'[a]) /\ proc'[a].pc \notin {"insert", "free"}
      /\ proc'[a].pc = "pay" => proc'[a].job = None
      /\ \A j \in Job : (Extracts(a, j)' <=> Extracts(a, j)) /\ (Ends(a, j)' <=> Ends(a, j))
  BY <1>1, InsertGoesOn DEF SendFails
<1>4. ASSUME NEW j \in Job, j = proc[a].job, rows[j] = None,
             NEW row, row = RolledBack(a), rows' = [rows EXCEPT ![j] = row],
             GiveBack(j)
      PROVE  DispatchInv'
  <2>1. row \in Row \cup {None} /\ (row = None \/ row.status = "failed")
    BY <1>1, <1>4, RowTyped DEF AtHand, RolledBack
  <2>2. DispatchTypes'
    <3>1. rows' \in [Job -> Row \cup {None}]
      BY <1>1, <1>4, <2>1 DEF DispatchTypes
    <3>2. credit' \in [Job -> {"none", "held", "charged", "returned"}] /\ left' \in Nat
      BY <1>1, <1>4, GivenBack
    <3> QED
      BY <1>1, <1>2, <1>3, <3>1, <3>2, GoesOnTyped DEF DispatchTypes
  <2>3. Artifacts'
    BY <1>1, <1>2, <1>3, <1>4, <2>1, InsertArtifacts
  <2>4. ASSUME ~MarkerFails, NEW i \in Job, JobFine(i)
        PROVE  JobFine(i)'
    <3>1. CASE i # j
      <4>1. Untouched(i) /\ minted' \in Nat /\ minted <= minted'
        BY <1>1, <1>2, <1>4, <3>1, GivenBack DEF Untouched, DispatchTypes
      <4>2. SameHands(a, i)
        BY <1>1, <1>3, <1>4, <2>4, <3>1, Written
      <4> QED
        BY <1>1, <1>3, <2>4, <4>1, <4>2, JobKept
    <3>2. CASE i = j
      <4>1. /\ credit[i] = "held" /\ ~Sent(i) /\ ~(minted < i)
            /\ \A b \in Actor : ~Has(b, i)'
        BY <1>1, <1>3, <1>4, <2>4, <3>2, Written
      <4>2. /\ ~Is(i, "queued")' /\ ~Is(i, "processing")'
            /\ credit'[i] # "held" /\ ~Sent(i)'
        BY <1>1, <1>2, <1>4, <2>1, <3>2, <4>1, GivenBack DEF Is, Sent, DispatchTypes
      <4>3. Loose(i)'
        BY <4>2 DEF Loose, Sent
      <4> QED
        BY <1>2, <4>1, <4>3 DEF JobFine, Kept, Has
    <3> QED
      BY <3>1, <3>2
  <2> QED
    BY <2>2, <2>3, <2>4 DEF DispatchInv
<1> QED
  BY <1>1, <1>4 DEF SendFails

-----------------------------------------------------------------------------
(***************************************************************************)
(* The consumer                                                            *)
(***************************************************************************)
LEMMA ConsumerTyped ==
  ASSUME DispatchTypes, NEW w \in Consumer, Moved(w),
         proc'[w] \in Works \cup Crawls \cup {Idle}
  PROVE  /\ DOMAIN proc' = Actor
         /\ \A c \in Caller : proc'[c] \in Requests \cup {Idle}
         /\ \A x \in Consumer : proc'[x] \in Works \cup Crawls \cup {Idle}
<1>1. w \in Actor /\ w \notin Caller
  BY Actors DEF Actor
<1>2. \A b \in Actor : b = w \/ proc'[b] = proc[b]
  BY DEF Moved
<1> QED
  BY <1>1, <1>2 DEF DispatchTypes, Moved, Actor

\* The row of a job with another status, or another key.
LEMMA RowUpdated ==
  ASSUME DispatchTypes, NEW j \in Job, rows[j] # None, NEW row \in Row,
         row.page = rows[j].page, row.viewport = rows[j].viewport,
         rows' = [rows EXCEPT ![j] = row]
  PROVE  /\ rows' \in [Job -> Row \cup {None}] /\ RowsGrow /\ rows'[j] = row
         /\ rows'[j] # None /\ \A i \in Job : i # j => rows'[i] = rows[i]
  BY NoneAssumption DEF DispatchTypes, RowsGrow

LEMMA RowWith ==
  ASSUME NEW row \in Row, NEW status \in {"queued", "processing", "completed", "failed"}
  PROVE  LET r == [row EXCEPT !.status = status]
         IN r \in Row /\ r.status = status /\ r.page = row.page /\ r.viewport = row.viewport
  BY DEF Row

LEMMA ClaimKeeps ==
  ASSUME DispatchInv, NEW w \in Consumer, NEW m \in queue, Claim(w, m)
  PROVE  DispatchInv'
<1>1. /\ w \in Actor /\ w \notin Caller /\ DispatchTypes /\ Artifacts /\ proc[w].pc = "idle"
      /\ m.job \in Job /\ m.hash \in Hashes
  BY Actors DEF Actor, DispatchInv, DispatchTypes, Claim, At
<1>2. UNCHANGED <<structure, minted, credit, left, template, r2>> /\ queue' = queue \ {m}
  BY DEF Claim, world
<1>3. ASSUME NEW j \in Job, j = m.job, Is(j, "queued"),
             rows' = [rows EXCEPT ![j].status = "processing"],
             proc' = [proc EXCEPT ![w] = [pc |-> "extract", msg |-> j, hash |-> m.hash]]
      PROVE  DispatchInv'
  <2> DEFINE q == [pc |-> "extract", msg |-> j, hash |-> m.hash]
             row == [rows[j] EXCEPT !.status = "processing"]
  <2>1. q \in Works /\ q.pc = "extract" /\ q.msg = j
    BY <1>1 DEF Works
  <2>2. rows[j] \in Row
    BY <1>1, <1>3 DEF Is, DispatchTypes
  <2>3. /\ row \in Row /\ row.status = "processing" /\ row.page = rows[j].page
        /\ row.viewport = rows[j].viewport
    BY <2>2, RowWith
  <2>4. rows' = [rows EXCEPT ![j] = row]
    BY <1>1, <1>3 DEF DispatchTypes
  <2>5. proc' = [proc EXCEPT ![w] = q]
    BY <1>3
  <2> HIDE DEF q, row
  <2>6. /\ rows' \in [Job -> Row \cup {None}] /\ RowsGrow /\ rows'[j] = row
        /\ rows'[j] # None /\ \A i \in Job : i # j => rows'[i] = rows[i]
    BY <1>1, <1>3, <2>3, <2>4, RowUpdated DEF Is
  <2>7. Moved(w) /\ proc'[w] = q
    BY <1>1, <2>5, MovesTo
  <2>8. DispatchTypes'
    <3>1. queue' \subseteq [job : Job, hash : Hashes]
      BY <1>1, <1>2 DEF DispatchTypes
    <3> QED
      BY <1>1, <1>2, <2>1, <2>6, <2>7, <3>1, ConsumerTyped DEF DispatchTypes
  <2>9. Artifacts'
    <3>1. ArtifactsGrow /\ TemplatesSound
      BY <1>2 DEF ArtifactsGrow, TemplatesSound
    <3>2. RowsSound
      BY <1>2, <2>3, <2>6 DEF RowsSound, Is
    <3>3. /\ \A i \in Job : minted' < i => rows'[i] = None
          /\ minted' \in Nat /\ minted <= minted'
      BY <1>1, <1>2, <1>3, <2>6 DEF Artifacts, DispatchTypes, Is
    <3>4. Sound(w)'
      BY <2>1, <2>6, <2>7 DEF Sound, At, Extracting
    <3> QED
      BY <1>1, <2>6, <2>7, <3>1, <3>2, <3>3, <3>4, ArtifactsKept
  <2>10. ASSUME ~MarkerFails, NEW i \in Job, JobFine(i)
         PROVE  JobFine(i)'
    <3>1. /\ Writes(w, i)' = FALSE /\ Ends(w, i)' = FALSE /\ (Extracts(w, i)' <=> i = j)
          /\ ~Has(w, i)
      BY <1>1, <2>1, <2>7 DEF Writes, Ends, Extracts, Extracting, Has
    <3>2. CASE i # j
      <4>1. Untouched(i) /\ minted' \in Nat /\ minted <= minted'
        BY <1>1, <1>2, <1>3, <2>6, <3>2 DEF Untouched, DispatchTypes
      <4>2. SameHands(w, i)
        BY <3>1, <3>2 DEF SameHands, Has
      <4> QED
        BY <1>1, <2>7, <2>10, <4>1, <4>2, JobKept
    <3>3. CASE i = j
      <4>1. \A b \in Actor : ~Has(b, i)
        BY <1>3, <2>10, <3>3 DEF JobFine, Kept, Has, Is
      <4>2. Loose(i) /\ ~(minted < i)
        BY <1>3, <2>10, <3>3, <4>1 DEF JobFine, Is
      <4>3. \A b \in Actor : b # w => ~Has(b, i)'
        BY <1>1, <2>7, <4>1, OthersHands DEF SameHands, Has
      <4>4. ~Sent(i)' /\ credit'[i] = "held"
        BY <1>2, <1>3, <3>3, <4>2 DEF Sent, Loose, Is
      <4>5. Is(i, "processing")'
        BY <2>3, <2>6, <3>3 DEF Is
      <4>6. Kept(i)'
        BY <3>1, <4>3, <4>4, <4>5 DEF Kept, Has
      <4>7. ~(minted' < i) /\ Has(w, i)'
        BY <1>2, <3>1, <3>3, <4>2 DEF Has
      <4> QED
        BY <1>1, <4>6, <4>7 DEF JobFine
    <3> QED
      BY <3>2, <3>3
  <2> QED
    BY <2>8, <2>9, <2>10 DEF DispatchInv
<1>4. CASE ~Is(m.job, "queued") /\ UNCHANGED <<rows, proc>>
  <2>1. Moved(w)
    BY <1>1, <1>4 DEF Moved, DispatchTypes
  <2>2. DispatchTypes'
    BY <1>1, <1>2, <1>4 DEF DispatchTypes
  <2>3. Artifacts'
    <3>1. RowsGrow /\ ArtifactsGrow /\ TemplatesSound /\ RowsSound
      BY <1>2, <1>4 DEF RowsGrow, ArtifactsGrow, TemplatesSound, RowsSound, Is
    <3>2. /\ \A i \in Job : minted' < i => rows'[i] = None
          /\ minted' \in Nat /\ minted <= minted'
      BY <1>1, <1>2, <1>4 DEF Artifacts, DispatchTypes
    <3>3. Sound(w)'
      BY <1>1, <1>4 DEF Sound, At, Extracting
    <3> QED
      BY <1>1, <2>1, <3>1, <3>2, <3>3, ArtifactsKept
  <2>4. ASSUME ~MarkerFails, JobFine(m.job)
        PROVE  FALSE
    <3>1. Sent(m.job)
      BY DEF Sent
    <3>2. \A b \in Actor : ~Has(b, m.job)
      BY <2>4, <3>1 DEF JobFine, Kept
    <3> QED
      BY <1>4, <2>4, <3>1, <3>2 DEF JobFine, Loose
  <2> QED
    BY <1>1, <2>2, <2>3, <2>4 DEF DispatchInv
<1> QED
  BY <1>1, <1>3, <1>4 DEF Claim, Is

\* A consumer at work on its job.
LEMMA Extractor ==
  ASSUME DispatchInv, NEW w \in Consumer, proc[w].pc \in {"extract", "complete"}
  PROVE  /\ w \in Actor /\ w \notin Caller /\ DispatchTypes /\ Artifacts
         /\ proc[w] \in Works /\ proc[w].msg \in Job /\ rows[proc[w].msg] # None
         /\ rows[proc[w].msg] \in Row /\ proc[w].msg <= minted
         /\ OwnKey(w) \in Key /\ OwnKey(w) # None
<1>1. w \in Actor /\ w \notin Caller /\ DispatchTypes /\ Artifacts
  BY Actors DEF Actor, DispatchInv
<1>2. proc[w] \in Works /\ proc[w].msg \in Job
  BY <1>1, InWork DEF Works
<1>3. rows[proc[w].msg] # None
  BY <1>1 DEF Artifacts, Extracting
<1>4. proc[w].msg <= minted
  BY <1>1, <1>2, <1>3 DEF Artifacts, DispatchTypes, Job
<1>5. OwnKey(w) \in Key /\ OwnKey(w) # None /\ rows[proc[w].msg] \in Row
  BY <1>1, <1>3, OwnKeyTyped DEF JobOf
<1> QED
  BY <1>1, <1>2, <1>3, <1>4, <1>5

LEMMA ExtractKeeps ==
  ASSUME DispatchInv, NEW w \in Consumer, Extract(w)
  PROVE  DispatchInv'
<1> DEFINE q == [proc[w] EXCEPT !.pc = "complete"]
<1>1. proc[w].pc = "extract"
  BY DEF Extract, At
<1>2. /\ w \in Actor /\ w \notin Caller /\ DispatchTypes /\ Artifacts
      /\ proc[w] \in Works /\ proc[w].msg \in Job /\ rows[proc[w].msg] # None
      /\ rows[proc[w].msg] \in Row /\ OwnKey(w) \in Key
  BY <1>1, Extractor
<1>3. q \in Works /\ q.pc = "complete" /\ q.msg = proc[w].msg
  BY <1>2 DEF Works
<1>4. proc' = [proc EXCEPT ![w] = q]
  BY DEF Extract, Goto
<1> HIDE DEF q
<1>5. Moved(w) /\ proc'[w] = q
  BY <1>2, <1>4, MovesTo
<1>6. /\ UNCHANGED <<structure, rows, minted, credit, left, template, queue>>
      /\ r2' = [r2 EXCEPT ![OwnKey(w)] = structure[JobOf(w).page]]
  BY DEF Extract, world
<1>7. structure[JobOf(w).page] \in Structure
  BY <1>2 DEF JobOf, Row, DispatchTypes
<1>8. ArtifactsGrow /\ r2'[OwnKey(w)] # None /\ r2' \in [Key -> Structure \cup {None}]
  BY <1>2, <1>6, <1>7, NoneAssumption DEF ArtifactsGrow, DispatchTypes
<1>9. DispatchTypes'
  BY <1>2, <1>3, <1>5, <1>6, <1>8, ConsumerTyped DEF DispatchTypes
<1>10. Artifacts'
  <2>1. RowsGrow /\ TemplatesSound /\ RowsSound
    BY <1>6 DEF RowsGrow, TemplatesSound, RowsSound, Is
  <2>2. /\ \A i \in Job : minted' < i => rows'[i] = None
        /\ minted' \in Nat /\ minted <= minted'
    BY <1>2, <1>6 DEF Artifacts, DispatchTypes
  <2>3. OwnKey(w)' = OwnKey(w)
    BY <1>3, <1>5, <1>6 DEF OwnKey, JobOf
  <2>4. Sound(w)'
    <3>1. (At(w, "complete") => r2[OwnKey(w)] # None)'
      BY <1>8, <2>3
    <3>2. rows'[proc'[w].msg] # None /\ proc'[w].pc \notin {"free", "pay", "insert"}
      BY <1>2, <1>3, <1>5, <1>6
    <3> QED
      BY <3>1, <3>2 DEF Sound, At, Extracting
  <2> QED
    BY <1>2, <1>5, <1>8, <2>1, <2>2, <2>4, ArtifactsKept
<1>11. ASSUME NEW i \in Job, JobFine(i)
       PROVE  JobFine(i)'
  <2>1. Untouched(i) /\ minted' \in Nat /\ minted <= minted'
    BY <1>2, <1>6 DEF Untouched, DispatchTypes
  <2>2. SameHands(w, i)
    BY <1>1, <1>3, <1>5 DEF SameHands, Writes, Extracts, Ends, Extracting
  <2> QED
    BY <1>2, <1>5, <1>11, <2>1, <2>2, JobKept
<1> QED
  BY <1>9, <1>10, <1>11 DEF DispatchInv

\* The job leaves the hands of its consumer.
LEMMA Released ==
  ASSUME DispatchTypes, NEW w \in Consumer, Moved(w), w \in Actor,
         proc[w].pc \in {"extract", "settle"}, proc'[w] = Idle,
         NEW i \in Job, JobFine(i)
  PROVE  /\ i # proc[w].msg => SameHands(w, i)
         /\ i = proc[w].msg => /\ credit[i] = "held" /\ ~Sent(i) /\ rows[i] # None
                               /\ Is(i, IF proc[w].pc = "extract" THEN "processing" ELSE "completed")
                               /\ ~(minted < i) /\ \A b \in Actor : ~Has(b, i)'
<1>1. ~Has(w, i)' /\ ~Writes(w, i) /\ ~Writes(w, i)'
  BY IdlePc DEF Has, Writes, Extracts, Ends, Extracting
<1>2. i # proc[w].msg => SameHands(w, i)
  BY <1>1, IdlePc DEF SameHands, Has, Extracts, Ends
<1>3. ASSUME i = proc[w].msg
      PROVE  /\ credit[i] = "held" /\ ~Sent(i) /\ rows[i] # None
             /\ Is(i, IF proc[w].pc = "extract" THEN "processing" ELSE "completed")
             /\ ~(minted < i) /\ \A b \in Actor : ~Has(b, i)'
  <2>1. IF proc[w].pc = "extract" THEN Extracts(w, i) ELSE Ends(w, i)
    BY <1>3 DEF Extracts, Ends, Extracting
  <2>2. Has(w, i)
    BY <2>1 DEF Has
  <2>3. credit[i] = "held" /\ ~Sent(i) /\ ~(minted < i)
    BY <2>2 DEF JobFine, Kept
  <2>4. Is(i, IF proc[w].pc = "extract" THEN "processing" ELSE "completed")
    BY <2>1 DEF JobFine, Kept
  <2>5. ASSUME NEW b \in Actor, b # w
        PROVE  ~Has(b, i)'
    BY <2>2, <2>5, OthersHands DEF JobFine, Kept, SameHands, Has
  <2> QED
    BY <1>1, <2>3, <2>4, <2>5 DEF Is
<1> QED
  BY <1>2, <1>3

LEMMA ExtractFailsKeeps ==
  ASSUME DispatchInv, NEW w \in Consumer, ExtractFails(w)
  PROVE  DispatchInv'
<1>1. proc[w].pc = "extract"
  BY DEF ExtractFails, At
<1>2. PICK j \in Job : j = proc[w].msg
  BY <1>1, Extractor
<1>3. /\ w \in Actor /\ w \notin Caller /\ DispatchTypes /\ Artifacts
      /\ proc[w] \in Works /\ rows[j] # None /\ rows[j] \in Row /\ j <= minted
  BY <1>1, <1>2, Extractor
<1>4. Moved(w) /\ proc'[w] = Idle
  BY <1>3, MovesTo DEF ExtractFails, Rest
<1>5. UNCHANGED <<structure, minted, template, r2>>
  BY DEF ExtractFails, world
<1>6. ASSUME NEW status \in {"queued", "failed"}, rows' = [rows EXCEPT ![j].status = status],
             queue' \subseteq [job : Job, hash : Hashes],
             credit' \in [Job -> {"none", "held", "charged", "returned"}], left' \in Nat,
             \A i \in Job : i # j => credit'[i] = credit[i],
             \A m \in queue \cup queue' : m.job # j => m \in queue \cap queue',
             ~MarkerFails /\ JobFine(j) => Loose(j)'
      PROVE  DispatchInv'
  <2> DEFINE row == [rows[j] EXCEPT !.status = status]
  <2>1. /\ row \in Row /\ row.status = status /\ row.page = rows[j].page
        /\ row.viewport = rows[j].viewport
    BY <1>3 DEF Row
  <2>2. rows' = [rows EXCEPT ![j] = row]
    BY <1>3, <1>6 DEF DispatchTypes
  <2> HIDE DEF row
  <2>3. /\ rows' \in [Job -> Row \cup {None}] /\ RowsGrow /\ rows'[j] = row
        /\ rows'[j] # None /\ \A i \in Job : i # j => rows'[i] = rows[i]
    BY <1>3, <2>1, <2>2, RowUpdated
  <2>4. DispatchTypes'
    BY <1>3, <1>4, <1>5, <1>6, <2>3, ConsumerTyped DEF DispatchTypes
  <2>5. Artifacts'
    <3>1. ArtifactsGrow /\ TemplatesSound
      BY <1>5 DEF ArtifactsGrow, TemplatesSound
    <3>2. RowsSound
      BY <1>5, <2>1, <2>3 DEF RowsSound, Is
    <3>3. /\ \A i \in Job : minted' < i => rows'[i] = None
          /\ minted' \in Nat /\ minted <= minted'
      BY <1>3, <1>5, <2>3 DEF Artifacts, DispatchTypes, Job
    <3>4. Sound(w)'
      BY <1>4, IdlePc DEF Sound, At, Extracting
    <3> QED
      BY <1>3, <1>4, <2>3, <3>1, <3>2, <3>3, <3>4, ArtifactsKept
  <2>6. ASSUME ~MarkerFails, NEW i \in Job, JobFine(i)
        PROVE  JobFine(i)'
    <3>1. CASE i # j
      <4>1. Untouched(i) /\ minted' \in Nat /\ minted <= minted'
        BY <1>3, <1>5, <1>6, <2>3, <3>1 DEF Untouched, DispatchTypes
      <4>2. SameHands(w, i)
        BY <1>1, <1>2, <1>3, <1>4, <2>6, <3>1, Released
      <4> QED
        BY <1>3, <1>4, <2>6, <4>1, <4>2, JobKept
    <3>2. CASE i = j
      <4>1. ~(minted < i) /\ \A b \in Actor : ~Has(b, i)'
        BY <1>1, <1>2, <1>3, <1>4, <2>6, <3>2, Released
      <4>2. Loose(i)'
        BY <1>6, <2>6, <3>2
      <4> QED
        BY <1>5, <4>1, <4>2 DEF JobFine, Kept, Has
    <3> QED
      BY <3>1, <3>2
  <2> QED
    BY <2>4, <2>5, <2>6 DEF DispatchInv
<1>7. ASSUME ~MarkerFails, JobFine(j)
      PROVE  credit[j] = "held" /\ ~Sent(j)
  BY <1>1, <1>2, <1>3, <1>4, <1>7, Released
<1>8. \A status \in {"queued", "failed"} :
        rows' = [rows EXCEPT ![j].status = status] => rows'[j].status = status /\ rows'[j] # None
  <2> SUFFICES ASSUME NEW status \in {"queued", "failed"},
                      rows' = [rows EXCEPT ![j].status = status]
               PROVE  rows'[j].status = status /\ rows'[j] # None
    OBVIOUS
  <2>1. rows'[j] = [rows[j] EXCEPT !.status = status]
    BY <1>3 DEF DispatchTypes
  <2> QED
    BY <1>3, <2>1, NoneAssumption DEF Row
<1>9. CASE /\ rows' = [rows EXCEPT ![j].status = "queued"]
           /\ queue' = queue \cup {[job |-> j, hash |-> proc[w].hash]}
           /\ UNCHANGED <<credit, left>>
  <2> DEFINE m == [job |-> j, hash |-> proc[w].hash]
  <2>1. m \in [job : Job, hash : Hashes] /\ m.job = j
    BY <1>3 DEF Works
  <2> HIDE DEF m
  <2>2. queue' = queue \cup {m}
    BY <1>9 DEF m
  <2>3. queue' \subseteq [job : Job, hash : Hashes]
    BY <1>3, <2>1, <2>2 DEF DispatchTypes
  <2>4. ~MarkerFails /\ JobFine(j) => Loose(j)'
    <3> SUFFICES ASSUME ~MarkerFails, JobFine(j)
                 PROVE  Loose(j)'
      OBVIOUS
    <3>1. Sent(j)' /\ Is(j, "queued")' /\ ~Is(j, "processing")' /\ credit'[j] = "held"
      BY <1>7, <1>8, <1>9, <2>1, <2>2 DEF Sent, Is
    <3>2. \A k, l \in queue' : k.job = j /\ l.job = j => k = l
      BY <1>7, <2>2 DEF Sent
    <3> QED
      BY <3>1, <3>2 DEF Loose
  <2>5. \A n \in queue \cup queue' : n.job # j => n \in queue \cap queue'
    BY <2>1, <2>2
  <2> QED
    BY <1>3, <1>6, <1>9, <2>3, <2>4, <2>5 DEF DispatchTypes
<1>10. CASE /\ rows' = [rows EXCEPT ![j].status = "failed"]
            /\ GiveBack(j) /\ UNCHANGED queue
  <2>1. /\ credit' \in [Job -> {"none", "held", "charged", "returned"}] /\ left' \in Nat
        /\ credit'[j] # "held" /\ \A i \in Job : i # j => credit'[i] = credit[i]
    BY <1>3, <1>10, GivenBack
  <2>2. ~MarkerFails /\ JobFine(j) => Loose(j)'
    <3> SUFFICES ASSUME ~MarkerFails, JobFine(j)
                 PROVE  Loose(j)'
      OBVIOUS
    <3>1. ~Sent(j)' /\ ~Is(j, "queued")' /\ ~Is(j, "processing")'
      BY <1>7, <1>8, <1>10 DEF Sent, Is
    <3> QED
      BY <2>1, <3>1 DEF Loose, Sent
  <2>3. queue' \subseteq [job : Job, hash : Hashes]
    BY <1>3, <1>10 DEF DispatchTypes
  <2> QED
    BY <1>6, <1>10, <2>1, <2>2, <2>3
<1> QED
  BY <1>2, <1>9, <1>10 DEF ExtractFails

LEMMA CompleteKeeps ==
  ASSUME DispatchInv, NEW w \in Consumer, Complete(w)
  PROVE  DispatchInv'
<1>1. proc[w].pc = "complete"
  BY DEF Complete, At
<1>2. PICK j \in Job : j = proc[w].msg
  BY <1>1, Extractor
<1>3. PICK key \in Key : key = OwnKey(w) /\ key # None
  BY <1>1, Extractor
<1>4. /\ w \in Actor /\ w \notin Caller /\ DispatchTypes /\ Artifacts
      /\ proc[w] \in Works /\ rows[j] # None /\ rows[j] \in Row /\ j <= minted
  BY <1>1, <1>2, Extractor
<1>5. UNCHANGED <<structure, minted, credit, left, r2, queue>>
  BY DEF Complete, world
<1>6. r2[key] # None
  BY <1>1, <1>3 DEF DispatchInv, Artifacts, At
<1> DEFINE row == [rows[j] EXCEPT !.status = "completed", !.key = key]
<1>7. /\ row \in Row /\ row.status = "completed" /\ row.key = key
      /\ row.page = rows[j].page /\ row.viewport = rows[j].viewport
  BY <1>4 DEF Row
<1>8. rows' = [rows EXCEPT ![j] = row]
  BY <1>2, <1>3, <1>4 DEF Complete, DispatchTypes
<1> HIDE DEF row
<1>9. /\ rows' \in [Job -> Row \cup {None}] /\ RowsGrow /\ rows'[j] = row
      /\ rows'[j] # None /\ \A i \in Job : i # j => rows'[i] = rows[i]
  BY <1>4, <1>7, <1>8, RowUpdated
<1>10. template' \in [Structure -> [Viewport -> Key \cup {None}]] /\ TemplatesSound
  <2>1. CASE proc[w].hash = None
    BY <1>4, <2>1 DEF Complete, TemplatesSound, DispatchTypes
  <2>2. CASE proc[w].hash # None
    <3>1. PICK h \in Structure, v \in Viewport :
            template' = [template EXCEPT ![h][v] = key]
      BY <1>2, <1>3, <1>4, <2>2 DEF Complete, JobOf, Works, Hashes, Row
    <3>2. \A g \in Structure, u \in Viewport :
            template'[g][u] = IF g = h /\ u = v THEN key ELSE template[g][u]
      BY <1>4, <3>1 DEF DispatchTypes
    <3>3. TemplatesSound
      BY <1>5, <1>6, <3>2 DEF TemplatesSound
    <3>4. template' \in [Structure -> [Viewport -> Key \cup {None}]]
      BY <1>4, <3>1 DEF DispatchTypes
    <3> QED
      BY <3>3, <3>4
  <2> QED
    BY <2>1, <2>2
<1>11. /\ Moved(w) /\ proc'[w] \in Works \cup Crawls /\ proc'[w].msg = j
       /\ proc'[w].pc \in {"count", "settle"}
  <2>1. ASSUME proc' = [proc EXCEPT ![w] = [Call("crawl", Root, None, <<>>) EXCEPT !.msg = j]]
        PROVE  /\ Moved(w) /\ proc'[w] \in Works \cup Crawls /\ proc'[w].msg = j
               /\ proc'[w].pc \in {"count", "settle"}
    <3> DEFINE call == Call("crawl", Root, None, <<>>)
               q == [call EXCEPT !.msg = j]
    <3>0. call \in Calls /\ call.pc = "count" /\ call.job = None /\ call.route = "crawl"
      BY PageAssumption DEF Call, Calls, CallPc, Hashes
    <3>2. proc' = [proc EXCEPT ![w] = q]
      BY <2>1
    <3> HIDE DEF call
    <3>1. /\ q \in Calls /\ q.pc = "count" /\ q.job = None /\ q.msg = j /\ q.route = "crawl"
      BY <3>0 DEF Calls
    <3> HIDE DEF q
    <3>3. q \in Crawls
      BY <3>1 DEF Crawls, Handy, AtHand
    <3> QED
      BY <1>4, <3>1, <3>2, <3>3, MovesTo
  <2>2. ASSUME proc' = [proc EXCEPT ![w] = [proc[w] EXCEPT !.pc = "settle"]]
        PROVE  /\ Moved(w) /\ proc'[w] \in Works \cup Crawls /\ proc'[w].msg = j
               /\ proc'[w].pc \in {"count", "settle"}
    <3> DEFINE q == [proc[w] EXCEPT !.pc = "settle"]
    <3>1. q \in Works /\ q.pc = "settle" /\ q.msg = j
      BY <1>2, <1>4 DEF Works
    <3>2. proc' = [proc EXCEPT ![w] = q]
      BY <2>2
    <3> HIDE DEF q
    <3> QED
      BY <1>4, <3>1, <3>2, MovesTo
  <2> QED
    BY <1>2, <2>1, <2>2 DEF Complete
<1>12. DispatchTypes'
  BY <1>4, <1>5, <1>9, <1>10, <1>11, ConsumerTyped DEF DispatchTypes
<1>13. Artifacts'
  <2>1. ArtifactsGrow
    BY <1>5 DEF ArtifactsGrow
  <2>2. RowsSound
    BY <1>3, <1>5, <1>6, <1>7, <1>9 DEF RowsSound, Is
  <2>3. /\ \A i \in Job : minted' < i => rows'[i] = None
        /\ minted' \in Nat /\ minted <= minted'
    BY <1>4, <1>5, <1>9 DEF Artifacts, DispatchTypes, Job
  <2>4. Sound(w)'
    BY <1>11 DEF Sound, At, Extracting
  <2> QED
    BY <1>4, <1>9, <1>10, <1>11, <2>1, <2>2, <2>3, <2>4, ArtifactsKept
<1>14. ASSUME ~MarkerFails, NEW i \in Job, JobFine(i)
       PROVE  JobFine(i)'
  <2>1. /\ ~Writes(w, i) /\ ~Writes(w, i)' /\ ~Ends(w, i) /\ ~Extracts(w, i)'
        /\ (Extracts(w, i) <=> i = j) /\ (Ends(w, i)' <=> i = j)
    BY <1>1, <1>2, <1>11 DEF Writes, Ends, Extracts, Extracting
  <2>2. CASE i # j
    <3>1. Untouched(i) /\ minted' \in Nat /\ minted <= minted'
      BY <1>4, <1>5, <1>9, <2>2 DEF Untouched, DispatchTypes
    <3>2. SameHands(w, i)
      BY <2>1, <2>2 DEF SameHands
    <3> QED
      BY <1>4, <1>11, <1>14, <3>1, <3>2, JobKept
  <2>3. CASE i = j
    <3>1. /\ credit[i] = "held" /\ ~Sent(i) /\ ~(minted < i)
          /\ \A b \in Actor : b # w => ~Has(b, i)
      BY <1>4, <1>14, <2>1, <2>3 DEF JobFine, Kept, Has
    <3>2. \A b \in Actor : b # w => ~Has(b, i)'
      BY <1>4, <1>11, <3>1, OthersHands DEF SameHands, Has
    <3>3. Is(i, "completed")' /\ credit'[i] = "held" /\ ~Sent(i)' /\ ~(minted' < i)
      BY <1>5, <1>7, <1>9, <2>3, <3>1 DEF Is, Sent
    <3>4. Kept(i)' /\ Has(w, i)'
      BY <2>1, <2>3, <3>2, <3>3 DEF Kept, Has
    <3> QED
      BY <1>4, <3>3, <3>4 DEF JobFine
  <2> QED
    BY <2>2, <2>3
<1> QED
  BY <1>12, <1>13, <1>14 DEF DispatchInv

LEMMA SettleKeeps ==
  ASSUME DispatchInv, NEW w \in Consumer, Settle(w)
  PROVE  DispatchInv'
<1>1. /\ w \in Actor /\ w \notin Caller /\ DispatchTypes /\ Artifacts /\ proc[w].pc = "settle"
  BY Actors DEF Actor, DispatchInv, Settle, At
<1>2. PICK j \in Job : j = proc[w].msg
  BY <1>1, IdlePc DEF DispatchTypes, Works, Crawls
<1>3. UNCHANGED <<structure, rows, minted, left, template, r2, queue>>
  BY DEF Settle, world
<1>4. credit' = [credit EXCEPT ![j] = IF @ = "held" THEN "charged" ELSE @]
  BY <1>2 DEF Settle
<1>5. /\ credit' \in [Job -> {"none", "held", "charged", "returned"}]
      /\ credit'[j] # "held" /\ \A i \in Job : i # j => credit'[i] = credit[i]
  BY <1>1, <1>4 DEF DispatchTypes
<1>6. Moved(w) /\ proc'[w] = Idle
  BY <1>1, MovesTo DEF Settle, Rest
<1>7. DispatchTypes'
  BY <1>1, <1>3, <1>5, <1>6, ConsumerTyped DEF DispatchTypes
<1>8. Artifacts'
  <2>1. RowsGrow /\ ArtifactsGrow /\ TemplatesSound /\ RowsSound
    BY <1>3 DEF RowsGrow, ArtifactsGrow, TemplatesSound, RowsSound, Is
  <2>2. /\ \A i \in Job : minted' < i => rows'[i] = None
        /\ minted' \in Nat /\ minted <= minted'
    BY <1>1, <1>3 DEF Artifacts, DispatchTypes
  <2>3. Sound(w)'
    BY <1>6, IdlePc DEF Sound, At, Extracting
  <2> QED
    BY <1>1, <1>6, <2>1, <2>2, <2>3, ArtifactsKept
<1>9. ASSUME NEW i \in Job, JobFine(i)
      PROVE  JobFine(i)'
  <2>1. CASE i # j
    <3>1. Untouched(i) /\ minted' \in Nat /\ minted <= minted'
      BY <1>1, <1>3, <1>5, <2>1 DEF Untouched, DispatchTypes
    <3>2. SameHands(w, i)
      BY <1>1, <1>2, <1>6, <1>9, <2>1, Released
    <3> QED
      BY <1>1, <1>6, <1>9, <3>1, <3>2, JobKept
  <2>2. CASE i = j
    <3>1. /\ ~(minted < i) /\ ~Sent(i) /\ Is(i, "completed")
          /\ \A b \in Actor : ~Has(b, i)'
      BY <1>1, <1>2, <1>6, <1>9, <2>2, Released
    <3>2. ~Sent(i)' /\ ~Is(i, "queued")' /\ ~Is(i, "processing")'
      BY <1>3, <3>1 DEF Sent, Is
    <3>3. Loose(i)'
      BY <1>5, <2>2, <3>2 DEF Loose, Sent
    <3> QED
      BY <1>3, <3>1, <3>3 DEF JobFine, Kept, Has
  <2> QED
    BY <2>1, <2>2
<1> QED
  BY <1>7, <1>8, <1>9 DEF DispatchInv

-----------------------------------------------------------------------------
(***************************************************************************)
(* Every step of Dispatch                                                  *)
(***************************************************************************)
LEMMA RedesignKeeps ==
  ASSUME DispatchInv, NEW p \in Page, NEW s \in Structure, Redesign(p, s)
  PROVE  DispatchInv'
<1>1. /\ UNCHANGED <<rows, minted, credit, left, template, r2, queue, proc>>
      /\ structure' = [structure EXCEPT ![p] = s]
  BY DEF Redesign
<1>2. DispatchTypes'
  BY <1>1 DEF DispatchInv, DispatchTypes
<1>3. Artifacts'
  BY <1>1 DEF DispatchInv, Artifacts, At, Extracting, CopyKey, ThisViewport, OwnKey, JobOf,
              CompletedHasArtifact
<1>4. \A j \in Job : JobFine(j) => JobFine(j)'
  BY <1>1 DEF JobFine, Kept, Loose, Has, Writes, Extracts, Ends, Extracting, Is, Sent
<1> QED
  BY <1>2, <1>3, <1>4 DEF DispatchInv

LEMMA DispatchRests ==
  ASSUME DispatchInv, UNCHANGED vars
  PROVE  DispatchInv'
<1>1. UNCHANGED <<structure, rows, minted, credit, left, template, r2, queue, proc>>
  BY DEF vars
<1>2. DispatchTypes'
  BY <1>1 DEF DispatchInv, DispatchTypes
<1>3. Artifacts'
  BY <1>1 DEF DispatchInv, Artifacts, At, Extracting, CopyKey, ThisViewport, OwnKey, JobOf,
              CompletedHasArtifact
<1>4. \A j \in Job : JobFine(j) => JobFine(j)'
  BY <1>1 DEF JobFine, Kept, Loose, Has, Writes, Extracts, Ends, Extracting, Is, Sent
<1> QED
  BY <1>2, <1>3, <1>4 DEF DispatchInv

LEMMA DispatchStarts ==
  ASSUME Init
  PROVE  DispatchInv
<1>1. DispatchTypes
  BY BoundAssumption, IdlePc DEF Init, DispatchTypes, Actor
<1>2. \A a \in Actor : proc[a].pc = "idle"
  BY IdlePc DEF Init
<1>3. Artifacts
  <2>1. CompletedHasArtifact /\ \A j \in Job : rows[j] = None
    BY DEF Init, CompletedHasArtifact
  <2>2. \A h \in Structure, v \in Viewport : template[h][v] = None
    BY DEF Init
  <2> QED
    BY <1>2, <2>1, <2>2 DEF Artifacts, At, Extracting, Actor
<1>4. ASSUME NEW j \in Job
      PROVE  JobFine(j)
  <2>1. \A a \in Actor : ~Has(a, j)
    BY <1>2 DEF Has, Writes, Extracts, Ends, Extracting
  <2>2. rows[j] = None /\ credit[j] = "none" /\ ~Sent(j)
    BY DEF Init, Sent
  <2> QED
    BY <2>1, <2>2 DEF JobFine, Kept, Loose, Is, Has, Sent
<1> QED
  BY <1>1, <1>3, <1>4 DEF DispatchInv

LEMMA DispatchKeeps ==
  ASSUME DispatchInv, Next
  PROVE  DispatchInv'
<1>1. ASSUME NEW a \in Actor, Step(a)
      PROVE  DispatchInv'
  BY <1>1, LookupKeeps, OutKeeps, FreeKeeps, ReserveKeeps, EnqueueKeeps, SendFailsKeeps DEF Step
<1>2. ASSUME NEW c \in Caller,
             \/ \E p \in Page, list \in Lists : Request(c, p, list) \/ EmbedRequest(c, p, list)
             \/ Count(c) \/ Refused(c) \/ Step(c)
      PROVE  DispatchInv'
  <2>1. CASE \E p \in Page, list \in Lists : Request(c, p, list) \/ EmbedRequest(c, p, list)
    BY <2>1, CalledKeeps DEF Request, EmbedRequest
  <2>2. CASE Count(c) \/ Refused(c)
    BY <2>2, CountKeeps
  <2>3. CASE Step(c)
    BY <1>1, <2>3 DEF Actor
  <2> QED
    BY <1>2, <2>1, <2>2, <2>3
<1>3. ASSUME NEW w \in Consumer,
             \/ \E m \in queue : Claim(w, m)
             \/ Extract(w) \/ ExtractFails(w) \/ Complete(w) \/ Settle(w)
             \/ Pick(w) \/ NextPage(w) \/ Step(w)
      PROVE  DispatchInv'
  <2>1. CASE \E m \in queue : Claim(w, m)
    BY <2>1, ClaimKeeps
  <2>2. CASE Extract(w) \/ ExtractFails(w) \/ Complete(w) \/ Settle(w)
    BY <2>2, ExtractKeeps, ExtractFailsKeeps, CompleteKeeps, SettleKeeps
  <2>3. CASE Pick(w) \/ NextPage(w)
    BY <2>3, PickKeeps, NextPageKeeps
  <2>4. CASE Step(w)
    BY <1>1, <2>4 DEF Actor
  <2> QED
    BY <1>3, <2>1, <2>2, <2>3, <2>4
<1>4. ASSUME NEW p \in Page, NEW s \in Structure, Redesign(p, s)
      PROVE  DispatchInv'
  BY <1>4, RedesignKeeps
<1> QED
  BY <1>2, <1>3, <1>4 DEF Next

LEMMA DispatchMeansNoZombie ==
  ASSUME DispatchInv, ~MarkerFails
  PROVE  NoZombie
<1> SUFFICES ASSUME NEW j \in Job, ~Handled(j)
             PROVE  /\ Is(j, "queued") <=> \E m \in queue : m.job = j
                    /\ Is(j, "queued") <=> credit[j] = "held"
                    /\ j \in Active => Is(j, "queued")
  BY DEF NoZombie, Is
<1>1. ASSUME NEW a \in Actor, Has(a, j)
      PROVE  Handled(j)
  <2>1. CASE Writes(a, j)
    <3>1. proc[a] \in Calls /\ proc[a].pc = "insert" /\ proc[a].job = j
      BY <2>1, InCall DEF DispatchInv, Writes, AtHand
    <3>2. "job" \in DOMAIN proc[a]
      BY <3>1 DEF Calls
    <3> QED
      BY <3>1, <3>2 DEF Handled
  <2>2. CASE Extracts(a, j) \/ Ends(a, j)
    BY <2>2 DEF Extracts, Ends, Extracting, Handled
  <2> QED
    BY <1>1, <2>1, <2>2 DEF Has
<1>2. Loose(j)
  BY <1>1 DEF DispatchInv, JobFine
<1> QED
  BY <1>2 DEF Loose, Active, InFlight, Is, Sent

-----------------------------------------------------------------------------
(***************************************************************************)
(* The inductive invariant of Delivery                                     *)
(***************************************************************************)
Version == 0..MaxVersions
Says == Version \cup {Inactive}
Visit == [pc : {"free", "gate", "row", "note", "object", "store", "answer"},
          colo : Colo \cup {None}, says : Says \cup {None}]
Moment == 0..now \cup {None}

DeliveryTypes ==
    /\ now \in Nat /\ active \in BOOLEAN
    /\ latest \in Version /\ object \in Version
    /\ on \in 0..now /\ off \in Moment /\ last \in [Version -> Moment]
    /\ DOMAIN edge = Colo /\ req \in [Visitor -> Visit]

\* What is so now is noted as of now.
NotedNow ==
    /\ active => on = now
    /\ ~active => off = now
    /\ last[object] = now

\* An entry in KV tells what was so within its life.
KvRecent ==
    kv # None =>
        /\ kv.end \in Nat
        /\ kv.on => kv.end <= on + 1
        /\ ~kv.on => off \in Nat /\ kv.end <= off + 1

\* Answer says, given at some moment up to which it holds good until the end.
Recent(says, end) ==
    /\ says \in Says /\ end \in Nat
    /\ says = Inactive => off \in Nat /\ end <= off + 1
    /\ says # Inactive =>
         LET life == IF says = 0 THEN 1 ELSE CssLife
         IN /\ last[says] \in Nat /\ end <= last[says] + life
            /\ end <= on + life

EdgeRecent ==
    \A c \in Colo : edge[c] # None => Recent(edge[c].says, edge[c].end)

\* A request: what it was told holds now, or is told by an entry that lives.
Told(r) ==
    \/ req[r].pc = "free"
    \/ req[r].colo \in Colo /\
       \/ req[r].pc \in {"gate", "row"}
       \/ req[r].pc = "note" /\ req[r].says = None /\ on = now
       \/ req[r].pc = "note" /\ req[r].says = Inactive /\ off = now
       \/ req[r].pc = "object" /\ on = now
       \/ req[r].pc = "store" /\ req[r].says = Inactive /\ off = now
       \/ req[r].pc = "store" /\ req[r].says \in Version /\ on = now /\ last[req[r].says] = now
       \/ req[r].pc = "answer" /\ \E end \in Nat : now < end /\ Recent(req[r].says, end)

DeliveryInv ==
    /\ DeliveryTypes /\ NotedNow /\ KvRecent /\ EdgeRecent
    /\ \A r \in Visitor : Told(r)

-----------------------------------------------------------------------------
(***************************************************************************)
(* What goes on around the requests                                        *)
(***************************************************************************)
LEMMA Bounds ==
  /\ 0 \in Version /\ CssLife \in Nat /\ CssLife > 0 /\ MaxVersions \in Nat
  /\ Inactive \notin Version /\ None \notin Nat /\ None # Inactive
  BY AnswerAssumption DEF Version

\* Time does not go back, and neither does what is noted.
Later ==
    /\ now' \in {now, now + 1}
    /\ on' \in {on, now'} /\ off' \in {off, now'}
    /\ last' \in [Version -> Moment'] /\ \A v \in Version : last'[v] \in {last[v], now'}

LEMMA RecentLasts ==
  ASSUME DeliveryTypes, Later, NEW says, NEW end, Recent(says, end)
  PROVE  Recent(says, end)'
<1>1. now \in Nat /\ now' \in Nat /\ now <= now'
  BY DEF DeliveryTypes, Later
<1>2. on \in Nat /\ on' \in Nat /\ on <= on'
  BY <1>1 DEF DeliveryTypes, Later
<1>3. off \in Nat => off' \in Nat /\ off <= off'
  BY <1>1, Bounds DEF DeliveryTypes, Later, Moment
<1>4. \A v \in Version : last[v] \in Nat => last'[v] \in Nat /\ last[v] <= last'[v]
  <2> SUFFICES ASSUME NEW v \in Version, last[v] \in Nat
               PROVE  last'[v] \in Nat /\ last[v] <= last'[v]
    OBVIOUS
  <2>1. last[v] <= now
    BY <1>1, Bounds DEF DeliveryTypes, Moment
  <2> QED
    BY <1>1, <2>1 DEF Later
<1>5. says \in Says /\ end \in Nat
  BY DEF Recent
<1>6. says = Inactive => off' \in Nat /\ end <= off' + 1
  BY <1>3, <1>5 DEF Recent
<1>7. ASSUME says # Inactive, NEW life \in Nat, life = IF says = 0 THEN 1 ELSE CssLife
      PROVE  last'[says] \in Nat /\ end <= last'[says] + life /\ end <= on' + life
  <2>1. says \in Version /\ last[says] \in Nat /\ end <= last[says] + life /\ end <= on + life
    BY <1>5, <1>7 DEF Recent, Says
  <2>2. last'[says] \in Nat /\ last[says] <= last'[says]
    BY <1>4, <2>1
  <2>3. \A m, n \in Nat : m <= n /\ end <= m + life => end <= n + life
    BY <1>5, <1>7
  <2> QED
    BY <1>2, <2>1, <2>2, <2>3
<1> QED
  BY <1>5, <1>6, <1>7, Bounds DEF Recent

LEMMA KvLasts ==
  ASSUME DeliveryTypes, Later, KvRecent, kv' \in {kv, None}
  PROVE  KvRecent'
<1>1. now \in Nat /\ now' \in Nat /\ now <= now' /\ on \in Nat /\ on' \in Nat /\ on <= on'
  BY DEF DeliveryTypes, Later
<1>2. off \in Nat => off' \in Nat /\ off <= off'
  BY <1>1, Bounds DEF DeliveryTypes, Later, Moment
<1> QED
  BY <1>1, <1>2 DEF KvRecent

LEMMA EdgeLasts ==
  ASSUME DeliveryTypes, Later, EdgeRecent, edge' = edge
  PROVE  EdgeRecent'
  BY RecentLasts DEF EdgeRecent

\* Within a moment.
LEMMA ToldLasts ==
  ASSUME DeliveryTypes, Later, now' = now, NEW r \in Visitor, Told(r), req'[r] = req[r]
  PROVE  Told(r)'
<1>1. on = now => on' = now
  BY DEF Later
<1>2. off = now => off' = now
  BY DEF Later
<1>3. \A v \in Version : last[v] = now => last'[v] = now
  BY DEF Later
<1>4. ASSUME NEW end \in Nat, now < end, Recent(req[r].says, end)
      PROVE  Recent(req[r].says, end)'
  <2>1. PICK told : told = req[r].says
    OBVIOUS
  <2>2. Recent(told, end)'
    BY <1>4, <2>1, RecentLasts
  <2> QED
    BY <2>1, <2>2
<1>5. CASE req[r].pc = "answer" /\ \E end \in Nat : now < end /\ Recent(req[r].says, end)
  BY <1>4, <1>5 DEF Told
<1>6. CASE ~(req[r].pc = "answer" /\ \E end \in Nat : now < end /\ Recent(req[r].says, end))
  BY <1>1, <1>2, <1>3, <1>6 DEF Told
<1> QED
  BY <1>5, <1>6

LEMMA NotedLater ==
  ASSUME DeliveryTypes, NEW isActive \in BOOLEAN, NEW version \in Version,
         now' \in {now, now + 1}, D!Noted(now', isActive, version)
  PROVE  /\ Later /\ on' \in 0..now' /\ off' \in Moment' /\ last'[version] = now'
         /\ isActive => on' = now'
         /\ ~isActive => off' = now'
<1>1. /\ on' = IF isActive THEN now' ELSE on
      /\ off' = IF isActive THEN off ELSE now'
      /\ last' = [last EXCEPT ![version] = now']
  BY DEF D!Noted
<1>2. now \in Nat /\ now' \in Nat /\ now <= now'
  BY DEF DeliveryTypes
<1>3. Moment \subseteq Moment' /\ now' \in Moment'
  BY <1>2 DEF Moment
<1>4. last' \in [Version -> Moment']
  BY <1>1, <1>3 DEF DeliveryTypes
<1> QED
  BY <1>1, <1>2, <1>3, <1>4 DEF Later, DeliveryTypes

\* A change of the world at one moment; requests go on as they were.
LEMMA WorldKeeps ==
  ASSUME DeliveryInv, now' = now, active' \in BOOLEAN, latest' \in Version, object' \in Version,
         D!Noted(now, active', object'), kv' \in {kv, None}, edge' = edge, req' = req
  PROVE  DeliveryInv'
<1>1. DeliveryTypes /\ now' \in {now, now + 1} /\ D!Noted(now', active', object')
  BY DEF DeliveryInv
<1>2. /\ Later /\ on' \in 0..now' /\ off' \in Moment' /\ last'[object'] = now'
      /\ active' => on' = now'
      /\ ~active' => off' = now'
  <2>1. PICK isActive \in BOOLEAN, version \in Version : isActive = active' /\ version = object'
    OBVIOUS
  <2> QED
    BY <1>1, <2>1, NotedLater
<1>3. DeliveryTypes'
  BY <1>1, <1>2 DEF DeliveryTypes, Later
<1>4. NotedNow'
  BY <1>2 DEF NotedNow
<1>5. KvRecent' /\ EdgeRecent'
  BY <1>1, <1>2, KvLasts, EdgeLasts DEF DeliveryInv
<1>6. \A r \in Visitor : Told(r)'
  BY <1>1, <1>2, ToldLasts DEF DeliveryInv
<1> QED
  BY <1>3, <1>4, <1>5, <1>6 DEF DeliveryInv

LEMMA TickKeeps ==
  ASSUME DeliveryInv, D!Tick
  PROVE  DeliveryInv'
<1>1. /\ DeliveryTypes /\ now' = now + 1 /\ UNCHANGED <<active, object, latest, kv, edge, req>>
      /\ D!Noted(now', active, object) /\ active \in BOOLEAN /\ object \in Version
  BY DEF DeliveryInv, DeliveryTypes, D!Tick
<1>2. /\ Later /\ on' \in 0..now' /\ off' \in Moment' /\ last'[object] = now'
      /\ active => on' = now'
      /\ ~active => off' = now'
  <2>1. PICK isActive \in BOOLEAN, version \in Version : isActive = active /\ version = object
    BY <1>1
  <2> QED
    BY <1>1, <2>1, NotedLater
<1>3. DeliveryTypes'
  BY <1>1, <1>2 DEF DeliveryTypes, Later
<1>4. NotedNow'
  BY <1>1, <1>2 DEF NotedNow
<1>5. KvRecent' /\ EdgeRecent'
  BY <1>1, <1>2, KvLasts, EdgeLasts DEF DeliveryInv
<1>6. ASSUME NEW r \in Visitor
      PROVE  Told(r)'
  <2>1. req[r].pc = "free"
    BY DEF D!Tick, D!Free
  <2> QED
    BY <1>1, <2>1 DEF Told
<1> QED
  BY <1>3, <1>4, <1>5, <1>6 DEF DeliveryInv

LEMMA StoreKeeps ==
  ASSUME DeliveryInv, D!Store
  PROVE  DeliveryInv'
<1>1. /\ now' = now /\ D!Noted(now, active, object') /\ UNCHANGED <<active, kv, edge, req>>
      /\ latest < MaxVersions /\ latest' = latest + 1 /\ object' = latest + 1
  BY DEF D!Store
<1>2. active' \in BOOLEAN /\ latest' \in Version /\ object' \in Version
  BY <1>1, Bounds DEF DeliveryInv, DeliveryTypes, Version
<1>3. D!Noted(now, active', object')
  BY <1>1 DEF D!Noted
<1> QED
  BY <1>1, <1>2, <1>3, WorldKeeps

LEMMA SwitchKeeps ==
  ASSUME DeliveryInv, D!Switch
  PROVE  DeliveryInv'
<1>1. /\ now' = now /\ D!Noted(now, active', object) /\ UNCHANGED <<object, latest, edge, req>>
      /\ active' = ~active /\ kv' \in {kv, None}
  BY DEF D!Switch
<1>2. active' \in BOOLEAN /\ latest' \in Version /\ object' \in Version
  BY <1>1 DEF DeliveryInv, DeliveryTypes
<1>3. D!Noted(now, active', object')
  BY <1>1 DEF D!Noted
<1> QED
  BY <1>1, <1>2, <1>3, WorldKeeps

LEMMA DeleteKeeps ==
  ASSUME DeliveryInv, D!Delete
  PROVE  DeliveryInv'
<1>1. /\ now' = now /\ D!Noted(now, FALSE, object) /\ active' = FALSE
      /\ UNCHANGED <<object, latest, kv, edge, req>>
  BY DEF D!Delete
<1>2. active' \in BOOLEAN /\ latest' \in Version /\ object' \in Version
  BY <1>1 DEF DeliveryInv, DeliveryTypes
<1>3. D!Noted(now, active', object')
  BY <1>1 DEF D!Noted
<1> QED
  BY <1>1, <1>2, <1>3, WorldKeeps

LEMMA DeleteObjectsKeeps ==
  ASSUME DeliveryInv, D!DeleteObjects
  PROVE  DeliveryInv'
<1>1. /\ now' = now /\ D!Noted(now, active', object') /\ object' \in {0, object}
      /\ UNCHANGED <<active, latest, kv, edge, req>>
  BY DEF D!DeleteObjects
<1>2. active' \in BOOLEAN /\ latest' \in Version /\ object' \in Version
  BY <1>1, Bounds DEF DeliveryInv, DeliveryTypes
<1> QED
  BY <1>1, <1>2, WorldKeeps

LEMMA DeleteEntryKeeps ==
  ASSUME DeliveryInv, D!DeleteEntry
  PROVE  DeliveryInv'
<1>1. /\ kv' = None /\ UNCHANGED <<now, active, object, latest, edge, req, on, off, last>>
  BY DEF D!DeleteEntry, D!history
<1>2. DeliveryTypes' /\ NotedNow'
  BY <1>1 DEF DeliveryInv, DeliveryTypes, NotedNow, Moment
<1>3. KvRecent' /\ EdgeRecent'
  BY <1>1 DEF DeliveryInv, KvRecent, EdgeRecent, Recent
<1>4. \A r \in Visitor : Told(r)'
  BY <1>1 DEF DeliveryInv, Told, Recent
<1> QED
  BY <1>2, <1>3, <1>4 DEF DeliveryInv

-----------------------------------------------------------------------------
(***************************************************************************)
(* A request                                                               *)
(***************************************************************************)
VisitMoves(r, q) == req' = [req EXCEPT ![r] = q]

LEMMA VisitAt ==
  ASSUME NEW q \in Visit, NEW at \in {"row", "object", "store", "note", "answer"},
         NEW says \in Says \cup {None}
  PROVE  /\ [q EXCEPT !.pc = at] \in Visit /\ [q EXCEPT !.pc = at].pc = at
         /\ [q EXCEPT !.pc = at].says = q.says /\ [q EXCEPT !.pc = at].colo = q.colo
         /\ [q EXCEPT !.pc = at, !.says = says] \in Visit
         /\ [q EXCEPT !.pc = at, !.says = says].pc = at
         /\ [q EXCEPT !.pc = at, !.says = says].says = says
         /\ [q EXCEPT !.pc = at, !.says = says].colo = q.colo
  BY DEF Visit

LEMMA VisitKeeps ==
  ASSUME DeliveryInv, UNCHANGED <<now, active, object, latest, on, off, last>>,
         NEW r \in Visitor, NEW q \in Visit, VisitMoves(r, q),
         Told(r)', KvRecent', EdgeRecent', DOMAIN edge' = Colo
  PROVE  DeliveryInv'
<1>1. DeliveryTypes'
  BY DEF DeliveryInv, DeliveryTypes, Moment, VisitMoves
<1>2. NotedNow'
  BY DEF DeliveryInv, NotedNow
<1>3. Later
  BY DEF DeliveryInv, DeliveryTypes, Later, Moment
<1>4. ASSUME NEW v \in Visitor
      PROVE  Told(v)'
  <2>1. CASE v # r
    <3>1. req'[v] = req[v]
      BY <2>1 DEF DeliveryInv, DeliveryTypes, VisitMoves
    <3> QED
      BY <1>3, <3>1, ToldLasts DEF DeliveryInv
  <2> QED
    BY <2>1
<1> QED
  BY <1>1, <1>2, <1>4 DEF DeliveryInv

LEMMA EntriesStay ==
  ASSUME DeliveryInv, UNCHANGED <<now, on, off, last, kv, edge>>
  PROVE  KvRecent' /\ EdgeRecent' /\ DOMAIN edge' = Colo
  BY DEF DeliveryInv, DeliveryTypes, KvRecent, EdgeRecent, Recent

LEMMA VisitGoes ==
  ASSUME DeliveryTypes, NEW r \in Visitor, NEW q, D!Goes(r, q)
  PROVE  VisitMoves(r, q) /\ req'[r] = q
  BY DEF DeliveryTypes, D!Goes, VisitMoves

LEMMA MatchKeeps ==
  ASSUME DeliveryInv, NEW r \in Visitor, NEW c \in Colo, D!Match(r, c)
  PROVE  DeliveryInv'
<1>1. UNCHANGED <<now, active, object, latest, kv, edge, on, off, last>>
  BY DEF D!Match, D!history
<1> DEFINE alive == D!Alive(edge[c])
           q == [colo |-> c, pc |-> IF alive THEN "answer" ELSE "gate",
                 says |-> IF alive THEN edge[c].says ELSE None]
<1>2. alive => now < edge[c].end /\ Recent(edge[c].says, edge[c].end)
  BY DEF D!Alive, DeliveryInv, EdgeRecent
<1>3. q \in Visit
  BY <1>2 DEF Visit, Recent
<1>4. D!Goes(r, q)
  BY DEF D!Match
<1>5. /\ q.colo = c /\ q.pc = IF alive THEN "answer" ELSE "gate"
      /\ q.says = IF alive THEN edge[c].says ELSE None
  OBVIOUS
<1> HIDE DEF q, alive
<1>6. VisitMoves(r, q) /\ req'[r] = q
  BY <1>4, VisitGoes DEF DeliveryInv
<1>7. Told(r)'
  <2>1. CASE alive
    <3>1. PICK says, end : says = edge[c].says /\ end = edge[c].end
      OBVIOUS
    <3>2. end \in Nat /\ now' < end /\ Recent(says, end)'
      BY <1>1, <1>2, <2>1, <3>1 DEF Recent
    <3>3. req'[r].says = says /\ req'[r].pc = "answer" /\ req'[r].colo \in Colo
      BY <1>5, <1>6, <2>1, <3>1
    <3> QED
      BY <3>2, <3>3 DEF Told
  <2>2. CASE ~alive
    BY <1>5, <1>6, <2>2 DEF Told
  <2> QED
    BY <2>1, <2>2
<1> QED
  BY <1>1, <1>3, <1>6, <1>7, EntriesStay, VisitKeeps

LEMMA GateKeeps ==
  ASSUME DeliveryInv, NEW r \in Visitor, D!Gate(r)
  PROVE  DeliveryInv'
<1>1. /\ UNCHANGED <<now, active, object, latest, kv, edge, on, off, last>>
      /\ req[r].pc = "gate"
  BY DEF D!Gate, D!history
<1>2. req[r] \in Visit /\ req[r].colo \in Colo /\ now \in Nat /\ on \in 0..now /\ off \in Moment
  BY <1>1 DEF DeliveryInv, DeliveryTypes, Told
<1>3. CASE ~D!Alive(kv)
  <2> DEFINE q == [req[r] EXCEPT !.pc = "row"]
  <2>1. q \in Visit /\ q.pc = "row" /\ q.colo \in Colo
    BY <1>2 DEF Visit
  <2>2. D!Goes(r, q)
    BY <1>3 DEF D!Gate
  <2> HIDE DEF q
  <2>3. VisitMoves(r, q) /\ req'[r] = q
    BY <2>2, VisitGoes DEF DeliveryInv
  <2> QED
    BY <1>1, <2>1, <2>3, EntriesStay, VisitKeeps DEF Told
<1>4. CASE D!Alive(kv) /\ kv.on
  <2> DEFINE q == [req[r] EXCEPT !.pc = "object"]
  <2>1. q \in Visit /\ q.pc = "object" /\ q.colo \in Colo
    BY <1>2 DEF Visit
  <2>2. D!Goes(r, q)
    BY <1>4 DEF D!Gate
  <2> HIDE DEF q
  <2>3. VisitMoves(r, q) /\ req'[r] = q
    BY <2>2, VisitGoes DEF DeliveryInv
  <2>4. on = now
    BY <1>2, <1>4 DEF D!Alive, DeliveryInv, KvRecent
  <2> QED
    BY <1>1, <2>1, <2>3, <2>4, EntriesStay, VisitKeeps DEF Told
<1>5. CASE D!Alive(kv) /\ ~kv.on
  <2> DEFINE q == [req[r] EXCEPT !.pc = "store", !.says = Inactive]
  <2>1. q \in Visit /\ q.pc = "store" /\ q.says = Inactive /\ q.colo \in Colo
    BY <1>2 DEF Visit, Says
  <2>2. D!Goes(r, q)
    BY <1>5 DEF D!Gate
  <2> HIDE DEF q
  <2>3. VisitMoves(r, q) /\ req'[r] = q
    BY <2>2, VisitGoes DEF DeliveryInv
  <2>4. off = now
    BY <1>2, <1>5, Bounds DEF D!Alive, DeliveryInv, KvRecent, Moment
  <2> QED
    BY <1>1, <2>1, <2>3, <2>4, EntriesStay, VisitKeeps DEF Told
<1> QED
  BY <1>3, <1>4, <1>5

LEMMA RowKeeps ==
  ASSUME DeliveryInv, NEW r \in Visitor, D!Row(r)
  PROVE  DeliveryInv'
<1> DEFINE told == IF active THEN None ELSE Inactive
           q == [req[r] EXCEPT !.pc = "note", !.says = told]
<1>1. /\ UNCHANGED <<now, active, object, latest, kv, edge, on, off, last>>
      /\ req[r].pc = "row" /\ D!Goes(r, q)
  BY DEF D!Row, D!history
<1>2. req[r] \in Visit /\ req[r].colo \in Colo /\ active \in BOOLEAN
  BY <1>1 DEF DeliveryInv, DeliveryTypes, Told
<1>3. told \in Says \cup {None}
  BY DEF Says
<1>4. (told = None /\ on = now) \/ (told = Inactive /\ off = now)
  BY <1>2 DEF DeliveryInv, NotedNow
<1> HIDE DEF told
<1>5. q \in Visit /\ q.pc = "note" /\ q.says = told /\ q.colo \in Colo
  BY <1>2, <1>3 DEF Visit
<1> HIDE DEF q
<1>6. VisitMoves(r, q) /\ req'[r] = q
  BY <1>1, VisitGoes DEF DeliveryInv
<1>7. Told(r)'
  BY <1>1, <1>4, <1>5, <1>6 DEF Told
<1> QED
  BY <1>1, <1>5, <1>6, <1>7, EntriesStay, VisitKeeps

LEMMA NoteKeeps ==
  ASSUME DeliveryInv, NEW r \in Visitor, D!Note(r)
  PROVE  DeliveryInv'
<1>1. /\ UNCHANGED <<now, active, object, latest, edge, on, off, last>>
      /\ req[r].pc = "note" /\ kv' = [on |-> req[r].says = None, end |-> now + 1]
  BY DEF D!Note, D!history, D!KvLife
<1>2. /\ req[r] \in Visit /\ req[r].colo \in Colo /\ now \in Nat /\ on \in 0..now
      /\ \/ req[r].says = None /\ on = now
         \/ req[r].says = Inactive /\ off = now
  BY <1>1 DEF DeliveryInv, DeliveryTypes, Told
<1>3. KvRecent'
  <2>1. kv'.end = now + 1 /\ (kv'.on <=> req[r].says = None)
    BY <1>1
  <2> QED
    BY <1>1, <1>2, <2>1, Bounds DEF KvRecent
<1>4. EdgeRecent' /\ DOMAIN edge' = Colo
  BY <1>1 DEF DeliveryInv, DeliveryTypes, EdgeRecent, Recent
<1> DEFINE q == [req[r] EXCEPT !.pc = IF req[r].says = None THEN "object" ELSE "store"]
<1>5. /\ q \in Visit /\ q.pc = (IF req[r].says = None THEN "object" ELSE "store")
      /\ q.says = req[r].says /\ q.colo \in Colo
  BY <1>2 DEF Visit
<1>6. D!Goes(r, q)
  BY DEF D!Note
<1> HIDE DEF q
<1>7. VisitMoves(r, q) /\ req'[r] = q
  BY <1>6, VisitGoes DEF DeliveryInv
<1>8. Told(r)'
  BY <1>1, <1>2, <1>5, <1>7, Bounds DEF Told
<1> QED
  BY <1>1, <1>3, <1>4, <1>5, <1>7, <1>8, VisitKeeps

LEMMA ObjectKeeps ==
  ASSUME DeliveryInv, NEW r \in Visitor, D!Object(r)
  PROVE  DeliveryInv'
<1> DEFINE q == [req[r] EXCEPT !.pc = "store", !.says = object]
<1>1. /\ UNCHANGED <<now, active, object, latest, kv, edge, on, off, last>>
      /\ req[r].pc = "object" /\ D!Goes(r, q)
  BY DEF D!Object, D!history
<1>2. /\ req[r] \in Visit /\ req[r].colo \in Colo /\ object \in Version /\ on = now
      /\ last[object] = now
  BY <1>1 DEF DeliveryInv, DeliveryTypes, Told, NotedNow
<1>3. q \in Visit /\ q.pc = "store" /\ q.says = object /\ q.colo \in Colo
  BY <1>2 DEF Visit, Says
<1> HIDE DEF q
<1>4. VisitMoves(r, q) /\ req'[r] = q
  BY <1>1, VisitGoes DEF DeliveryInv
<1>5. Told(r)'
  BY <1>1, <1>2, <1>3, <1>4 DEF Told
<1> QED
  BY <1>1, <1>3, <1>4, <1>5, EntriesStay, VisitKeeps

LEMMA StoreAnswerKeeps ==
  ASSUME DeliveryInv, NEW r \in Visitor, D!StoreAnswer(r)
  PROVE  DeliveryInv'
<1> DEFINE q == [req[r] EXCEPT !.pc = "answer"]
<1>1. /\ UNCHANGED <<now, active, object, latest, kv, on, off, last>>
      /\ req[r].pc = "store" /\ D!Goes(r, q)
      /\ edge' = edge \/ edge' = [edge EXCEPT ![req[r].colo] = D!Entry(req[r].says)]
  BY DEF D!StoreAnswer, D!history
<1>2. /\ req[r] \in Visit /\ req[r].colo \in Colo /\ now \in Nat
      /\ \/ req[r].says = Inactive /\ off = now
         \/ req[r].says \in Version /\ on = now /\ last[req[r].says] = now
  BY <1>1 DEF DeliveryInv, DeliveryTypes, Told
<1>3. PICK says, colo, end :
        /\ says = req[r].says /\ colo = req[r].colo /\ end = now + D!Life(says)
  OBVIOUS
<1>4. D!Life(says) = IF says \in {0, Inactive} THEN 1 ELSE CssLife
  BY <1>2, <1>3, Bounds DEF D!Life, Version
<1>5. end \in Nat /\ now < end /\ Recent(says, end)
  BY <1>2, <1>3, <1>4, Bounds DEF Recent, Says
<1>6. Recent(says, end)'
  BY <1>1, <1>5 DEF Recent
<1>7. EdgeRecent' /\ DOMAIN edge' = Colo
  <2>1. CASE edge' = edge
    BY <1>1, <2>1 DEF DeliveryInv, DeliveryTypes, EdgeRecent, Recent
  <2>2. CASE edge' = [edge EXCEPT ![colo] = D!Entry(says)]
    <3>1. /\ D!Entry(says).says = says /\ D!Entry(says).end = end
      BY <1>3 DEF D!Entry
    <3>2. DOMAIN edge' = Colo /\ \A c \in Colo : edge'[c] = IF c = colo THEN D!Entry(says) ELSE edge[c]
      BY <2>2 DEF DeliveryInv, DeliveryTypes
    <3>3. \A c \in Colo : edge[c] # None => Recent(edge[c].says, edge[c].end)
      BY DEF DeliveryInv, EdgeRecent
    <3> QED
      BY <1>1, <1>6, <3>1, <3>2, <3>3 DEF EdgeRecent, Recent
  <2> QED
    BY <1>1, <1>3, <2>1, <2>2
<1>8. q \in Visit /\ q.pc = "answer" /\ q.says = says /\ q.colo \in Colo
  BY <1>2, <1>3 DEF Visit
<1> HIDE DEF q
<1>9. VisitMoves(r, q) /\ req'[r] = q
  BY <1>1, VisitGoes DEF DeliveryInv
<1>10. Told(r)'
  BY <1>1, <1>5, <1>6, <1>8, <1>9 DEF Told
<1>11. KvRecent'
  BY <1>1 DEF DeliveryInv, KvRecent
<1> QED
  BY <1>1, <1>7, <1>8, <1>9, <1>10, <1>11, VisitKeeps

LEMMA AnswerKeeps ==
  ASSUME DeliveryInv, NEW r \in Visitor, D!Answer(r)
  PROVE  DeliveryInv'
<1>1. /\ UNCHANGED <<now, active, object, latest, kv, edge, on, off, last>>
      /\ D!Goes(r, D!Free)
  BY DEF D!Answer, D!history
<1>2. D!Free \in Visit /\ D!Free.pc = "free"
  BY DEF D!Free, Visit
<1>3. VisitMoves(r, D!Free) /\ req'[r] = D!Free
  BY <1>1, VisitGoes DEF DeliveryInv
<1> QED
  BY <1>1, <1>2, <1>3, EntriesStay, VisitKeeps DEF Told

LEMMA DeliveryStarts ==
  ASSUME D!Init
  PROVE  DeliveryInv
<1>1. DeliveryTypes
  <2>1. D!Free \in Visit
    BY DEF D!Free, Visit
  <2>2. last \in [Version -> Moment]
    BY DEF D!Init, Version, Moment
  <2> QED
    BY <2>1, <2>2, Bounds DEF D!Init, DeliveryTypes, Moment
<1>2. NotedNow /\ KvRecent /\ EdgeRecent
  BY Bounds DEF D!Init, NotedNow, KvRecent, EdgeRecent, Version
<1>3. \A r \in Visitor : Told(r)
  BY DEF D!Init, D!Free, Told
<1> QED
  BY <1>1, <1>2, <1>3 DEF DeliveryInv

LEMMA DeliveryRests ==
  ASSUME DeliveryInv, UNCHANGED delivery
  PROVE  DeliveryInv'
<1>1. UNCHANGED <<now, active, object, latest, kv, edge, req, on, off, last>>
  BY DEF delivery
<1> QED
  BY <1>1 DEF DeliveryInv, DeliveryTypes, NotedNow, KvRecent, EdgeRecent, Told, Recent, Moment

LEMMA DeliveryKeeps ==
  ASSUME DeliveryInv, D!Next
  PROVE  DeliveryInv'
<1>1. CASE D!Tick \/ D!Store \/ D!Switch \/ D!Delete \/ D!DeleteEntry \/ D!DeleteObjects
  BY <1>1, TickKeeps, StoreKeeps, SwitchKeeps, DeleteKeeps, DeleteEntryKeeps, DeleteObjectsKeeps
<1>2. ASSUME NEW r \in Visitor,
             \/ \E c \in Colo : D!Match(r, c)
             \/ D!Gate(r) \/ D!Row(r) \/ D!Note(r) \/ D!Object(r) \/ D!StoreAnswer(r)
             \/ D!Answer(r)
      PROVE  DeliveryInv'
  BY <1>2, MatchKeeps, GateKeeps, RowKeeps, NoteKeeps, ObjectKeeps, StoreAnswerKeeps, AnswerKeeps
<1> QED
  BY <1>1, <1>2 DEF D!Next

LEMMA DeliveryMeansRecent ==
  ASSUME DeliveryInv
  PROVE  AnswersAreRecent
<1> SUFFICES ASSUME NEW r \in Visitor, req[r].pc = "answer"
             PROVE  CASE req[r].says = Inactive -> now < off + 1 + 1
                      [] req[r].says = 0 -> now < last[0] + 1 /\ now < on + 1 + 1
                      [] OTHER -> /\ now < last[req[r].says] + CssLife
                                  /\ now < on + 1 + CssLife
  BY DEF AnswersAreRecent, D!AnswersAreRecent, D!KvLife
<1>1. PICK end \in Nat : now < end /\ Recent(req[r].says, end)
  BY DEF DeliveryInv, Told
<1>2. now \in Nat /\ on \in Nat
  BY DEF DeliveryInv, DeliveryTypes
<1>3. CASE req[r].says = Inactive
  <2>1. off \in Nat /\ end <= off + 1
    BY <1>1, <1>3 DEF Recent
  <2>2. now < off + 1 + 1
    BY <1>1, <1>2, <2>1
  <2> QED
    BY <1>3, <2>2, Bounds
<1>4. CASE req[r].says = 0
  BY <1>1, <1>2, <1>4, Bounds DEF Recent
<1>5. CASE req[r].says \notin {0, Inactive}
  <2>1. /\ last[req[r].says] \in Nat /\ end <= last[req[r].says] + CssLife
        /\ end <= on + CssLife
    BY <1>1, <1>5 DEF Recent
  <2>2. now < last[req[r].says] + CssLife /\ now < on + 1 + CssLife
    BY <1>1, <1>2, <2>1, Bounds
  <2> QED
    BY <1>5, <2>2
<1> QED
  BY <1>3, <1>4, <1>5

-----------------------------------------------------------------------------
(***************************************************************************)
(* The plugin's orders (CriticalCss): while a version counts as paid for,   *)
(* nothing that orders is under way, and what polls keeps the list of jobs   *)
(* alive until its next turn                                               *)
(***************************************************************************)
Chains == [batch : {1, 2}, left : SUBSET {"mobile", "desktop"}, ttl : Nat \ {0}]
Events == [kind : {"first", "poll"}, attempt : Nat, due : {0, 1}]
Marks == [pc : {"mark"}, version : Nat]
Ordered == [pc : {"chain"}, batch : {1, 2}, version : Nat]
Polls == [pc : {"poll"}, batch : {1, 2}, attempt : Nat,
          left : SUBSET {"mobile", "desktop"}, todo : SUBSET {"mobile", "desktop"}]

OrderTypes ==
    /\ content \in Nat /\ fingerprint \in Nat \cup {None} /\ age \in 0..Heal \cup {None}
    /\ chain \in Chains \cup {None} /\ event \subseteq Events
    /\ renders \in [Render -> {P!Idle} \cup Marks]
    /\ cron \in [pc : {"idle", "dispatch"}] \cup Ordered \cup Polls
    /\ paid \in [version : Nat \cup {None}, age : 0..Heal \cup {None}]

\* Nobody knows a version that is yet to come, and what is marked has an age.
NoneAhead ==
    /\ fingerprint # None => fingerprint <= content /\ age # None
    /\ \A r \in Render : renders[r] \in Marks => renders[r].version <= content
    /\ cron.pc = "chain" => cron.version <= content
    /\ paid.version # None => paid.version <= content

Standing == paid.version = content /\ paid.age # Heal

\* The next poll finds the list of jobs.
Awaited == \E e \in event : event = {e} /\ chain # None /\ chain.ttl > e.due

Quiet ==
    /\ fingerprint = content /\ age = paid.age
    /\ \A r \in Render : renders[r] = P!Idle
    /\ \/ cron.pc = "idle" /\ (event = {} \/ Awaited)
       \/ cron.pc = "poll" /\ event = {}

OrderInv == OrderTypes /\ NoneAhead /\ (Standing => Quiet)

LEMMA OrdersStart == P!Init => OrderInv
<1> SUFFICES ASSUME P!Init PROVE OrderInv
  OBVIOUS
<1>1. OrderTypes /\ NoneAhead
  BY AnswerAssumption, OrderAssumption DEF P!Init, P!Idle, OrderTypes, NoneAhead, Marks
<1>2. paid.version # content
  BY AnswerAssumption DEF P!Init
<1> QED
  BY <1>1, <1>2 DEF OrderInv, Standing

LEMMA ScheduledIs ==
  ASSUME event \subseteq Events, NEW kind \in {"first", "poll"}, NEW n \in Nat, NEW due \in {0, 1}
  PROVE  /\ P!Scheduled(kind, n, due) \subseteq Events
         /\ event = {} =>
              P!Scheduled(kind, n, due) = {[kind |-> kind, attempt |-> n, due |-> due]}
<1>1. [kind |-> kind, attempt |-> n, due |-> due] \in Events
  BY DEF Events
<1> QED
  BY <1>1 DEF P!Scheduled

LEMMA RenderBegins ==
  ASSUME OrderInv, NEW r \in Render, NEW v \in P!Viewport, P!Begin(r, v)
  PROVE  OrderInv'
<1> DEFINE q == [pc |-> "mark", version |-> content]
<1>1. /\ P!MayDispatch(content) /\ renders' = [renders EXCEPT ![r] = q]
      /\ UNCHANGED <<content, fingerprint, age, chain, event, cron, paid>>
  BY DEF P!Begin, P!page, P!disk
<1>2. q \in Marks /\ q.version = content
  BY DEF OrderInv, OrderTypes, Marks
<1> HIDE DEF q
<1>3. OrderTypes'
  BY <1>1, <1>2 DEF OrderInv, OrderTypes
<1>4. NoneAhead'
  BY <1>1, <1>2 DEF OrderInv, OrderTypes, NoneAhead
<1>5. ASSUME Standing
      PROVE  FALSE
  <2>1. fingerprint = content /\ fingerprint # None /\ age = paid.age /\ age # Heal
    BY <1>5, AnswerAssumption DEF OrderInv, OrderTypes, Standing, Quiet
  <2>2. age # None /\ age < Heal
    BY <2>1, AnswerAssumption, OrderAssumption DEF OrderInv, OrderTypes, NoneAhead
  <2> QED
    BY <1>1, <2>1, <2>2 DEF P!MayDispatch, P!AlreadyDone
<1>6. Standing' => Standing
  BY <1>1 DEF Standing
<1> QED
  BY <1>3, <1>4, <1>5, <1>6 DEF OrderInv

LEMMA RenderMarks ==
  ASSUME OrderInv, NEW r \in Render, P!Mark(r)
  PROVE  OrderInv'
<1>1. /\ renders[r].pc = "mark" /\ age' = 0 /\ fingerprint' = renders[r].version
      /\ event' = P!Scheduled("first", 0, 0)
      /\ renders' = [renders EXCEPT ![r] = P!Idle]
      /\ UNCHANGED <<content, chain, cron, paid>>
  BY DEF P!Mark, P!page
<1>2. renders[r] \in Marks /\ renders[r] # P!Idle
  BY <1>1 DEF OrderInv, OrderTypes, P!Idle
<1>3. renders[r].version \in Nat /\ renders[r].version <= content
  BY <1>2 DEF OrderInv, NoneAhead, Marks
<1>4. event' \subseteq Events
  BY <1>1, ScheduledIs DEF OrderInv, OrderTypes
<1>5. OrderTypes'
  BY <1>1, <1>3, <1>4, OrderAssumption DEF OrderInv, OrderTypes
<1>6. P!Idle \notin Marks
  BY DEF P!Idle, Marks
<1>7. NoneAhead'
  BY <1>1, <1>3, <1>6, AnswerAssumption DEF OrderInv, OrderTypes, NoneAhead
<1>8. ~Standing
  BY <1>2 DEF OrderInv, Quiet
<1>9. Standing' => Standing
  BY <1>1 DEF Standing
<1> QED
  BY <1>5, <1>7, <1>8, <1>9 DEF OrderInv

LEMMA EditOrders ==
  ASSUME OrderInv, P!Edit
  PROVE  OrderInv'
<1>1. /\ content' = content + 1 /\ fingerprint' = None
      /\ UNCHANGED <<age, chain, event, renders, cron, paid>>
  BY DEF P!Edit
<1>2. OrderTypes'
  BY <1>1 DEF OrderInv, OrderTypes
<1>3. content \in Nat /\ content <= content'
  BY <1>1 DEF OrderInv, OrderTypes
<1>4. \A r \in Render : renders'[r] \in Marks => renders'[r].version <= content'
  BY <1>1, <1>3 DEF OrderInv, NoneAhead, Marks
<1>5. cron'.pc = "chain" => cron'.version <= content'
  <2>1. cron.pc = "chain" => cron \in Ordered
    BY DEF OrderInv, OrderTypes, Polls
  <2> QED
    BY <1>1, <1>3, <2>1 DEF OrderInv, NoneAhead, Ordered
<1>6. paid'.version # None => paid'.version <= content' /\ paid'.version # content'
  BY <1>1, <1>3 DEF OrderInv, OrderTypes, NoneAhead
<1>7. NoneAhead'
  BY <1>1, <1>4, <1>5, <1>6 DEF NoneAhead
<1>8. ~Standing'
  BY <1>1, <1>3, <1>6, AnswerAssumption DEF Standing
<1> QED
  BY <1>2, <1>7, <1>8 DEF OrderInv

\* Nothing is paid for any more: it takes a new order for anything to be so.
LEMMA Forgiven ==
  ASSUME OrderInv, paid' = [paid EXCEPT !.version = None],
         UNCHANGED <<content, fingerprint, age, chain, event, renders, cron>>
  PROVE  OrderInv'
<1>1. paid' \in [version : Nat \cup {None}, age : 0..Heal \cup {None}] /\ paid'.version = None
  BY DEF OrderInv, OrderTypes
<1>2. OrderTypes' /\ NoneAhead'
  BY <1>1 DEF OrderInv, OrderTypes, NoneAhead
<1>3. ~Standing'
  BY <1>1, AnswerAssumption DEF OrderInv, OrderTypes, Standing
<1> QED
  BY <1>2, <1>3 DEF OrderInv

LEMMA OrdersRest ==
  ASSUME OrderInv, UNCHANGED <<content, fingerprint, age, chain, event, renders, cron, paid>>
  PROVE  OrderInv'
  BY DEF OrderInv, OrderTypes, NoneAhead, Standing, Quiet, Awaited

\* Cron goes on without anything scheduled: its next step is none that orders.
LEMMA CronGoes ==
  ASSUME OrderInv, cron' \in [pc : {"idle", "dispatch"}] \cup Ordered \cup Polls,
         cron'.pc = "chain" => cron'.version <= content,
         Standing => Quiet',
         chain' \in Chains \cup {None}, event' \subseteq Events,
         UNCHANGED <<content, fingerprint, age, renders, paid>>
  PROVE  OrderInv'
  BY DEF OrderInv, OrderTypes, NoneAhead, Standing

LEMMA CronRuns ==
  ASSUME OrderInv, NEW e \in event, P!Run(e)
  PROVE  OrderInv'
<1> DEFINE q == [pc |-> "poll", batch |-> chain.batch, attempt |-> e.attempt,
                 left |-> chain.left, todo |-> chain.left]
<1>1. /\ cron.pc = "idle" /\ event' = event \ {e}
      /\ cron' = IF chain = None THEN IF P!Fresh THEN P!Idle ELSE [pc |-> "dispatch"] ELSE q
      /\ UNCHANGED <<content, fingerprint, age, chain, renders, paid>>
  BY DEF P!Run, P!CronAt, P!page, P!disk
<1>2. chain # None => q \in Polls /\ q.pc = "poll"
  BY DEF OrderInv, OrderTypes, Chains, Events, Polls
<1> HIDE DEF q
<1>3. /\ cron' \in [pc : {"idle", "dispatch"}] \cup Ordered \cup Polls
      /\ cron'.pc # "chain"
  BY <1>1, <1>2 DEF P!Idle
<1>4. ASSUME Standing
      PROVE  Quiet'
  <2>1. Quiet
    BY <1>4 DEF OrderInv
  <2>2. chain # None /\ event' = {}
    BY <1>1, <2>1 DEF Quiet, Awaited
  <2> QED
    BY <1>1, <1>2, <2>1, <2>2 DEF Quiet
<1>5. chain' \in Chains \cup {None} /\ event' \subseteq Events
  BY <1>1 DEF OrderInv, OrderTypes
<1> QED
  BY <1>1, <1>3, <1>4, <1>5, CronGoes

LEMMA OrderLeaves ==
  ASSUME OrderInv, NEW b \in P!Batch, P!Dispatch(b)
  PROVE  OrderInv'
<1> DEFINE q == [pc |-> "chain", batch |-> b, version |-> content]
<1>1. /\ cron.pc = "dispatch" /\ cron' \in {q, P!Idle}
      /\ UNCHANGED <<content, fingerprint, age, chain, event, renders, paid>>
  BY DEF P!Dispatch, P!CronAt, P!page, P!disk
<1>2. q \in Ordered /\ q.version = content /\ content <= content
  BY DEF OrderInv, OrderTypes, Ordered, P!Batch
<1> HIDE DEF q
<1>3. ~Standing
  BY <1>1 DEF OrderInv, Quiet
<1> QED
  BY <1>1, <1>2, <1>3, CronGoes DEF OrderInv, OrderTypes, P!Idle

LEMMA OrderRefused ==
  ASSUME OrderInv, P!Refused
  PROVE  OrderInv'
<1>1. /\ cron.pc = "dispatch" /\ cron' = P!Idle
      /\ UNCHANGED <<content, fingerprint, age, chain, event, renders, paid>>
  BY DEF P!Refused, P!CronAt, P!page, P!disk
<1>2. ~Standing
  BY <1>1 DEF OrderInv, Quiet
<1> QED
  BY <1>1, <1>2, CronGoes DEF OrderInv, OrderTypes, P!Idle

\* From here on a version may count as paid for: nothing else is under way.
LEMMA ChainBegins ==
  ASSUME OrderInv, P!SetChain
  PROVE  OrderInv'
<1> DEFINE c == [batch |-> cron.batch, left |-> P!Viewport, ttl |-> JobsTTL]
           e == [kind |-> "poll", attempt |-> 1, due |-> 1]
<1>1. /\ cron.pc = "chain" /\ chain' = c /\ event' = P!Scheduled("poll", 1, 1)
      /\ cron' = P!Idle
      /\ UNCHANGED <<content, fingerprint, age, renders>>
  BY DEF P!SetChain, P!CronAt, P!page
<1>2. cron \in Ordered /\ cron.version \in Nat /\ cron.version <= content
  BY <1>1 DEF OrderInv, OrderTypes, NoneAhead, Ordered, Polls
<1>3. c \in Chains /\ c.ttl = JobsTTL
  BY <1>2, OrderAssumption DEF Ordered, Chains, P!Viewport
<1>4. /\ event' \subseteq Events /\ (event = {} => event' = {e})
  BY <1>1, ScheduledIs DEF OrderInv, OrderTypes
<1>5. e.due = 1
  OBVIOUS
<1> HIDE DEF c, e
<1>6. /\ paid'.age = age /\ paid' \in [version : Nat \cup {None}, age : 0..Heal \cup {None}]
      /\ \/ paid'.version = None
         \/ /\ paid'.version = cron.version /\ fingerprint = cron.version /\ event = {}
            /\ \A r \in Render : renders[r].pc = "idle"
  BY <1>2 DEF P!SetChain, OrderInv, OrderTypes
<1>7. OrderTypes'
  BY <1>1, <1>3, <1>4, <1>6 DEF OrderInv, OrderTypes, P!Idle
<1>8. NoneAhead'
  BY <1>1, <1>2, <1>6 DEF OrderInv, NoneAhead, P!Idle
<1>9. ASSUME Standing'
      PROVE  Quiet'
  <2>1. paid'.version = content /\ content \in Nat
    BY <1>1, <1>9 DEF Standing, OrderInv, OrderTypes
  <2>2. /\ fingerprint = content /\ event = {}
        /\ \A r \in Render : renders[r].pc = "idle"
    BY <1>6, <2>1, AnswerAssumption
  <2>3. \A r \in Render : renders[r] = P!Idle
    BY <2>2 DEF OrderInv, OrderTypes, Marks
  <2>4. Awaited'
    <3>1. event' = {e} /\ chain' # None /\ chain'.ttl > e.due
      BY <1>1, <1>3, <1>4, <1>5, <2>2, OrderAssumption DEF Chains
    <3> QED
      BY <3>1 DEF Awaited
  <2> QED
    BY <1>1, <1>6, <2>2, <2>3, <2>4 DEF Quiet, P!Idle
<1> QED
  BY <1>7, <1>8, <1>9 DEF OrderInv

LEMMA CronPolls ==
  ASSUME OrderInv, NEW v \in P!Viewport, P!Poll(v)
  PROVE  OrderInv'
<1> DEFINE q == [cron EXCEPT !.todo = @ \ {v}, !.left = @ \ {v}]
           s == [cron EXCEPT !.todo = @ \ {v}]
<1>1. /\ cron.pc = "poll" /\ cron' \in {q, s}
      /\ UNCHANGED <<content, fingerprint, age, chain, event, renders, paid>>
  BY DEF P!Poll, P!CronAt, P!page
<1>2. cron \in Polls
  BY <1>1 DEF OrderInv, OrderTypes, Ordered
<1>3. q \in Polls /\ s \in Polls
  BY <1>2 DEF Polls
<1>4. cron' \in Polls /\ cron'.pc = "poll"
  BY <1>1, <1>3 DEF Polls
<1>5. Standing => Quiet'
  BY <1>1, <1>4 DEF OrderInv, Quiet
<1> QED
  BY <1>1, <1>4, <1>5, CronGoes DEF OrderInv, OrderTypes

LEMMA ChainEnds ==
  ASSUME OrderInv, P!EndChain
  PROVE  OrderInv'
<1>1. /\ cron.pc = "poll" /\ cron' = P!Idle /\ chain' = None
      /\ UNCHANGED <<content, fingerprint, age, event, renders, paid>>
  BY DEF P!EndChain, P!CronAt, P!page
<1>2. Standing => Quiet'
  BY <1>1 DEF OrderInv, Quiet, P!Idle
<1> QED
  BY <1>1, <1>2, CronGoes DEF OrderInv, OrderTypes, P!Idle

LEMMA CronPollsAgain ==
  ASSUME OrderInv, P!PollAgain
  PROVE  OrderInv'
<1> DEFINE c == [batch |-> cron.batch, left |-> cron.left, ttl |-> JobsTTL]
           e == [kind |-> "poll", attempt |-> cron.attempt + 1, due |-> 1]
<1>1. /\ cron.pc = "poll" /\ chain' = c /\ cron' = P!Idle
      /\ event' = P!Scheduled("poll", cron.attempt + 1, 1)
      /\ UNCHANGED <<content, fingerprint, age, renders, paid>>
  BY DEF P!PollAgain, P!CronAt, P!page
<1>2. cron \in Polls
  BY <1>1 DEF OrderInv, OrderTypes, Ordered
<1>3. c \in Chains /\ c.ttl = JobsTTL /\ cron.attempt + 1 \in Nat
  BY <1>2, OrderAssumption DEF Polls, Chains
<1>4. event' \subseteq Events /\ (event = {} => event' = {e})
  BY <1>1, <1>3, ScheduledIs DEF OrderInv, OrderTypes
<1>5. e.due = 1
  OBVIOUS
<1> HIDE DEF c, e
<1>6. ASSUME Standing
      PROVE  Quiet'
  <2>1. event' = {e} /\ Quiet
    BY <1>1, <1>4, <1>6 DEF OrderInv, Quiet
  <2>2. chain' # None /\ chain'.ttl > e.due
    BY <1>1, <1>3, <1>5, OrderAssumption DEF Chains
  <2>3. Awaited'
    BY <2>1, <2>2 DEF Awaited
  <2> QED
    BY <1>1, <2>1, <2>3 DEF Quiet, P!Idle
<1> QED
  BY <1>1, <1>3, <1>4, <1>6, CronGoes DEF P!Idle

LEMMA CronEnds ==
  ASSUME OrderInv, P!CronDies
  PROVE  OrderInv'
<1>1. /\ cron.pc # "idle" /\ cron' = P!Idle
      /\ UNCHANGED <<content, fingerprint, age, chain, event, renders, paid>>
  BY DEF P!CronDies, P!CronAt, P!page, P!disk
<1>2. Standing => Quiet'
  BY <1>1 DEF OrderInv, Quiet, P!Idle
<1> QED
  BY <1>1, <1>2, CronGoes DEF OrderInv, OrderTypes, P!Idle

LEMMA OrdersAge ==
  ASSUME OrderInv, P!Tick
  PROVE  OrderInv'
<1>1. /\ cron.pc = "idle" /\ \A e \in event : e.due > 0
      /\ age' = P!Older(age, Heal)
      /\ chain' = IF chain = None \/ chain.ttl = 1 THEN None ELSE [chain EXCEPT !.ttl = @ - 1]
      /\ event' = {[e EXCEPT !.due = P!Less(@)] : e \in event}
      /\ paid' = [paid EXCEPT !.age = P!Older(@, Heal)]
      /\ UNCHANGED <<content, fingerprint, renders, cron>>
  BY DEF P!Tick, P!CronAt, P!page
<1>2. \A a \in 0..Heal \cup {None} :
         /\ P!Older(a, Heal) \in 0..Heal \cup {None}
         /\ P!Older(a, Heal) = None => a = None
         /\ P!Older(a, Heal) # Heal => a # Heal
  BY AnswerAssumption, OrderAssumption DEF P!Older
<1>3. /\ paid' \in [version : Nat \cup {None}, age : 0..Heal \cup {None}]
      /\ paid'.version = paid.version /\ paid'.age = P!Older(paid.age, Heal)
  BY <1>1, <1>2 DEF OrderInv, OrderTypes
<1>4. \A e \in event : e \in Events /\ e.due = 1
  BY <1>1 DEF OrderInv, OrderTypes, Events
<1>5. \A e \in event : [e EXCEPT !.due = P!Less(@)] \in Events
                       /\ [e EXCEPT !.due = P!Less(@)].due = 0
  BY <1>4 DEF Events, P!Less
<1>6. event' \subseteq Events
  BY <1>1, <1>5
<1>7. chain # None /\ chain.ttl # 1 =>
         chain' \in Chains /\ chain'.ttl = chain.ttl - 1
  BY <1>1 DEF OrderInv, OrderTypes, Chains
<1>8. chain' \in Chains \cup {None}
  BY <1>1, <1>7 DEF OrderInv, OrderTypes, Chains
<1>9. OrderTypes'
  BY <1>1, <1>2, <1>3, <1>6, <1>8 DEF OrderInv, OrderTypes
<1>10. NoneAhead'
  BY <1>1, <1>2, <1>3 DEF OrderInv, OrderTypes, NoneAhead
<1>11. ASSUME Standing'
       PROVE  Quiet'
  <2>1. Standing /\ Quiet
    BY <1>1, <1>2, <1>3, <1>11 DEF OrderInv, OrderTypes, Standing
  <2>2. age' = paid'.age
    BY <1>1, <1>3, <2>1 DEF Quiet
  <2>3. event' = {} \/ Awaited'
    <3>1. CASE event = {}
      BY <1>1, <3>1
    <3>2. CASE Awaited
      <4>1. PICK e \in event : event = {e} /\ chain # None /\ chain.ttl > e.due
        BY <3>2 DEF Awaited
      <4>2. event' = {[e EXCEPT !.due = P!Less(@)]}
        BY <1>1, <4>1
      <4>3. chain.ttl > 1 /\ chain \in Chains
        BY <1>4, <4>1 DEF OrderInv, OrderTypes
      <4>4. chain' \in Chains /\ chain'.ttl > 0
        BY <1>7, <4>1, <4>3 DEF Chains
      <4>5. chain' # None
        BY <4>4, OrderAssumption DEF Chains
      <4>6. [e EXCEPT !.due = P!Less(@)].due = 0
        BY <1>5, <4>1
      <4> QED
        BY <4>2, <4>4, <4>5, <4>6 DEF Awaited
    <3> QED
      BY <1>1, <2>1, <3>1, <3>2 DEF Quiet
  <2> QED
    BY <1>1, <2>1, <2>2, <2>3 DEF Quiet
<1> QED
  BY <1>9, <1>10, <1>11 DEF OrderInv

LEMMA OrdersStep ==
  ASSUME OrderInv, P!Next
  PROVE  OrderInv'
<1>1. ASSUME NEW r \in Render, (\E v \in P!Viewport : P!Begin(r, v)) \/ P!Mark(r)
      PROVE  OrderInv'
  BY <1>1, RenderBegins, RenderMarks
<1>2. CASE P!Edit
  BY <1>2, EditOrders
<1>3. ASSUME NEW v \in P!Viewport, P!Expire(v) \/ P!Poll(v)
      PROVE  OrderInv'
  <2>1. CASE P!Expire(v)
    BY <2>1, Forgiven DEF P!Expire, P!page
  <2>2. CASE P!Poll(v)
    BY <2>2, CronPolls
  <2> QED
    BY <1>3, <2>1, <2>2
<1>4. CASE P!Cron
  BY <1>4, CronRuns DEF P!Cron
<1>5. ASSUME NEW b \in P!Batch, P!Dispatch(b)
      PROVE  OrderInv'
  BY <1>5, OrderLeaves
<1>6. CASE P!Refused \/ P!SetChain \/ P!EndChain \/ P!PollAgain \/ P!CronDies \/ P!Tick
  BY <1>6, OrderRefused, ChainBegins, ChainEnds, CronPollsAgain, CronEnds, OrdersAge
<1>7. ASSUME NEW b \in P!Batch, NEW v \in P!Viewport, P!JobDone(b, v) \/ P!JobFails(b, v)
      PROVE  OrderInv'
  <2>1. CASE P!JobDone(b, v)
    BY <2>1, OrdersRest DEF P!JobDone, P!page
  <2>2. CASE P!JobFails(b, v)
    BY <2>2, Forgiven DEF P!JobFails, P!page, P!disk
  <2> QED
    BY <1>7, <2>1, <2>2
<1> QED
  BY <1>1, <1>2, <1>3, <1>4, <1>5, <1>6, <1>7 DEF P!Next, P!Working

-----------------------------------------------------------------------------
(***************************************************************************)
(* Least numbers, smallest sets, and the library's folds                   *)
(***************************************************************************)
LEMMA Least ==
  ASSUME NEW S \in SUBSET Nat, S # {}
  PROVE  \E i \in S : \A j \in S : i <= j
<1> DEFINE Before == OpToRel(<, Nat)
<1>1. IsWellFoundedOn(Before, Nat)
  BY NatLessThanWellFounded
<1>2. \A a, b \in Nat : a < b => <<a, b>> \in Before
  BY DEF Before, OpToRel
<1> HIDE DEF Before
<1>3. PICK i \in S : \A j \in S : ~ (<<j, i>> \in Before)
  BY <1>1, WFMin
<1>4. \A j \in S : i \in Nat /\ j \in Nat /\ ~(j < i)
  BY <1>2, <1>3
<1>5. \A j \in S : i <= j
  BY <1>4
<1> QED
  BY <1>5

\* A family of finite sets with a member has a smallest one.
LEMMA Smallest ==
  ASSUME NEW F, \A s \in F : IsFiniteSet(s), F # {}
  PROVE  \E s \in F : \A t \in F : Cardinality(s) <= Cardinality(t)
<1> DEFINE N == {Cardinality(s) : s \in F}
<1>1. N \in SUBSET Nat /\ N # {}
  BY FS_CardinalityType
<1>2. PICK i \in N : \A j \in N : i <= j
  BY <1>1, Least
<1> QED
  BY <1>2

LEMMA Smaller ==
  ASSUME NEW s, IsFiniteSet(s), NEW x \in s
  PROVE  /\ IsFiniteSet(s \ {x}) /\ ~(Cardinality(s) <= Cardinality(s \ {x}))
         /\ s \ {x} \subseteq s /\ s \ {x} # s
<1>1. IsFiniteSet(s \ {x}) /\ Cardinality(s \ {x}) = Cardinality(s) - 1
  BY FS_RemoveElement
<1>2. Cardinality(s) \in Nat
  BY FS_CardinalityType
<1> QED
  BY <1>1, <1>2

\* A set of numbers has a greatest, if it is finite.
LEMMA MaxIn ==
  ASSUME NEW S \in SUBSET Nat, IsFiniteSet(S), S # {}
  PROVE  E!Max(S) \in S /\ \A y \in S : y <= E!Max(S)
<1> DEFINE Ups(x) == {y \in S : x <= y}
           F == {Ups(x) : x \in S}
<1>1. PICK s \in F : \A t \in F : Cardinality(s) <= Cardinality(t)
  <2>1. \A s \in F : IsFiniteSet(s)
    BY FS_Subset
  <2> QED
    BY <2>1, Smallest
<1>2. PICK x \in S : s = Ups(x)
  BY <1>1
<1>3. \A y \in S : y <= x
  <2> SUFFICES ASSUME NEW y \in S, ~(y <= x) PROVE FALSE
    OBVIOUS
  <2>0. x \in Nat /\ y \in Nat /\ x < y
    OBVIOUS
  <2>1. Ups(y) \subseteq Ups(x) \ {x} /\ x \in Ups(x)
    <3>1. x \in Ups(x)
      BY <2>0
    <3>2. ASSUME NEW z \in Ups(y) PROVE z \in Ups(x) /\ z # x
      <4>1. z \in Nat /\ z \in S /\ y <= z
        OBVIOUS
      <4> QED
        BY <2>0, <4>1
    <3> QED
      BY <3>1, <3>2
  <2>2. IsFiniteSet(Ups(x))
    BY FS_Subset
  <2>3. ~(Cardinality(Ups(x)) <= Cardinality(Ups(x) \ {x})) /\ IsFiniteSet(Ups(x) \ {x})
    BY <2>1, <2>2, Smaller
  <2>4. Cardinality(Ups(y)) <= Cardinality(Ups(x) \ {x})
    BY <2>1, <2>3, FS_Subset
  <2>5. /\ Cardinality(Ups(x)) \in Nat /\ Cardinality(Ups(x) \ {x}) \in Nat
        /\ Cardinality(Ups(y)) \in Nat
    BY <2>1, <2>2, <2>3, FS_Subset, FS_CardinalityType
  <2>6. Cardinality(Ups(x)) <= Cardinality(Ups(y))
    BY <1>1, <1>2
  <2> QED
    BY <2>3, <2>4, <2>5, <2>6
<1>4. \E z \in S : \A y \in S : z >= y
  BY <1>3
<1>5. E!Max(S) \in S /\ \A y \in S : E!Max(S) >= y
  BY <1>4 DEF E!Max
<1> QED
  BY <1>5

LEMMA MaxTo ==
  ASSUME NEW n \in Nat \ {0}
  PROVE  E!Max(1..n) = n /\ (1..n) \ {n} = 1..(n - 1)
<1>0. IsFiniteSet(1..n) /\ 1..n \in SUBSET Nat /\ n \in 1..n
  BY FS_Interval
<1>1. E!Max(1..n) \in 1..n /\ \A y \in 1..n : y <= E!Max(1..n)
  BY <1>0, MaxIn
<1>2. n <= E!Max(1..n)
  BY <1>0, <1>1
<1> QED
  BY <1>1, <1>2

\* The library's fold over the segments, named.
Fold(segs, S) == E!MapThenFoldSet(LAMBDA x, y : E!Collect(y, x), E!Start, LAMBDA i : segs[i],
                                  LAMBDA s : E!Max(s), S)
Round(segs, S, g) ==
    g = [s \in SUBSET S |-> IF s = {} THEN E!Start
                            ELSE E!Collect(g[s \ {E!Max(s)}], segs[E!Max(s)])]
Folding(segs, S) == CHOOSE g : Round(segs, S, g)

LEMMA FoldIs ==
  /\ \A segs : E!FoldLeft(E!Collect, E!Start, segs) = Fold(segs, DOMAIN segs)
  /\ \A segs, S : Fold(segs, S) = Folding(segs, S)[S]
BY DEF E!FoldLeft, Fold, E!MapThenFoldSet, Folding, Round

Steps(segs, s) ==
    Fold(segs, s) = IF s = {} THEN E!Start ELSE E!Collect(Fold(segs, s \ {E!Max(s)}), segs[E!Max(s)])

\* The loop has a solution, and it is the folds themselves.
LEMMA FoldSteps ==
  ASSUME NEW segs, NEW S \in SUBSET Nat, IsFiniteSet(S)
  PROVE  Steps(segs, S)
<1> DEFINE Bad == {s \in SUBSET S : ~Steps(segs, s)}
<1> SUFFICES ASSUME Bad # {} PROVE FALSE
  OBVIOUS
<1>1. \A s \in SUBSET S : IsFiniteSet(s)
  BY FS_Subset
<1>2. PICK s \in Bad : \A t \in Bad : Cardinality(s) <= Cardinality(t)
  BY <1>1, Smallest
<1> HIDE DEF Bad
<1>3. IsFiniteSet(s) /\ s \subseteq S /\ ~Steps(segs, s)
  BY <1>1, <1>2 DEF Bad
<1>4. \A t \in SUBSET s : t # s => Steps(segs, t)
  <2> TAKE t \in SUBSET s
  <2> HAVE t # s
  <2>1. ~(Cardinality(s) <= Cardinality(t))
    <3>1. IsFiniteSet(t) /\ Cardinality(t) <= Cardinality(s) /\ Cardinality(s) # Cardinality(t)
      BY <1>3, FS_Subset
    <3>2. Cardinality(t) \in Nat /\ Cardinality(s) \in Nat
      BY <1>3, <3>1, FS_CardinalityType
    <3> QED
      BY <3>1, <3>2
  <2> QED
    BY <1>2, <1>3, <2>1 DEF Bad
<1>0. \A t \in SUBSET s : t # {} => E!Max(t) \in t
  <2> SUFFICES ASSUME NEW t \in SUBSET s, t # {} PROVE E!Max(t) \in t
    OBVIOUS
  <2>1. IsFiniteSet(t) /\ t \in SUBSET Nat
    BY <1>1, <1>3
  <2> QED
    BY <2>1, MaxIn
<1> DEFINE g == [t \in SUBSET s |-> IF t # s THEN Fold(segs, t)
                                   ELSE IF s = {} THEN E!Start
                                   ELSE E!Collect(Fold(segs, s \ {E!Max(s)}), segs[E!Max(s)])]
<1>5. Round(segs, s, g)
  <2> SUFFICES ASSUME NEW t \in SUBSET s
               PROVE  g[t] = IF t = {} THEN E!Start
                             ELSE E!Collect(g[t \ {E!Max(t)}], segs[E!Max(t)])
    BY DEF Round
  <2>1. t # {} => t \ {E!Max(t)} \in SUBSET s /\ t \ {E!Max(t)} # s
    BY <1>0
  <2> QED
    BY <2>1, <1>4 DEF Steps
<1> HIDE DEF g
<1> DEFINE h == Folding(segs, s)
<1>6. Round(segs, s, h)
  BY <1>5 DEF Folding
<1>7. Fold(segs, s) = h[s]
  BY FoldIs
<1> HIDE DEF h
<1>8. \A t \in SUBSET s : h[t] = IF t = {} THEN E!Start
                                 ELSE E!Collect(h[t \ {E!Max(t)}], segs[E!Max(t)])
  BY <1>6 DEF Round
<1>9. \A t \in SUBSET s : t # s => h[t] = Fold(segs, t)
  <2> DEFINE Off == {t \in SUBSET s : t # s /\ h[t] # Fold(segs, t)}
  <2> SUFFICES ASSUME Off # {} PROVE FALSE
    OBVIOUS
  <2>1. PICK t \in Off : \A u \in Off : Cardinality(t) <= Cardinality(u)
    BY <1>1, <1>3, FS_Subset, Smallest
  <2>2. t # {}
    BY <1>8, <1>4, <2>1 DEF Steps
  <2>3. IsFiniteSet(t)
    BY <1>1, <1>3, <2>1
  <2> DEFINE u == t \ {E!Max(t)}
  <2>4. ~(Cardinality(t) <= Cardinality(u)) /\ u \subseteq t
    BY <1>0, <2>1, <2>2, <2>3, Smaller
  <2>5. u \in SUBSET s /\ u # s
    BY <1>0, <2>1, <2>2
  <2>6. h[u] = Fold(segs, u)
    BY <2>1, <2>4, <2>5
  <2>7. Fold(segs, t) = E!Collect(Fold(segs, u), segs[E!Max(t)])
    BY <1>4, <2>1, <2>2 DEF Steps
  <2>8. h[t] = E!Collect(h[u], segs[E!Max(t)])
    BY <1>8, <2>1, <2>2
  <2> QED
    BY <2>1, <2>6, <2>7, <2>8
<1>10. s # {} => s \ {E!Max(s)} \in SUBSET s /\ s \ {E!Max(s)} # s
  BY <1>0
<1>11. Steps(segs, s)
  BY <1>7, <1>8, <1>9, <1>10 DEF Steps
<1> QED
  BY <1>3, <1>11

\* Segment after segment.
LEMMA FoldNext ==
  ASSUME NEW segs, NEW n \in Nat \ {0}
  PROVE  Fold(segs, 1..n) = E!Collect(Fold(segs, 1..(n - 1)), segs[n])
<1>1. Steps(segs, 1..n)
  BY FoldSteps, FS_Interval
<1>2. 1..n # {}
  OBVIOUS
<1> QED
  BY <1>1, <1>2, MaxTo DEF Steps

LEMMA FoldNone == \A segs : Fold(segs, {}) = E!Start
  BY FoldSteps, FS_EmptySet DEF Steps

-----------------------------------------------------------------------------
(***************************************************************************)
(* Sequences of sequences                                                  *)
(***************************************************************************)
\* The library's loop, named.
GlueTo(ss, n, g) == g = [i \in 1..n |-> IF i = 1 THEN ss[i] ELSE g[i - 1] \o ss[i]]
Glued(ss) == CHOOSE g : GlueTo(ss, Len(ss), g)

LEMMA FlatIs ==
  \A ss : E!FlattenSeq(ss) = IF Len(ss) = 0 THEN ss ELSE Glued(ss)[Len(ss)]
BY DEF E!FlattenSeq, Glued, GlueTo

LEMMA GluedIs ==
  ASSUME NEW ss, Len(ss) \in Nat
  PROVE  GlueTo(ss, Len(ss), Glued(ss))
<1> DEFINE Bad == {n \in 0..Len(ss) : ~ \E g : GlueTo(ss, n, g)}
<1> SUFFICES ASSUME Bad # {} PROVE FALSE
  BY DEF Glued
<1>1. PICK n \in Bad : \A k \in Bad : n <= k
  <2>1. Bad \in SUBSET Nat
    OBVIOUS
  <2> HIDE DEF Bad
  <2> QED
    BY <2>1, Least
<1>2. CASE n = 0
  <2>1. GlueTo(ss, 0, [i \in 1..0 |-> 0])
    BY DEF GlueTo
  <2> QED
    BY <1>1, <1>2, <2>1
<1>3. CASE n # 0
  <2>1. n \in Nat \ {0} /\ n - 1 \in 0..Len(ss) /\ ~(n <= n - 1)
    BY <1>1, <1>3
  <2>2. PICK g : GlueTo(ss, n - 1, g)
    BY <1>1, <2>1
  <2> DEFINE h == [i \in 1..n |-> IF i = n THEN IF i = 1 THEN ss[i] ELSE g[i - 1] \o ss[i]
                                  ELSE g[i]]
  <2>3. \A i \in 1..n : h[i] = IF i = 1 THEN ss[i] ELSE h[i - 1] \o ss[i]
    <3> TAKE i \in 1..n
    <3>1. CASE i = n
      BY <2>1, <3>1
    <3>2. CASE i # n
      <4>1. i \in 1..(n - 1) /\ (i # 1 => i - 1 \in 1..n /\ i - 1 # n)
        BY <2>1, <3>2
      <4>2. g[i] = IF i = 1 THEN ss[i] ELSE g[i - 1] \o ss[i]
        BY <2>2, <4>1 DEF GlueTo
      <4> QED
        BY <3>2, <4>1, <4>2
    <3> QED
      BY <3>1, <3>2
  <2>4. GlueTo(ss, n, h)
    BY <2>3 DEF GlueTo
  <2> QED
    BY <1>1, <2>4
<1> QED
  BY <1>2, <1>3

\* The places of the members, and their order.
Pairs(ss) == {p \in (DOMAIN ss) \X Nat : p[2] \in DOMAIN ss[p[1]]}

\* s has the members of the first n in their order, each once.
Strings(ss, n, s, f) ==
    /\ f \in [DOMAIN s -> Pairs(ss)]
    /\ \A k \in DOMAIN s : f[k][1] <= n /\ s[k] = ss[f[k][1]][f[k][2]]
    /\ \A k, l \in DOMAIN s : k < l => E!Earlier(f[k], f[l])
    /\ \A p \in Pairs(ss) : p[1] <= n => \E k \in DOMAIN s : f[k] = p

LEMMA StringsOn ==
  ASSUME NEW V, NEW ss \in Seq(Seq(V)), NEW n \in Nat, n + 1 \in DOMAIN ss,
         NEW s \in Seq(V), NEW f, Strings(ss, n, s, f)
  PROVE  \E g : Strings(ss, n + 1, s \o ss[n + 1], g)
<1> DEFINE t == ss[n + 1]
           u == s \o t
           g == [k \in DOMAIN u |-> IF k <= Len(s) THEN f[k] ELSE <<n + 1, k - Len(s)>>]
<1>1. t \in Seq(V) /\ DOMAIN t = 1..Len(t) /\ Len(t) \in Nat
  OBVIOUS
<1>2. DOMAIN s = 1..Len(s) /\ Len(s) \in Nat
  OBVIOUS
<1> HIDE DEF t
<1>3. u \in Seq(V) /\ DOMAIN u = 1..(Len(s) + Len(t))
  BY <1>1, <1>2
<1>4. \A k \in DOMAIN u : \/ k \in DOMAIN s /\ u[k] = s[k] /\ k <= Len(s)
                          \/ k - Len(s) \in DOMAIN t /\ u[k] = t[k - Len(s)] /\ ~(k <= Len(s))
  BY <1>1, <1>2, <1>3
<1>5. \A k \in DOMAIN s : k \in DOMAIN u /\ k <= Len(s)
  BY <1>1, <1>2, <1>3
<1>6. \A j \in DOMAIN t : Len(s) + j \in DOMAIN u /\ ~(Len(s) + j <= Len(s)) /\ (Len(s) + j) - Len(s) = j
  BY <1>1, <1>2, <1>3
<1>7. \A k \in DOMAIN u : k \in Nat
  BY <1>1, <1>2, <1>3
<1> HIDE DEF u
<1>8. \A k \in DOMAIN u : \/ k \in DOMAIN s /\ g[k] = f[k]
                          \/ k - Len(s) \in DOMAIN t /\ g[k] = <<n + 1, k - Len(s)>>
  BY <1>4
<1>9. g \in [DOMAIN u -> Pairs(ss)]
  <2> SUFFICES ASSUME NEW k \in DOMAIN u PROVE g[k] \in Pairs(ss)
    OBVIOUS
  <2>1. CASE k \in DOMAIN s /\ g[k] = f[k]
    BY <2>1 DEF Strings
  <2>2. CASE k - Len(s) \in DOMAIN t /\ g[k] = <<n + 1, k - Len(s)>>
    <3>1. k - Len(s) \in Nat /\ k - Len(s) \in DOMAIN ss[n + 1]
      BY <1>1, <2>2 DEF t
    <3>2. <<n + 1, k - Len(s)>> \in Pairs(ss)
      BY <3>1 DEF Pairs
    <3> QED
      BY <2>2, <3>2
  <2> QED
    BY <1>8, <2>1, <2>2
<1>10. \A k \in DOMAIN u : g[k][1] <= n + 1 /\ u[k] = ss[g[k][1]][g[k][2]]
  <2> TAKE k \in DOMAIN u
  <2>1. CASE k \in DOMAIN s /\ u[k] = s[k] /\ k <= Len(s)
    <3>1. g[k] = f[k] /\ f[k] \in Pairs(ss)
      BY <2>1 DEF Strings
    <3>2. f[k][1] \in Nat
      BY <3>1 DEF Pairs
    <3>3. f[k][1] <= n /\ s[k] = ss[f[k][1]][f[k][2]]
      BY <2>1 DEF Strings
    <3> QED
      BY <2>1, <3>1, <3>2, <3>3
  <2>2. CASE k - Len(s) \in DOMAIN t /\ u[k] = t[k - Len(s)] /\ ~(k <= Len(s))
    <3>1. g[k] = <<n + 1, k - Len(s)>>
      BY <2>2
    <3> HIDE DEF g
    <3> QED
      BY <2>2, <3>1 DEF t
  <2> QED
    BY <1>4, <2>1, <2>2
<1>11. \A k, l \in DOMAIN u : k < l => E!Earlier(g[k], g[l])
  <2> TAKE k, l \in DOMAIN u
  <2> HAVE k < l
  <2>1. CASE l <= Len(s)
    <3>1. k <= Len(s)
      BY <1>2, <1>7, <2>1
    <3>2. k \in DOMAIN s /\ l \in DOMAIN s
      BY <1>4, <2>1, <3>1
    <3> QED
      BY <2>1, <3>1, <3>2 DEF Strings
  <2>2. CASE k <= Len(s) /\ ~(l <= Len(s))
    <3>1. k \in DOMAIN s /\ g[k] = f[k] /\ g[l] = <<n + 1, l - Len(s)>>
      BY <1>4, <2>2
    <3>2. f[k][1] <= n /\ f[k] \in Pairs(ss)
      BY <3>1 DEF Strings
    <3>3. f[k][1] \in Nat
      BY <3>2 DEF Pairs
    <3> HIDE DEF g
    <3> QED
      BY <3>1, <3>2, <3>3 DEF E!Earlier
  <2>3. CASE ~(k <= Len(s))
    <3>1. g[k] = <<n + 1, k - Len(s)>> /\ g[l] = <<n + 1, l - Len(s)>>
      BY <1>2, <1>7, <2>3
    <3>2. k - Len(s) < l - Len(s)
      BY <1>2, <1>7
    <3> HIDE DEF g
    <3> QED
      BY <3>1, <3>2 DEF E!Earlier
  <2> QED
    BY <2>1, <2>2, <2>3
<1>12. \A p \in Pairs(ss) : p[1] <= n + 1 => \E k \in DOMAIN u : g[k] = p
  <2> TAKE p \in Pairs(ss)
  <2> HAVE p[1] <= n + 1
  <2>1. p = <<p[1], p[2]>> /\ p[1] \in Nat /\ p[2] \in Nat /\ p[2] \in DOMAIN ss[p[1]]
    BY DEF Pairs
  <2>2. CASE p[1] <= n
    <3>1. PICK k \in DOMAIN s : f[k] = p
      BY <2>2 DEF Strings
    <3> QED
      BY <1>5, <3>1
  <2>3. CASE p[1] = n + 1
    <3>1. p[2] \in DOMAIN t
      BY <2>1, <2>3 DEF t
    <3>2. g[Len(s) + p[2]] = <<n + 1, p[2]>>
      BY <1>6, <3>1
    <3> HIDE DEF g
    <3> QED
      BY <1>6, <2>1, <2>3, <3>1, <3>2
  <2> QED
    BY <2>1, <2>2, <2>3
<1>13. Strings(ss, n + 1, u, g)
  BY <1>9, <1>10, <1>11, <1>12 DEF Strings
<1> QED
  BY <1>13 DEF u, t

\* What FlattenSeq makes of them.
LEMMA Flattened ==
  ASSUME NEW V, NEW ss \in Seq(Seq(V))
  PROVE  /\ E!FlattenSeq(ss) \in Seq(V)
         /\ \E f : Strings(ss, Len(ss), E!FlattenSeq(ss), f)
<1>0. Len(ss) \in Nat /\ DOMAIN ss = 1..Len(ss)
  OBVIOUS
<1>1. CASE Len(ss) = 0
  <2>1. ss = <<>> /\ E!FlattenSeq(ss) = <<>>
    BY <1>1, FlatIs
  <2>2. Strings(<<>>, 0, <<>>, <<>>)
    BY DEF Strings, Pairs
  <2>3. Strings(ss, Len(ss), E!FlattenSeq(ss), <<>>)
    BY <1>1, <2>1, <2>2, Zenon
  <2>4. <<>> \in Seq(V)
    OBVIOUS
  <2> QED
    BY <2>1, <2>3, <2>4
<1>2. CASE Len(ss) # 0
  <2> DEFINE g == Glued(ss)
             Fine(n) == g[n] \in Seq(V) /\ \E f : Strings(ss, n, g[n], f)
             Bad == {n \in 1..Len(ss) : ~Fine(n)}
  <2>1. \A n \in 1..Len(ss) : g[n] = IF n = 1 THEN ss[n] ELSE g[n - 1] \o ss[n]
    BY <1>0, GluedIs DEF GlueTo
  <2> HIDE DEF g
  <2>2. ASSUME Bad # {} PROVE FALSE
    <3>1. PICK n \in Bad : \A k \in Bad : n <= k
      <4>1. Bad \in SUBSET Nat
        OBVIOUS
      <4> HIDE DEF Bad
      <4> QED
        BY <2>2, <4>1, Least
    <3>2. CASE n = 1
      <4>1. Strings(ss, 0, <<>>, <<>>)
        BY <1>0 DEF Strings, Pairs
      <4>2. 1 \in DOMAIN ss /\ 0 + 1 = 1
        BY <1>0, <1>2
      <4>3. \E f : Strings(ss, 0 + 1, <<>> \o ss[0 + 1], f)
        <5>1. <<>> \in Seq(V) /\ 0 \in Nat /\ 0 + 1 \in DOMAIN ss
          BY <4>2
        <5> QED
          BY <4>1, <5>1, StringsOn
      <4>4. g[1] = ss[1] /\ ss[1] \in Seq(V) /\ <<>> \o ss[1] = ss[1]
        BY <2>1, <4>2, <1>0
      <4> QED
        BY <3>1, <3>2, <4>2, <4>3, <4>4
    <3>3. CASE n # 1
      <4>1. n \in Nat /\ n - 1 \in Nat /\ n - 1 \in 1..Len(ss) /\ ~(n <= n - 1) /\ (n - 1) + 1 = n
        BY <3>1, <3>3
      <4>2. Fine(n - 1)
        BY <3>1, <4>1
      <4>3. g[n] = g[n - 1] \o ss[n] /\ n \in DOMAIN ss /\ ss[n] \in Seq(V)
        <5>1. n \in DOMAIN ss /\ n \in 1..Len(ss)
          BY <1>0, <3>1
        <5> HIDE DEF Bad, Fine
        <5>2. g[n] = g[n - 1] \o ss[n]
          BY <2>1, <3>3, <5>1
        <5>3. ss[n] \in Seq(V)
          BY <5>1
        <5> QED
          BY <5>1, <5>2, <5>3
      <4>4. PICK f : Strings(ss, n - 1, g[n - 1], f)
        BY <4>2
      <4>5. \E h : Strings(ss, (n - 1) + 1, g[n - 1] \o ss[(n - 1) + 1], h)
        BY <4>1, <4>2, <4>3, <4>4, StringsOn
      <4>6. g[n] \in Seq(V)
        BY <4>2, <4>3
      <4> QED
        BY <3>1, <4>1, <4>3, <4>5, <4>6
    <3> QED
      BY <3>2, <3>3
  <2>3. Fine(Len(ss))
    BY <1>0, <1>2, <2>2
  <2>4. E!FlattenSeq(ss) = g[Len(ss)]
    BY <1>2, FlatIs DEF g
  <2> QED
    BY <2>3, <2>4
<1> QED
  BY <1>1, <1>2
-----------------------------------------------------------------------------
(***************************************************************************)
(* Sums over finite sets                                                   *)
(***************************************************************************)
Sum(f, S) == E!SumFunctionOnSet(f, S)
\* The library's fold, named: it takes some member, and the rest.
Some(s) == CHOOSE x \in s : TRUE
Loop(f, S, g) == g = [s \in SUBSET S |-> IF s = {} THEN 0 ELSE f[Some(s)] + g[s \ {Some(s)}]]
Iter(f, S) == CHOOSE g : Loop(f, S, g)

LEMMA SumIter == \A f, S : Sum(f, S) = Iter(f, S)[S]
  BY DEF Sum, E!SumFunctionOnSet, E!FoldFunctionOnSet, E!MapThenFoldSet, Iter, Loop, Some

LEMMA SomeIn == \A s : s # {} => Some(s) \in s
  BY DEF Some

Unfolds(f, s) == Sum(f, s) = IF s = {} THEN 0 ELSE f[Some(s)] + Sum(f, s \ {Some(s)})

\* The loop has a solution, and it is the sums themselves.
LEMMA SumUnfolds ==
  ASSUME NEW f, NEW S, IsFiniteSet(S)
  PROVE  Unfolds(f, S)
<1> DEFINE Bad == {s \in SUBSET S : ~Unfolds(f, s)}
<1> SUFFICES ASSUME Bad # {} PROVE FALSE
  OBVIOUS
<1>1. \A s \in SUBSET S : IsFiniteSet(s)
  BY FS_Subset
<1>2. PICK s \in Bad : \A t \in Bad : Cardinality(s) <= Cardinality(t)
  BY <1>1, Smallest
<1> HIDE DEF Bad
<1>3. IsFiniteSet(s) /\ s \subseteq S /\ ~Unfolds(f, s)
  BY <1>1, <1>2 DEF Bad
<1>4. \A t \in SUBSET s : t # s => Unfolds(f, t)
  <2> TAKE t \in SUBSET s
  <2> HAVE t # s
  <2>1. ~(Cardinality(s) <= Cardinality(t))
    BY <1>3, FS_Subset, FS_CardinalityType
  <2> QED
    BY <1>2, <1>3, <2>1 DEF Bad
<1> DEFINE g == [t \in SUBSET s |-> IF t # s THEN Sum(f, t)
                                   ELSE IF s = {} THEN 0
                                   ELSE f[Some(s)] + Sum(f, s \ {Some(s)})]
<1>5. Loop(f, s, g)
  <2> SUFFICES ASSUME NEW t \in SUBSET s
               PROVE  g[t] = IF t = {} THEN 0 ELSE f[Some(t)] + g[t \ {Some(t)}]
    BY DEF Loop
  <2>1. t # {} => t \ {Some(t)} \in SUBSET s /\ t \ {Some(t)} # s
    BY SomeIn
  <2> QED
    BY <2>1, <1>4 DEF Unfolds
<1> HIDE DEF g
<1> DEFINE h == Iter(f, s)
<1>6. Loop(f, s, h)
  BY <1>5 DEF Iter
<1>7. Sum(f, s) = h[s]
  BY SumIter
<1> HIDE DEF h
<1>8. \A t \in SUBSET s : h[t] = IF t = {} THEN 0 ELSE f[Some(t)] + h[t \ {Some(t)}]
  BY <1>6 DEF Loop
<1>9. \A t \in SUBSET s : t # s => h[t] = Sum(f, t)
  <2> DEFINE Off == {t \in SUBSET s : t # s /\ h[t] # Sum(f, t)}
  <2> SUFFICES ASSUME Off # {} PROVE FALSE
    OBVIOUS
  <2>1. PICK t \in Off : \A u \in Off : Cardinality(t) <= Cardinality(u)
    BY <1>1, <1>3, FS_Subset, Smallest
  <2>2. t # {}
    BY <1>8, <1>4, <2>1 DEF Unfolds
  <2>3. IsFiniteSet(t)
    BY <1>1, <1>3, <2>1
  <2> DEFINE u == t \ {Some(t)}
  <2>4. ~(Cardinality(t) <= Cardinality(u)) /\ u \subseteq t
    BY <2>2, <2>3, SomeIn, Smaller
  <2>5. u \in SUBSET s /\ u # s
    BY <2>1, <2>2, SomeIn
  <2>6. h[u] = Sum(f, u)
    BY <2>1, <2>4, <2>5
  <2>7. Sum(f, t) = f[Some(t)] + Sum(f, u)
    BY <1>4, <2>1, <2>2 DEF Unfolds
  <2>8. h[t] = f[Some(t)] + h[u]
    BY <1>8, <2>1, <2>2
  <2> QED
    BY <2>1, <2>6, <2>7, <2>8
<1>10. s # {} => s \ {Some(s)} \in SUBSET s /\ s \ {Some(s)} # s
  BY SomeIn
<1>11. Unfolds(f, s)
  BY <1>7, <1>8, <1>9, <1>10 DEF Unfolds
<1> QED
  BY <1>3, <1>11

LEMMA SumOfNone == \A f : Sum(f, {}) = 0
  BY SumUnfolds, FS_EmptySet DEF Unfolds

LEMMA SumIsNat ==
  ASSUME NEW Dom, NEW f \in [Dom -> Nat], NEW S \in SUBSET Dom, IsFiniteSet(S)
  PROVE  Sum(f, S) \in Nat
<1> DEFINE Bad == {s \in SUBSET S : Sum(f, s) \notin Nat}
<1> SUFFICES ASSUME Bad # {} PROVE FALSE
  OBVIOUS
<1>1. PICK s \in Bad : \A t \in Bad : Cardinality(s) <= Cardinality(t)
  BY FS_Subset, Smallest
<1>2. IsFiniteSet(s)
  BY <1>1, FS_Subset
<1>3. s # {}
  BY <1>1, SumOfNone
<1>4. s \ {Some(s)} \notin Bad /\ s \ {Some(s)} \in SUBSET S
  BY <1>1, <1>2, <1>3, SomeIn, Smaller
<1>5. Sum(f, s \ {Some(s)}) \in Nat
  BY <1>4
<1>6. f[Some(s)] \in Nat
  BY <1>1, <1>3, SomeIn
<1>7. Sum(f, s) = f[Some(s)] + Sum(f, s \ {Some(s)})
  BY <1>2, <1>3, SumUnfolds DEF Unfolds
<1> QED
  BY <1>1, <1>5, <1>6, <1>7

\* Whichever member is taken first.
LEMMA SumTakes ==
  ASSUME NEW Dom, NEW f \in [Dom -> Nat], NEW S \in SUBSET Dom, IsFiniteSet(S), NEW x \in S
  PROVE  Sum(f, S) = f[x] + Sum(f, S \ {x})
<1> DEFINE Fine(s) == \A y \in s : Sum(f, s) = f[y] + Sum(f, s \ {y})
           Bad == {s \in SUBSET S : ~Fine(s)}
<1> SUFFICES ASSUME Bad # {} PROVE FALSE
  OBVIOUS
<1>1. PICK s \in Bad : \A t \in Bad : Cardinality(s) <= Cardinality(t)
  BY FS_Subset, Smallest
<1>2. IsFiniteSet(s) /\ s \in SUBSET S
  BY <1>1, FS_Subset
<1>3. PICK y \in s : Sum(f, s) # f[y] + Sum(f, s \ {y})
  BY <1>1
<1> DEFINE c == Some(s)
<1>4. c \in s /\ Sum(f, s) = f[c] + Sum(f, s \ {c})
  BY <1>2, <1>3, SumUnfolds, SomeIn DEF Unfolds
<1>5. c # y
  BY <1>3, <1>4
<1>6. Fine(s \ {c}) /\ Fine(s \ {y})
  BY <1>1, <1>2, <1>4, Smaller
<1> HIDE DEF c, Bad
<1>7. Sum(f, s \ {c}) = f[y] + Sum(f, (s \ {c}) \ {y})
  BY <1>5, <1>6
<1>8. Sum(f, s \ {y}) = f[c] + Sum(f, (s \ {y}) \ {c})
  BY <1>4, <1>5, <1>6
<1>9. (s \ {y}) \ {c} = (s \ {c}) \ {y}
  OBVIOUS
<1> DEFINE rest == Sum(f, (s \ {c}) \ {y})
<1>10. rest \in Nat /\ f[c] \in Nat /\ f[y] \in Nat
  <2>1. (s \ {c}) \ {y} \in SUBSET Dom /\ IsFiniteSet((s \ {c}) \ {y})
    BY <1>2, FS_Subset
  <2> QED
    BY <1>2, <1>4, <2>1, SumIsNat
<1> HIDE DEF rest
<1>11. Sum(f, s) = f[c] + (f[y] + rest) /\ Sum(f, s \ {y}) = f[c] + rest
  BY <1>4, <1>7, <1>8, <1>9 DEF rest
<1>12. f[c] + (f[y] + rest) = f[y] + (f[c] + rest)
  BY <1>10
<1> QED
  BY <1>3, <1>11, <1>12

\* Over fewer members, and of a smaller function.
LEMMA SumGrows ==
  ASSUME NEW Dom, NEW f \in [Dom -> Nat], NEW g \in [Dom -> Nat], NEW S \in SUBSET Dom, IsFiniteSet(S),
         NEW T \in SUBSET S, \A x \in T : f[x] <= g[x]
  PROVE  Sum(f, T) <= Sum(g, S)
<1> DEFINE Bad == {s \in SUBSET S : ~(Sum(f, s \cap T) <= Sum(g, s))}
<1>0. S \cap T = T
  OBVIOUS
<1> SUFFICES ASSUME Bad # {} PROVE FALSE
  BY <1>0
<1>1. PICK s \in Bad : \A t \in Bad : Cardinality(s) <= Cardinality(t)
  BY FS_Subset, Smallest
<1>2. IsFiniteSet(s) /\ s \in SUBSET S
  BY <1>1, FS_Subset
<1>3. PICK x : x \in s
  <2>1. Sum(f, {} \cap T) <= Sum(g, {})
    BY SumOfNone
  <2> QED
    BY <1>1, <2>1
<1>4. Sum(f, (s \ {x}) \cap T) <= Sum(g, s \ {x})
  BY <1>1, <1>2, <1>3, Smaller
<1>5. Sum(g, s) = g[x] + Sum(g, s \ {x})
  BY <1>2, <1>3, SumTakes
<1>6. IsFiniteSet(s \cap T) /\ IsFiniteSet(s \ {x}) /\ IsFiniteSet((s \ {x}) \cap T)
  BY <1>2, FS_Subset
<1>7. Sum(g, s \ {x}) \in Nat /\ Sum(f, (s \ {x}) \cap T) \in Nat /\ g[x] \in Nat /\ f[x] \in Nat
  BY <1>2, <1>3, <1>6, SumIsNat
<1>8. CASE x \in T
  <2>1. (s \cap T) \ {x} = (s \ {x}) \cap T
    OBVIOUS
  <2>2. Sum(f, s \cap T) = f[x] + Sum(f, (s \ {x}) \cap T)
    BY <1>3, <1>6, <1>8, <2>1, SumTakes
  <2> QED
    BY <1>1, <1>4, <1>5, <1>7, <1>8, <2>2
<1>9. CASE x \notin T
  <2>1. s \cap T = (s \ {x}) \cap T
    BY <1>9
  <2> QED
    BY <1>1, <1>4, <1>5, <1>7, <2>1
<1> QED
  BY <1>8, <1>9


-----------------------------------------------------------------------------
(***************************************************************************)
(* The walk through the rules of a page                                    *)
(***************************************************************************)
Passages == {E!Segment(r) : r \in Authored} \cup {E!Mark(s) : s \in Linked}

LEMMA PassageType ==
  ASSUME NEW s \in Passages
  PROVE  s.rule = None \/ (/\ s.rule \in Authored /\ s.rule # None
                           /\ s.rule.used \in BOOLEAN /\ s.rule.vital \in BOOLEAN
                           /\ s.rule.size \in Nat)
<1>1. ASSUME NEW r \in Authored, s = E!Segment(r) PROVE s.rule = r
  BY <1>1 DEF E!Segment
<1>2. ASSUME NEW t \in Linked, s = E!Mark(t) PROVE s.rule = None
  BY <1>2 DEF E!Mark
<1>3. (\E r \in Authored : s = E!Segment(r)) \/ (\E t \in Linked : s = E!Mark(t))
  BY DEF Passages
<1>4. s.rule = None \/ s.rule \in Authored
  BY <1>1, <1>2, <1>3
<1> QED
  BY <1>4, DocumentAssumption DEF DocumentAssumption

Ruled(segs, k) == {i \in 1..k : segs[i].rule # None}
Dears(segs, k) == {i \in Ruled(segs, k) : segs[i].rule.used /\ segs[i].rule.vital}
Spots(f, S) == {f[i] : i \in S}

\* The segments of a page, the places of its rules, and how long they are.
Laid(segs, U, f, v) ==
    /\ segs \in Seq(Passages) /\ IsFiniteSet(U) /\ v \in [U -> Nat]
    /\ \A i \in Ruled(segs, Len(segs)) : f[i] \in U /\ v[f[i]] = segs[i].rule.size
    /\ \A i, j \in Ruled(segs, Len(segs)) : f[i] = f[j] => i = j

\* What is kept of the first k segments.
Follows(segs, k, out, h) ==
    /\ h \in [DOMAIN out -> 1..k]
    /\ \A m \in DOMAIN out : /\ out[m] = segs[h[m]]
                             /\ segs[h[m]].rule = None \/ segs[h[m]].rule.used
    /\ \A m, n \in DOMAIN out : m < n => h[m] < h[n]
Retained(segs, k, out) == out \in Seq(Passages) /\ \E h : Follows(segs, k, out, h)

\* The page is within the envelopes.
Within(segs, f, v) ==
    /\ Cardinality(Spots(f, Ruled(segs, Len(segs)))) <= MaxRules
    /\ Sum(v, Spots(f, Dears(segs, Len(segs)))) <= MaxProtected

Holds(out, s) == \E m \in DOMAIN out : out[m] = s

\* The walk after k segments.
Walked(segs, f, v, k, acc) ==
    /\ acc \in [out : Seq(Passages), bytes : Nat, spare : Nat, count : Nat]
    /\ Retained(segs, k, acc.out)
    /\ acc.count = Cardinality(Spots(f, Ruled(segs, k)))
    /\ acc.spare <= Sum(v, Spots(f, Dears(segs, k)))
    /\ Within(segs, f, v) => \A i \in Dears(segs, k) : Holds(acc.out, segs[i])

LEMMA KeptLess ==
  ASSUME NEW segs, NEW k \in Nat, NEW out, Retained(segs, k, out)
  PROVE  Retained(segs, k + 1, out)
<1>1. PICK h : Follows(segs, k, out, h)
  BY DEF Retained
<1>2. 1..k \subseteq 1..(k + 1)
  OBVIOUS
<1>3. Follows(segs, k + 1, out, h)
  BY <1>1, <1>2 DEF Follows
<1> QED
  BY <1>3 DEF Retained

LEMMA KeptMore ==
  ASSUME NEW segs \in Seq(Passages), NEW k \in Nat, k + 1 \in DOMAIN segs, NEW out,
         Retained(segs, k, out), segs[k + 1].rule = None \/ segs[k + 1].rule.used
  PROVE  /\ Retained(segs, k + 1, Append(out, segs[k + 1]))
         /\ Holds(Append(out, segs[k + 1]), segs[k + 1])
         /\ \A s : Holds(out, s) => Holds(Append(out, segs[k + 1]), s)
<1>1. PICK h : Follows(segs, k, out, h)
  BY DEF Retained
<1>2. out \in Seq(Passages)
  BY DEF Retained
<1> DEFINE new == Append(out, segs[k + 1])
           g == [m \in DOMAIN new |-> IF m \in DOMAIN out THEN h[m] ELSE k + 1]
<1>3. /\ new \in Seq(Passages) /\ DOMAIN new = DOMAIN out \cup {Len(out) + 1}
      /\ Len(out) + 1 \notin DOMAIN out /\ new[Len(out) + 1] = segs[k + 1]
      /\ \A m \in DOMAIN out : new[m] = out[m] /\ m < Len(out) + 1
      /\ \A m, n \in DOMAIN new : m < n => m \in DOMAIN out
  <2>1. segs[k + 1] \in Passages
    OBVIOUS
  <2>2. Len(out) \in Nat /\ DOMAIN out = 1..Len(out)
    BY <1>2
  <2>3. Len(new) = Len(out) + 1 /\ new \in Seq(Passages)
    BY <1>2, <2>1
  <2>4. DOMAIN new = 1..(Len(out) + 1)
    BY <2>3
  <2>5. \A m \in 1..(Len(out) + 1) : new[m] = IF m = Len(out) + 1 THEN segs[k + 1] ELSE out[m]
    BY <1>2, <2>1, <2>2
  <2> HIDE DEF new
  <2>6. \A m \in DOMAIN out : m \in 1..(Len(out) + 1) /\ m # Len(out) + 1 /\ m < Len(out) + 1
    BY <2>2
  <2>7. Len(out) + 1 \in 1..(Len(out) + 1) /\ Len(out) + 1 \notin DOMAIN out
    BY <2>2
  <2>8. \A m \in DOMAIN new : m = Len(out) + 1 \/ m \in DOMAIN out
    BY <2>2, <2>4
  <2>9. \A m, n \in DOMAIN new : m < n => m \in DOMAIN out
    BY <2>2, <2>4
  <2> QED
    BY <2>3, <2>4, <2>5, <2>6, <2>7, <2>8, <2>9
<1> HIDE DEF new
<1>4. g \in [DOMAIN new -> 1..(k + 1)]
  <2> SUFFICES ASSUME NEW m \in DOMAIN new PROVE g[m] \in 1..(k + 1)
    OBVIOUS
  <2>1. CASE m \in DOMAIN out
    <3>1. h[m] \in 1..k
      BY <1>1, <2>1 DEF Follows
    <3> QED
      BY <2>1, <3>1
  <2>2. CASE m \notin DOMAIN out
    BY <2>2
  <2> QED
    BY <2>1, <2>2
<1>5. \A m \in DOMAIN new : m \in DOMAIN out => g[m] = h[m] /\ h[m] \in 1..k
  BY <1>1 DEF Follows
<1>6. \A m \in DOMAIN new : m \notin DOMAIN out => g[m] = k + 1 /\ m = Len(out) + 1
  BY <1>3
<1> HIDE DEF g
<1>7. \A m \in DOMAIN new : /\ new[m] = segs[g[m]]
                            /\ segs[g[m]].rule = None \/ segs[g[m]].rule.used
  <2> TAKE m \in DOMAIN new
  <2>1. CASE m \in DOMAIN out
    <3>1. new[m] = out[m] /\ g[m] = h[m]
      BY <1>3, <1>5, <2>1
    <3>2. out[m] = segs[h[m]] /\ (segs[h[m]].rule = None \/ segs[h[m]].rule.used)
      BY <1>1, <2>1 DEF Follows
    <3> QED
      BY <3>1, <3>2
  <2>2. CASE m \notin DOMAIN out
    <3>1. g[m] = k + 1 /\ new[m] = segs[k + 1]
      BY <1>3, <1>6, <2>2
    <3> QED
      BY <3>1
  <2> QED
    BY <2>1, <2>2
<1>8. \A m, n \in DOMAIN new : m < n => g[m] < g[n]
  <2> TAKE m, n \in DOMAIN new
  <2> HAVE m < n
  <2>1. g[m] = h[m] /\ h[m] \in 1..k /\ m \in DOMAIN out
    BY <1>3, <1>5
  <2>2. CASE n \in DOMAIN out
    <3>1. h[m] < h[n]
      BY <1>1, <2>1, <2>2 DEF Follows
    <3> QED
      BY <1>5, <2>1, <2>2, <3>1
  <2>3. CASE n \notin DOMAIN out
    <3>1. g[n] = k + 1
      BY <1>6, <2>3
    <3> QED
      BY <2>1, <3>1
  <2> QED
    BY <2>2, <2>3
<1>9. Follows(segs, k + 1, new, g)
  BY <1>4, <1>7, <1>8 DEF Follows
<1>10. Retained(segs, k + 1, new)
  BY <1>3, <1>9 DEF Retained
<1>11. Holds(new, segs[k + 1])
  BY <1>3 DEF Holds
<1>12. \A s : Holds(out, s) => Holds(new, s)
  BY <1>3 DEF Holds
<1> QED
  BY <1>10, <1>11, <1>12 DEF new

\* The places met on the way to the next segment.
LEMMA SpotsOn ==
  ASSUME NEW segs, NEW U, NEW f, NEW v, Laid(segs, U, f, v), NEW k \in Nat, k + 1 \in DOMAIN segs
  PROVE  LET R == Spots(f, Ruled(segs, k))
             T == Spots(f, Dears(segs, k))
             i == k + 1
         IN  /\ IsFiniteSet(R) /\ IsFiniteSet(T) /\ R \subseteq U /\ T \subseteq U
             /\ segs[i].rule = None =>
                  /\ Ruled(segs, i) = Ruled(segs, k) /\ Dears(segs, i) = Dears(segs, k)
             /\ segs[i].rule # None =>
                  /\ f[i] \in U \ R /\ Spots(f, Ruled(segs, i)) = R \cup {f[i]}
                  /\ f[i] \notin T /\ v[f[i]] = segs[i].rule.size
                  /\ IF segs[i].rule.used /\ segs[i].rule.vital
                     THEN /\ Dears(segs, i) = Dears(segs, k) \cup {i}
                          /\ Spots(f, Dears(segs, i)) = T \cup {f[i]}
                     ELSE Dears(segs, i) = Dears(segs, k)
             /\ Spots(f, Ruled(segs, k)) \subseteq Spots(f, Ruled(segs, Len(segs)))
             /\ Spots(f, Dears(segs, i)) \subseteq Spots(f, Dears(segs, Len(segs)))
             /\ Spots(f, Ruled(segs, Len(segs))) \subseteq U
             /\ Spots(f, Dears(segs, Len(segs))) \subseteq U
<1> DEFINE R == Spots(f, Ruled(segs, k))
           T == Spots(f, Dears(segs, k))
           i == k + 1
           n == Len(segs)
<1>1. /\ n \in Nat /\ i \in 1..n /\ 1..k \subseteq 1..n /\ 1..i \subseteq 1..n
      /\ 1..i = (1..k) \cup {i} /\ i \notin 1..k
  <2>1. segs \in Seq(Passages)
    BY DEF Laid
  <2> QED
    BY <2>1
<1> HIDE DEF i, n
<1>2. Ruled(segs, k) \subseteq Ruled(segs, n) /\ Ruled(segs, i) \subseteq Ruled(segs, n)
  BY <1>1 DEF Ruled
<1>3. Ruled(segs, i) = IF segs[i].rule = None THEN Ruled(segs, k) ELSE Ruled(segs, k) \cup {i}
  BY <1>1 DEF Ruled
<1>4. i \notin Ruled(segs, k) /\ (segs[i].rule # None => i \in Ruled(segs, n))
  BY <1>1 DEF Ruled
<1>5. \A j \in Ruled(segs, n) : f[j] \in U /\ v[f[j]] = segs[j].rule.size
  BY DEF Laid, n
<1>6. \A j, l \in Ruled(segs, n) : f[j] = f[l] => j = l
  BY DEF Laid, n
<1>7. Spots(f, Ruled(segs, n)) \subseteq U
  BY <1>5 DEF Spots
<1>8. /\ Dears(segs, k) \subseteq Ruled(segs, k) /\ Dears(segs, i) \subseteq Dears(segs, n)
      /\ Dears(segs, n) \subseteq Ruled(segs, n)
  BY <1>2 DEF Dears
<1>9. \A A, B : A \subseteq B => Spots(f, A) \subseteq Spots(f, B)
  BY DEF Spots
<1>10. /\ T \subseteq R /\ R \subseteq Spots(f, Ruled(segs, n))
       /\ Spots(f, Dears(segs, i)) \subseteq Spots(f, Dears(segs, n))
       /\ Spots(f, Dears(segs, n)) \subseteq Spots(f, Ruled(segs, n))
  BY <1>2, <1>8, <1>9
<1>11. IsFiniteSet(R) /\ IsFiniteSet(T)
  <2>1. IsFiniteSet(U)
    BY DEF Laid
  <2> QED
    BY <1>7, <1>10, <2>1, FS_Subset
<1>12. segs[i].rule = None => Dears(segs, i) = Dears(segs, k)
  BY <1>3 DEF Dears
<1>13. ASSUME segs[i].rule # None
       PROVE  /\ f[i] \in U \ R /\ Spots(f, Ruled(segs, i)) = R \cup {f[i]}
              /\ f[i] \notin T /\ v[f[i]] = segs[i].rule.size
  <2>1. f[i] \in U /\ v[f[i]] = segs[i].rule.size
    BY <1>4, <1>5, <1>13
  <2>2. f[i] \notin R
    BY <1>2, <1>4, <1>6, <1>13 DEF Spots
  <2>3. Spots(f, Ruled(segs, i)) = R \cup {f[i]}
    BY <1>3, <1>13 DEF Spots
  <2> QED
    BY <1>10, <2>1, <2>2, <2>3
<1>14. ASSUME segs[i].rule # None, segs[i].rule.used /\ segs[i].rule.vital
       PROVE  /\ Dears(segs, i) = Dears(segs, k) \cup {i}
              /\ Spots(f, Dears(segs, i)) = T \cup {f[i]}
  <2>1. Dears(segs, i) = Dears(segs, k) \cup {i}
    BY <1>3, <1>14 DEF Dears
  <2> QED
    BY <2>1 DEF Spots
<1>15. ASSUME segs[i].rule # None, ~(segs[i].rule.used /\ segs[i].rule.vital)
       PROVE  Dears(segs, i) = Dears(segs, k)
  BY <1>3, <1>15 DEF Dears
<1> HIDE DEF R, T
<1>16. /\ IsFiniteSet(R) /\ IsFiniteSet(T) /\ R \subseteq U /\ T \subseteq U
       /\ Spots(f, Ruled(segs, n)) \subseteq U /\ Spots(f, Dears(segs, n)) \subseteq U
  BY <1>7, <1>10, <1>11
<1> QED
  BY <1>3, <1>10, <1>12, <1>13, <1>14, <1>15, <1>16 DEF R, T, i, n

\* What the walk does with a segment.
LEMMA CollectIs ==
  ASSUME NEW acc \in [out : Seq(Passages), bytes : Nat, spare : Nat, count : Nat],
         NEW s \in Passages
  PROVE  LET new == E!Collect(acc, s)
         IN  /\ new \in [out : Seq(Passages), bytes : Nat, spare : Nat, count : Nat]
             /\ \/ /\ s.rule = None
                   /\ new.out = Append(acc.out, s) /\ new.spare = acc.spare /\ new.count = acc.count
                \/ /\ s.rule # None /\ s.rule.used
                   /\ new.out = Append(acc.out, s) /\ new.count = acc.count + 1
                   /\ \/ new.spare = acc.spare
                      \/ s.rule.vital /\ new.spare = acc.spare + s.rule.size
                \/ /\ s.rule # None
                   /\ new.out = acc.out /\ new.count = acc.count + 1 /\ new.spare = acc.spare
                   /\ \/ acc.count > MaxRules
                      \/ ~s.rule.used
                      \/ ~(s.rule.vital /\ acc.spare + s.rule.size <= MaxProtected)
<1> DEFINE Accs == [out : Seq(Passages), bytes : Nat, spare : Nat, count : Nat]
           more == Append(acc.out, s)
<1>1. more \in Seq(Passages) /\ acc.out \in Seq(Passages)
  OBVIOUS
<1>2. acc.bytes \in Nat /\ acc.spare \in Nat /\ acc.count \in Nat
  OBVIOUS
<1>3. CASE s.rule = None
  <2>1. E!Collect(acc, s) = [acc EXCEPT !.out = more]
    BY <1>3 DEF E!Collect
  <2> DEFINE new == E!Collect(acc, s)
  <2> HIDE DEF more
  <2>2. /\ [acc EXCEPT !.out = more] \in Accs /\ [acc EXCEPT !.out = more].out = more
        /\ [acc EXCEPT !.out = more].spare = acc.spare
        /\ [acc EXCEPT !.out = more].count = acc.count
    BY <1>1
  <2>3. new \in Accs /\ new.out = more /\ new.spare = acc.spare /\ new.count = acc.count
    BY <2>1, <2>2
  <2> QED
    BY <1>3, <2>3 DEF more
<1>4. CASE s.rule # None
  <2>0. s.rule.size \in Nat
    BY <1>4, PassageType
  <2> DEFINE counted == [acc EXCEPT !.count = @ + 1]
  <2>1. counted \in Accs /\ counted.out = acc.out /\ counted.bytes = acc.bytes
        /\ counted.spare = acc.spare /\ counted.count = acc.count + 1
    BY <1>2
  <2>2. CASE acc.count > MaxRules \/ ~s.rule.used
    <3>1. E!Collect(acc, s) = counted
      BY <1>4, <2>2 DEF E!Collect
    <3> HIDE DEF counted
    <3> QED
      BY <1>4, <2>1, <2>2, <3>1
  <2>3. CASE ~(acc.count > MaxRules \/ ~s.rule.used)
    <3>1. E!Collect(acc, s) = E!Push(counted, s)
      BY <1>4, <2>3 DEF E!Collect
    <3> HIDE DEF counted
    <3> DEFINE kept == [counted EXCEPT !.out = Append(@, s)]
    <3>2. kept \in Accs /\ kept.out = more /\ kept.bytes = acc.bytes
          /\ kept.spare = acc.spare /\ kept.count = acc.count + 1
      <4>1. Append(counted.out, s) = more
        BY <2>1
      <4> HIDE DEF more
      <4> QED
        BY <1>1, <2>1, <4>1
    <3>3. E!Push(counted, s) =
            IF acc.bytes + s.rule.size <= MaxOutput THEN [kept EXCEPT !.bytes = @ + s.rule.size]
            ELSE IF s.rule.vital /\ acc.spare + s.rule.size <= MaxProtected
                 THEN [kept EXCEPT !.spare = @ + s.rule.size]
            ELSE counted
      BY <2>1 DEF E!Push
    <3> HIDE DEF kept
    <3>4. CASE acc.bytes + s.rule.size <= MaxOutput
      <4>1. E!Collect(acc, s) = [kept EXCEPT !.bytes = @ + s.rule.size]
        BY <3>1, <3>3, <3>4
      <4>2. kept.bytes + s.rule.size \in Nat
        BY <1>2, <2>0, <3>2
      <4> HIDE DEF more
      <4>3. /\ E!Collect(acc, s) \in Accs /\ E!Collect(acc, s).out = more
            /\ E!Collect(acc, s).count = acc.count + 1 /\ E!Collect(acc, s).spare = acc.spare
        BY <3>2, <4>1, <4>2
      <4> QED
        BY <1>4, <2>3, <4>3 DEF more
    <3>5. CASE ~(acc.bytes + s.rule.size <= MaxOutput)
               /\ s.rule.vital /\ acc.spare + s.rule.size <= MaxProtected
      <4>1. E!Collect(acc, s) = [kept EXCEPT !.spare = @ + s.rule.size]
        BY <3>1, <3>3, <3>5
      <4>2. kept.spare + s.rule.size \in Nat
        BY <1>2, <2>0, <3>2
      <4> HIDE DEF more
      <4>3. /\ E!Collect(acc, s) \in Accs /\ E!Collect(acc, s).out = more
            /\ E!Collect(acc, s).count = acc.count + 1
            /\ E!Collect(acc, s).spare = acc.spare + s.rule.size
        BY <3>2, <4>1, <4>2
      <4> QED
        BY <1>4, <2>3, <3>5, <4>3 DEF more
    <3>6. CASE ~(acc.bytes + s.rule.size <= MaxOutput)
               /\ ~(s.rule.vital /\ acc.spare + s.rule.size <= MaxProtected)
      <4>1. E!Collect(acc, s) = counted
        BY <3>1, <3>3, <3>6
      <4> QED
        BY <1>4, <2>1, <3>6, <4>1
    <3> QED
      BY <3>4, <3>5, <3>6
  <2> QED
    BY <2>2, <2>3
<1> QED
  BY <1>3, <1>4

LEMMA WalkOn ==
  ASSUME NEW segs, NEW U, NEW f, NEW v, Laid(segs, U, f, v), NEW k \in Nat, k + 1 \in DOMAIN segs,
         NEW acc, Walked(segs, f, v, k, acc)
  PROVE  Walked(segs, f, v, k + 1, E!Collect(acc, segs[k + 1]))
<1> DEFINE s == segs[k + 1]
           R == Spots(f, Ruled(segs, k))
           T == Spots(f, Dears(segs, k))
           R1 == Spots(f, Ruled(segs, k + 1))
           T1 == Spots(f, Dears(segs, k + 1))
           Rn == Spots(f, Ruled(segs, Len(segs)))
           Tn == Spots(f, Dears(segs, Len(segs)))
           Dear == s.rule # None /\ s.rule.used /\ s.rule.vital
           new == E!Collect(acc, s)
<1>1. segs \in Seq(Passages) /\ s \in Passages /\ IsFiniteSet(U) /\ v \in [U -> Nat]
  BY DEF Laid
<1>2. /\ IsFiniteSet(R) /\ IsFiniteSet(T) /\ R \subseteq U /\ T \subseteq U
      /\ R \subseteq Rn /\ T1 \subseteq Tn /\ Rn \subseteq U /\ Tn \subseteq U
  BY SpotsOn
<1>3. s.rule = None => R1 = R /\ T1 = T /\ Dears(segs, k + 1) = Dears(segs, k)
  BY SpotsOn
<1>4. s.rule # None => /\ f[k + 1] \in U /\ f[k + 1] \notin R /\ R1 = R \cup {f[k + 1]}
                       /\ f[k + 1] \notin T /\ v[f[k + 1]] = s.rule.size
  BY SpotsOn
<1>5. Dear => T1 = T \cup {f[k + 1]} /\ Dears(segs, k + 1) = Dears(segs, k) \cup {k + 1}
  BY SpotsOn
<1>6. ~Dear => T1 = T /\ Dears(segs, k + 1) = Dears(segs, k)
  <2>1. s.rule # None /\ ~(s.rule.used /\ s.rule.vital) => Dears(segs, k + 1) = Dears(segs, k)
    BY SpotsOn
  <2> QED
    BY <1>3, <2>1
<1>7. /\ acc \in [out : Seq(Passages), bytes : Nat, spare : Nat, count : Nat]
      /\ Retained(segs, k, acc.out) /\ acc.count = Cardinality(R) /\ acc.spare <= Sum(v, T)
      /\ Within(segs, f, v) => \A i \in Dears(segs, k) : Holds(acc.out, segs[i])
  BY DEF Walked
<1>8. Within(segs, f, v) => Cardinality(Rn) <= MaxRules /\ Sum(v, Tn) <= MaxProtected
  BY DEF Within
<1>9. /\ new \in [out : Seq(Passages), bytes : Nat, spare : Nat, count : Nat]
      /\ \/ /\ s.rule = None
            /\ new.out = Append(acc.out, s) /\ new.spare = acc.spare /\ new.count = acc.count
         \/ /\ s.rule # None /\ s.rule.used
            /\ new.out = Append(acc.out, s) /\ new.count = acc.count + 1
            /\ \/ new.spare = acc.spare
               \/ s.rule.vital /\ new.spare = acc.spare + s.rule.size
         \/ /\ s.rule # None
            /\ new.out = acc.out /\ new.count = acc.count + 1 /\ new.spare = acc.spare
            /\ \/ acc.count > MaxRules
               \/ ~s.rule.used
               \/ ~(s.rule.vital /\ acc.spare + s.rule.size <= MaxProtected)
  BY <1>1, <1>7, CollectIs
<1>10. s.rule = None \/ s.rule.used =>
         /\ Retained(segs, k + 1, Append(acc.out, s)) /\ Holds(Append(acc.out, s), s)
         /\ \A x : Holds(acc.out, x) => Holds(Append(acc.out, s), x)
  BY <1>1, <1>7, KeptMore
<1>11. Retained(segs, k + 1, acc.out)
  BY <1>7, KeptLess
<1>12. s = segs[k + 1] /\ (s.rule # None => s.rule.size \in Nat)
  BY <1>1, PassageType
<1>13. MaxRules \in Nat /\ MaxProtected \in Nat
  BY DocumentAssumption DEF DocumentAssumption
<1>14. Walked(segs, f, v, k + 1, new) <=>
         /\ new \in [out : Seq(Passages), bytes : Nat, spare : Nat, count : Nat]
         /\ Retained(segs, k + 1, new.out) /\ new.count = Cardinality(R1) /\ new.spare <= Sum(v, T1)
         /\ Within(segs, f, v) => \A i \in Dears(segs, k + 1) : Holds(new.out, segs[i])
  BY DEF Walked
<1> HIDE DEF R, T, R1, T1, Rn, Tn, s, new
<1>15. Cardinality(R) \in Nat /\ Cardinality(R) <= Cardinality(Rn) /\ Cardinality(Rn) \in Nat
  BY <1>1, <1>2, FS_Subset, FS_CardinalityType
<1>16. s.rule # None => Cardinality(R1) = Cardinality(R) + 1
  BY <1>2, <1>4, FS_AddElement
<1>17. IsFiniteSet(T1) /\ IsFiniteSet(Tn) /\ T1 \subseteq U
  BY <1>1, <1>2, FS_Subset
<1>18. Sum(v, T) \in Nat /\ Sum(v, T1) \in Nat /\ Sum(v, Tn) \in Nat
  BY <1>1, <1>2, <1>17, SumIsNat
<1>19. Sum(v, T1) <= Sum(v, Tn)
  <2>1. \A x \in T1 : v[x] <= v[x]
    BY <1>1, <1>17
  <2> QED
    BY <1>1, <1>2, <1>17, <2>1, SumGrows
<1>20. Dear => Sum(v, T1) = s.rule.size + Sum(v, T)
  <2> SUFFICES ASSUME Dear PROVE Sum(v, T1) = s.rule.size + Sum(v, T)
    OBVIOUS
  <2>1. f[k + 1] \in T1 /\ T1 \ {f[k + 1]} = T /\ v[f[k + 1]] = s.rule.size
    BY <1>4, <1>5
  <2>2. Sum(v, T1) = v[f[k + 1]] + Sum(v, T1 \ {f[k + 1]})
    BY <1>1, <1>17, <2>1, SumTakes
  <2> QED
    BY <2>1, <2>2
<1>21. Retained(segs, k + 1, new.out)
  BY <1>9, <1>10, <1>11
<1>22. new.count = Cardinality(R1)
  BY <1>3, <1>7, <1>9, <1>16
<1>23. acc.spare \in Nat /\ acc.count \in Nat /\ new.spare \in Nat
  BY <1>7, <1>9
<1>24. new.spare <= Sum(v, T1)
  <2>1. CASE Dear
    <3>1. new.spare = acc.spare \/ new.spare = acc.spare + s.rule.size
      BY <1>9
    <3>2. s.rule.size \in Nat
      BY <1>12, <2>1
    <3> QED
      BY <1>7, <1>18, <1>20, <1>23, <2>1, <3>1, <3>2
  <2>2. CASE ~Dear
    <3>1. new.spare = acc.spare
      BY <1>9, <2>2
    <3> QED
      BY <1>6, <1>7, <2>2, <3>1
  <2> QED
    BY <2>1, <2>2
<1>25. ASSUME Within(segs, f, v), Dear PROVE Holds(new.out, s)
  <2>1. s.rule.size \in Nat
    BY <1>12, <1>25
  <2>2. ~(acc.count > MaxRules)
    BY <1>7, <1>8, <1>13, <1>15, <1>25
  <2>3. acc.spare + s.rule.size <= MaxProtected
    <3> DEFINE x == acc.spare
               y == s.rule.size
               a == Sum(v, T)
               b == Sum(v, T1)
               c == Sum(v, Tn)
    <3>1. x \in Nat /\ y \in Nat /\ a \in Nat /\ b \in Nat /\ c \in Nat
      BY <1>18, <1>23, <2>1
    <3>2. x <= a /\ b = y + a /\ b <= c /\ c <= MaxProtected
      BY <1>7, <1>8, <1>19, <1>20, <1>25
    <3> HIDE DEF x, y, a, b, c
    <3>3. x + y <= MaxProtected
      BY <1>13, <3>1, <3>2
    <3> QED
      BY <3>3 DEF x, y
  <2>4. new.out = Append(acc.out, s)
    BY <1>9, <1>25, <2>2, <2>3
  <2> QED
    BY <1>10, <1>25, <2>4
<1>26. ASSUME Within(segs, f, v), NEW i \in Dears(segs, k) PROVE Holds(new.out, segs[i])
  <2>1. Holds(acc.out, segs[i])
    BY <1>7, <1>26
  <2>2. new.out = acc.out \/ (new.out = Append(acc.out, s) /\ (s.rule = None \/ s.rule.used))
    BY <1>9
  <2> QED
    BY <1>10, <2>1, <2>2
<1>27. Within(segs, f, v) => \A i \in Dears(segs, k + 1) : Holds(new.out, segs[i])
  <2> SUFFICES ASSUME Within(segs, f, v), NEW i \in Dears(segs, k + 1)
               PROVE  Holds(new.out, segs[i])
    OBVIOUS
  <2>1. i \in Dears(segs, k) \/ (Dear /\ i = k + 1)
    BY <1>5, <1>6
  <2> QED
    BY <1>12, <1>25, <1>26, <2>1
<1> QED
  BY <1>9, <1>14, <1>21, <1>22, <1>24, <1>27 DEF new, s

\* The walk of a whole page.
LEMMA WalkIs ==
  ASSUME NEW segs, NEW U, NEW f, NEW v, Laid(segs, U, f, v)
  PROVE  Walked(segs, f, v, Len(segs), E!FoldLeft(E!Collect, E!Start, segs))
<1>1. Len(segs) \in Nat /\ DOMAIN segs = 1..Len(segs)
  BY DEF Laid
<1> DEFINE Fine(k) == Walked(segs, f, v, k, Fold(segs, 1..k))
           Bad == {k \in 0..Len(segs) : ~Fine(k)}
<1>2. Fine(0)
  <2>1. 1..0 = {} /\ Fold(segs, 1..0) = E!Start
    <3>1. 1..0 = {}
      OBVIOUS
    <3> QED
      BY <3>1, FoldNone
  <2>2. Ruled(segs, 0) = {} /\ Dears(segs, 0) = {}
    BY <2>1 DEF Ruled, Dears
  <2>3. Spots(f, {}) = {}
    BY DEF Spots
  <2>4. Cardinality({}) = 0 /\ Sum(v, {}) = 0
    BY FS_EmptySet, SumOfNone
  <2>5. E!Start \in [out : Seq(Passages), bytes : Nat, spare : Nat, count : Nat]
        /\ E!Start.out = <<>> /\ E!Start.count = 0 /\ E!Start.spare = 0
    BY DEF E!Start
  <2>6. Retained(segs, 0, <<>>)
    <3>1. Follows(segs, 0, <<>>, <<>>)
      BY DEF Follows
    <3> QED
      BY <3>1 DEF Retained
  <2>7. Walked(segs, f, v, 0, E!Start)
    <3>1. 0 = Cardinality(Spots(f, Ruled(segs, 0))) /\ 0 <= Sum(v, Spots(f, Dears(segs, 0)))
      BY <2>2, <2>3, <2>4
    <3>2. \A i \in Dears(segs, 0) : Holds(<<>>, segs[i])
      BY <2>2
    <3> QED
      BY <2>5, <2>6, <3>1, <3>2 DEF Walked
  <2> QED
    BY <2>1, <2>7
<1>3. ASSUME Bad # {} PROVE FALSE
  <2>1. PICK n \in Bad : \A k \in Bad : n <= k
    <3>1. Bad \in SUBSET Nat
      OBVIOUS
    <3> HIDE DEF Bad
    <3> QED
      BY <1>3, <3>1, Least
  <2>2. n # 0 /\ n \in 0..Len(segs) /\ ~Fine(n)
    BY <1>2, <2>1
  <2>3. n \in Nat \ {0} /\ n - 1 \in Nat /\ n - 1 \in 0..Len(segs) /\ ~(n <= n - 1) /\ (n - 1) + 1 = n
        /\ (n - 1) + 1 \in DOMAIN segs
    BY <1>1, <2>2
  <2>4. Fine(n - 1)
    BY <2>1, <2>3
  <2>5. Fold(segs, 1..n) = E!Collect(Fold(segs, 1..(n - 1)), segs[n])
    BY <2>3, FoldNext
  <2> DEFINE m == n - 1
             acc == Fold(segs, 1..m)
  <2>6. m \in Nat /\ m + 1 \in DOMAIN segs /\ m + 1 = n /\ Walked(segs, f, v, m, acc)
    BY <2>3, <2>4
  <2> HIDE DEF m
  <2>7. Walked(segs, f, v, m + 1, E!Collect(acc, segs[m + 1]))
    <3> HIDE DEF acc
    <3> QED
      BY <2>6, WalkOn
  <2>8. Fine(n)
    BY <2>5, <2>6, <2>7 DEF m
  <2> QED
    BY <2>2, <2>8
<1>4. Fine(Len(segs))
  BY <1>1, <1>3
<1>5. E!FoldLeft(E!Collect, E!Start, segs) = Fold(segs, DOMAIN segs)
  BY FoldIs
<1> QED
  BY <1>1, <1>4, <1>5

-----------------------------------------------------------------------------
(***************************************************************************)
(* What the profiler has for a mark                                        *)
(***************************************************************************)
LinkedRules == \A s \in Linked : s.rules \in Seq(Authored)

LEMMA RulesType == LinkedRules
  BY DocumentAssumption DEF DocumentAssumption, LinkedRules

\* s are members of rs, in their order, that the page uses.
Picks(rs, s, t) ==
    /\ t \in [DOMAIN s -> DOMAIN rs]
    /\ \A k \in DOMAIN s : s[k] = rs[t[k]] /\ rs[t[k]].used
    /\ \A k, l \in DOMAIN s : k < l => t[k] < t[l]

LEMMA UsedIs ==
  ASSUME NEW rs \in Seq(Authored)
  PROVE  E!Used(rs) \in Seq(Authored) /\ \E t : Picks(rs, E!Used(rs), t)
<1> DEFINE ws == [i \in DOMAIN rs |-> IF rs[i].used THEN <<rs[i]>> ELSE <<>>]
           s == E!Used(rs)
<1>1. Len(rs) \in Nat /\ DOMAIN rs = 1..Len(rs)
  OBVIOUS
<1>2. \A i \in DOMAIN rs : ws[i] \in Seq(Authored) /\ (rs[i].used \/ ws[i] = <<>>)
                           /\ \A j \in DOMAIN ws[i] : j = 1 /\ rs[i].used /\ ws[i][j] = rs[i]
  <2> SUFFICES ASSUME NEW i \in DOMAIN rs
               PROVE  ws[i] \in Seq(Authored) /\ (rs[i].used \/ ws[i] = <<>>)
                      /\ \A j \in DOMAIN ws[i] : j = 1 /\ rs[i].used /\ ws[i][j] = rs[i]
    OBVIOUS
  <2>1. CASE rs[i].used
    <3>1. ws[i] = <<rs[i]>> /\ rs[i] \in Authored
      BY <2>1
    <3> HIDE DEF ws
    <3> QED
      BY <2>1, <3>1
  <2>2. CASE ~rs[i].used
    <3>1. ws[i] = <<>>
      BY <2>2
    <3> HIDE DEF ws
    <3> QED
      BY <2>2, <3>1
  <2> QED
    BY <2>1, <2>2
<1>3. DOMAIN ws = DOMAIN rs
  OBVIOUS
<1>4. s = E!FlattenSeq(ws)
  BY DEF E!Used
<1> HIDE DEF ws, s
<1>5. ws \in Seq(Seq(Authored))
  <2>1. ws = [i \in 1..Len(rs) |-> ws[i]]
    BY <1>1, <1>3 DEF ws
  <2>2. \A i \in 1..Len(rs) : ws[i] \in Seq(Authored)
    BY <1>1, <1>2
  <2> QED
    BY <1>1, <2>1, <2>2
<1>6. s \in Seq(Authored)
  BY <1>4, <1>5, Flattened
<1>7. PICK f : Strings(ws, Len(ws), s, f)
  BY <1>4, <1>5, Flattened
<1> DEFINE t == [k \in DOMAIN s |-> f[k][1]]
<1>8. \A k \in DOMAIN s : /\ f[k] \in (DOMAIN rs) \X Nat /\ f[k][1] \in DOMAIN rs
                          /\ f[k][2] = 1 /\ s[k] = rs[f[k][1]] /\ rs[f[k][1]].used
  <2> TAKE k \in DOMAIN s
  <2>1. f[k] \in (DOMAIN ws) \X Nat /\ f[k][2] \in DOMAIN ws[f[k][1]] /\ s[k] = ws[f[k][1]][f[k][2]]
    BY <1>7 DEF Strings, Pairs
  <2>2. f[k][1] \in DOMAIN rs
    BY <1>3, <2>1
  <2> QED
    BY <1>2, <1>3, <2>1, <2>2
<1>9. \A k, l \in DOMAIN s : k < l => f[k][1] < f[l][1]
  <2> TAKE k, l \in DOMAIN s
  <2> HAVE k < l
  <2>1. E!Earlier(f[k], f[l])
    BY <1>7 DEF Strings
  <2>2. f[k][2] = 1 /\ f[l][2] = 1
    BY <1>8
  <2> QED
    BY <2>1, <2>2 DEF E!Earlier
<1>10. Picks(rs, s, t)
  <2>1. \A k \in DOMAIN s : t[k] = f[k][1]
    OBVIOUS
  <2>2. t \in [DOMAIN s -> DOMAIN rs]
    BY <1>8
  <2> HIDE DEF t
  <2> QED
    BY <1>8, <1>9, <2>1, <2>2 DEF Picks
<1> QED
  BY <1>6, <1>10 DEF s

\* Nobody else goes by this path.
Alone(known, sheet) ==
    \A k, l \in DOMAIN known : known[k].path = sheet.path /\ known[l].path = sheet.path =>
                                  k = l /\ known[k] = sheet

LEMMA SlicesIs ==
  ASSUME NEW known \in Seq(Linked), NEW sheet \in Linked
  PROVE  /\ E!Slices(known, sheet.path) \in Seq(Authored)
         /\ Alone(known, sheet) => \E t : Picks(sheet.rules, E!Slices(known, sheet.path), t)
<1> DEFINE us == [i \in DOMAIN known |->
                    IF known[i].path = sheet.path THEN E!Used(known[i].rules) ELSE <<>>]
           s == E!Slices(known, sheet.path)
           mine == E!Used(sheet.rules)
<1>1. Len(known) \in Nat /\ DOMAIN known = 1..Len(known)
  OBVIOUS
<1>2. \A i \in DOMAIN known : known[i] \in Linked
  OBVIOUS
<1>3. \A x \in Linked : E!Used(x.rules) \in Seq(Authored)
  BY RulesType, UsedIs DEF LinkedRules
<1>4. \A i \in DOMAIN known : us[i] \in Seq(Authored)
  <2> SUFFICES ASSUME NEW i \in DOMAIN known PROVE us[i] \in Seq(Authored)
    OBVIOUS
  <2>1. E!Used(known[i].rules) \in Seq(Authored)
    BY <1>2, <1>3
  <2> QED
    BY <2>1
<1>5. DOMAIN us = DOMAIN known
  OBVIOUS
<1>6. s = E!FlattenSeq(us)
  BY DEF E!Slices
<1>7. \A i \in DOMAIN known : us[i] = IF known[i].path = sheet.path THEN E!Used(known[i].rules) ELSE <<>>
  OBVIOUS
<1>8. us \in Seq(Seq(Authored))
  <2>1. us = [i \in 1..Len(known) |-> us[i]]
    BY <1>1
  <2> HIDE DEF us
  <2>2. \A i \in 1..Len(known) : us[i] \in Seq(Authored)
    BY <1>1, <1>4
  <2> QED
    BY <1>1, <2>1, <2>2
<1> HIDE DEF us, s, mine
<1>9. s \in Seq(Authored)
  BY <1>6, <1>8, Flattened
<1>10. PICK f : Strings(us, Len(us), s, f)
  BY <1>6, <1>8, Flattened
<1>11. ASSUME Alone(known, sheet) PROVE \E t : Picks(sheet.rules, s, t)
  <2>1. PICK t : Picks(sheet.rules, mine, t)
    BY RulesType, UsedIs DEF LinkedRules, mine
  <2> DEFINE g == [k \in DOMAIN s |-> t[f[k][2]]]
  <2>2. \A k \in DOMAIN s : /\ f[k][1] \in DOMAIN known /\ known[f[k][1]].path = sheet.path
                            /\ f[k][2] \in DOMAIN mine /\ f[k][2] \in Nat /\ s[k] = mine[f[k][2]]
    <3> TAKE k \in DOMAIN s
    <3>1. f[k] \in (DOMAIN us) \X Nat /\ f[k][2] \in DOMAIN us[f[k][1]] /\ s[k] = us[f[k][1]][f[k][2]]
      BY <1>10 DEF Strings, Pairs
    <3>2. f[k][1] \in DOMAIN known /\ f[k][2] \in Nat
      BY <1>5, <3>1
    <3>3. known[f[k][1]].path = sheet.path
      <4>1. ASSUME known[f[k][1]].path # sheet.path PROVE FALSE
        <5>1. us[f[k][1]] = <<>>
          BY <1>7, <3>2, <4>1
        <5> QED
          BY <3>1, <5>1
      <4> QED
        BY <4>1
    <3>4. known[f[k][1]] = sheet
      BY <1>11, <3>2, <3>3 DEF Alone
    <3>5. us[f[k][1]] = mine
      BY <1>7, <3>2, <3>3, <3>4 DEF mine
    <3> QED
      BY <3>1, <3>2, <3>3, <3>5
  <2>3. \A k, l \in DOMAIN s : k < l => f[k][2] < f[l][2]
    <3> TAKE k, l \in DOMAIN s
    <3> HAVE k < l
    <3>1. E!Earlier(f[k], f[l])
      BY <1>10 DEF Strings
    <3>2. f[k][1] = f[l][1] /\ f[k][1] \in Nat
      <4>1. f[k][1] = f[l][1]
        BY <1>11, <2>2 DEF Alone
      <4>2. f[k][1] \in 1..Len(known)
        BY <1>1, <2>2
      <4> QED
        BY <1>1, <4>1, <4>2
    <3> QED
      BY <3>1, <3>2 DEF E!Earlier
  <2>4. g \in [DOMAIN s -> DOMAIN sheet.rules]
    <3> SUFFICES ASSUME NEW k \in DOMAIN s PROVE t[f[k][2]] \in DOMAIN sheet.rules
      OBVIOUS
    <3> QED
      BY <2>1, <2>2 DEF Picks
  <2>5. \A k \in DOMAIN s : g[k] = t[f[k][2]]
    OBVIOUS
  <2> HIDE DEF g
  <2>6. \A k \in DOMAIN s : s[k] = sheet.rules[g[k]] /\ sheet.rules[g[k]].used
    BY <2>1, <2>2, <2>5 DEF Picks
  <2>7. \A k, l \in DOMAIN s : k < l => g[k] < g[l]
    <3> TAKE k, l \in DOMAIN s
    <3> HAVE k < l
    <3>1. f[k][2] < f[l][2] /\ f[k][2] \in DOMAIN mine /\ f[l][2] \in DOMAIN mine
      BY <2>2, <2>3
    <3>2. t[f[k][2]] < t[f[l][2]]
      BY <2>1, <3>1 DEF Picks
    <3> QED
      BY <2>5, <3>2
  <2> QED
    BY <2>4, <2>6, <2>7 DEF Picks
<1> QED
  BY <1>9, <1>11 DEF s

-----------------------------------------------------------------------------
(***************************************************************************)
(* The walk through the sheets of a page                                   *)
(***************************************************************************)
Pieces(d) == [i \in DOMAIN d |-> E!Segments(d[i])]
Sizes(d) == [p \in E!Places(d) |-> E!At(d, p).size]

LEMMA PlaceIs ==
  ASSUME NEW d \in Seq(Linked), NEW p
  PROVE  p \in E!Places(d) <=> /\ p = <<p[1], p[2]>> /\ p[1] \in DOMAIN d
                               /\ p[2] \in DOMAIN d[p[1]].rules
BY DEF E!Places

LEMMA PlaceType ==
  ASSUME NEW d \in Seq(Linked)
  PROVE  /\ IsFiniteSet(E!Places(d)) /\ Sizes(d) \in [E!Places(d) -> Nat]
         /\ \A p \in E!Places(d) : /\ E!At(d, p) \in Authored /\ p[1] \in Nat /\ p[2] \in Nat
                                   /\ d[p[1]] \in Linked
<1>1. \A i \in DOMAIN d : i \in Nat /\ d[i] \in Linked
  OBVIOUS
<1>2. \A s \in Linked : s.rules \in Seq(Authored)
  BY RulesType DEF LinkedRules
<1>3. \A i \in DOMAIN d : \A j \in DOMAIN d[i].rules : j \in Nat /\ d[i].rules[j] \in Authored
  BY <1>1, <1>2
<1>4. \A p \in E!Places(d) : /\ E!At(d, p) \in Authored /\ p[1] \in Nat /\ p[2] \in Nat
                             /\ d[p[1]] \in Linked
  <2> TAKE p \in E!Places(d)
  <2>1. p[1] \in DOMAIN d /\ p[2] \in DOMAIN d[p[1]].rules
    BY PlaceIs
  <2> QED
    BY <1>1, <1>3, <2>1 DEF E!At
<1>5. Sizes(d) \in [E!Places(d) -> Nat]
  <2>1. \A p \in E!Places(d) : E!At(d, p).size \in Nat
    BY <1>4, DocumentAssumption DEF DocumentAssumption
  <2> QED
    BY <2>1 DEF Sizes
<1>6. IsFiniteSet(E!Places(d))
  <2> DEFINE Line(i) == {i} \X DOMAIN d[i].rules
             Rows == {Line(i) : i \in DOMAIN d}
  <2>1. IsFiniteSet(Rows)
    <3>1. IsFiniteSet(DOMAIN d)
      <4>1. DOMAIN d = 1..Len(d) /\ Len(d) \in Nat
        OBVIOUS
      <4> QED
        BY <4>1, FS_Interval
    <3> DEFINE row == [i \in DOMAIN d |-> Line(i)]
    <3> HIDE DEF Line
    <3>2. row \in Surjection(DOMAIN d, Rows)
      BY DEF Surjection
    <3> HIDE DEF row, Rows
    <3> QED
      BY <3>1, <3>2, FS_Surjection
  <2>2. \A i \in DOMAIN d : IsFiniteSet(Line(i))
    <3> SUFFICES ASSUME NEW i \in DOMAIN d PROVE IsFiniteSet(Line(i))
      OBVIOUS
    <3>1. d[i].rules \in Seq(Authored)
      BY <1>1, <1>2
    <3>2. DOMAIN d[i].rules = 1..Len(d[i].rules) /\ Len(d[i].rules) \in Nat
      BY <3>1
    <3>3. IsFiniteSet(DOMAIN d[i].rules) /\ IsFiniteSet({i})
      <4> DEFINE n == Len(d[i].rules)
      <4>1. DOMAIN d[i].rules = 1..n /\ n \in Nat
        BY <3>2
      <4> HIDE DEF n
      <4>2. IsFiniteSet(1..n)
        BY <4>1, FS_Interval
      <4>3. IsFiniteSet({i})
        BY FS_Singleton
      <4> QED
        BY <4>1, <4>2, <4>3
    <3> DEFINE A == {i}
               B == DOMAIN d[i].rules
    <3>4. IsFiniteSet(A) /\ IsFiniteSet(B)
      BY <3>3
    <3>5. Line(i) = A \X B
      OBVIOUS
    <3> HIDE DEF A, B, Line
    <3>6. IsFiniteSet(A \X B)
      BY <3>4, FS_Product
    <3> QED
      BY <3>5, <3>6
  <2>3. E!Places(d) = UNION Rows
    BY DEF E!Places
  <2> HIDE DEF Line
  <2>4. \A r \in Rows : IsFiniteSet(r)
    BY <2>2
  <2> QED
    BY <2>1, <2>3, <2>4, FS_UNION
<1> QED
  BY <1>4, <1>5, <1>6

LEMMA PiecesIs ==
  ASSUME NEW d \in Seq(Linked)
  PROVE  /\ Pieces(d) \in Seq(Seq(Passages)) /\ DOMAIN Pieces(d) = DOMAIN d
         /\ \A i \in DOMAIN d :
              \/ /\ d[i].access = "own" /\ DOMAIN Pieces(d)[i] = DOMAIN d[i].rules
                 /\ \A j \in DOMAIN d[i].rules : Pieces(d)[i][j] = E!Segment(d[i].rules[j])
              \/ d[i].access = "foreign" /\ Pieces(d)[i] = <<E!Mark(d[i])>>
              \/ d[i].access \notin {"own", "foreign"} /\ Pieces(d)[i] = <<>>
<1> DEFINE ps == Pieces(d)
<1>1. Len(d) \in Nat /\ DOMAIN d = 1..Len(d) /\ DOMAIN ps = DOMAIN d
  BY DEF Pieces
<1>2. \A i \in DOMAIN d : d[i] \in Linked
  OBVIOUS
<1>3. \A i \in DOMAIN d : ps[i] = E!Segments(d[i])
  BY DEF Pieces
<1>4. \A i \in DOMAIN d :
        /\ ps[i] \in Seq(Passages)
        /\ \/ /\ d[i].access = "own" /\ DOMAIN ps[i] = DOMAIN d[i].rules
              /\ \A j \in DOMAIN d[i].rules : ps[i][j] = E!Segment(d[i].rules[j])
           \/ d[i].access = "foreign" /\ ps[i] = <<E!Mark(d[i])>>
           \/ d[i].access \notin {"own", "foreign"} /\ ps[i] = <<>>
  <2> TAKE i \in DOMAIN d
  <2>1. CASE d[i].access = "own"
    <3>1. ps[i] = [j \in DOMAIN d[i].rules |-> E!Segment(d[i].rules[j])]
      BY <1>3, <2>1 DEF E!Segments
    <3>2. d[i].rules \in Seq(Authored)
      BY <1>2, RulesType DEF LinkedRules
    <3>3. \A j \in DOMAIN d[i].rules : E!Segment(d[i].rules[j]) \in Passages
      BY <3>2 DEF Passages
    <3>4. DOMAIN d[i].rules = 1..Len(d[i].rules) /\ Len(d[i].rules) \in Nat
      BY <3>2
    <3> DEFINE n == Len(d[i].rules)
               x == ps[i]
    <3> HIDE DEF ps
    <3>5. DOMAIN x = 1..n /\ n \in Nat /\ \A j \in 1..n : x[j] \in Passages
      BY <3>1, <3>3, <3>4
    <3>6. x = [j \in 1..n |-> x[j]]
      BY <3>1, <3>4
    <3> HIDE DEF x, n
    <3>7. x \in Seq(Passages)
      BY <3>5, <3>6
    <3> QED
      BY <2>1, <3>1, <3>7 DEF x
  <2>2. CASE d[i].access = "foreign"
    <3>1. ps[i] = <<E!Mark(d[i])>>
      BY <1>3, <2>2 DEF E!Segments
    <3>2. E!Mark(d[i]) \in Passages
      BY <1>2 DEF Passages
    <3> QED
      BY <2>2, <3>1, <3>2
  <2>3. CASE d[i].access \notin {"own", "foreign"}
    <3>1. ps[i] = <<>>
      BY <1>3, <2>3 DEF E!Segments
    <3> QED
      BY <2>3, <3>1
  <2> QED
    BY <2>1, <2>2, <2>3
<1>5. ps \in Seq(Seq(Passages))
  <2>1. ps = [i \in 1..Len(d) |-> ps[i]]
    BY <1>1 DEF Pieces
  <2> HIDE DEF ps
  <2>2. \A i \in 1..Len(d) : ps[i] \in Seq(Passages)
    BY <1>1, <1>4
  <2> QED
    BY <1>1, <2>1, <2>2
<1> QED
  BY <1>1, <1>4, <1>5

\* What is known of a segment by its place: a rule of a sheet that may be read, or a mark.
IsAt(d, s, p) ==
    \/ /\ s.rule # None /\ p \in E!Readable(d) /\ s.rule = E!At(d, p)
    \/ /\ s.rule = None /\ p[1] \in DOMAIN d /\ d[p[1]].access = "foreign" /\ p[2] = 1
       /\ s.path = d[p[1]].path

LEMMA PieceIsAt ==
  ASSUME NEW d \in Seq(Linked), NEW p \in Pairs(Pieces(d))
  PROVE  IsAt(d, Pieces(d)[p[1]][p[2]], p)
<1> DEFINE s == Pieces(d)[p[1]][p[2]]
<1>1. /\ p = <<p[1], p[2]>> /\ p[1] \in DOMAIN d /\ p[2] \in DOMAIN Pieces(d)[p[1]]
  BY PiecesIs DEF Pairs
<1> DEFINE i == p[1]
           j == p[2]
<1>2. CASE d[i].access = "own" /\ DOMAIN Pieces(d)[i] = DOMAIN d[i].rules
           /\ \A x \in DOMAIN d[i].rules : Pieces(d)[i][x] = E!Segment(d[i].rules[x])
  <2>1. p \in E!Places(d) /\ s = E!Segment(E!At(d, p))
    BY <1>1, <1>2, PlaceIs DEF E!At
  <2>2. s.rule = E!At(d, p)
    BY <2>1 DEF E!Segment
  <2>3. s.rule # None
    BY <2>1, <2>2, PlaceType, DocumentAssumption DEF DocumentAssumption
  <2>4. p \in E!Readable(d)
    BY <1>2, <2>1 DEF E!Readable
  <2> QED
    BY <2>2, <2>3, <2>4 DEF IsAt
<1>3. CASE d[i].access = "foreign" /\ Pieces(d)[i] = <<E!Mark(d[i])>>
  <2>1. j = 1 /\ s = E!Mark(d[i])
    BY <1>1, <1>3
  <2>2. s.rule = None /\ s.path = d[i].path
    BY <2>1 DEF E!Mark
  <2> HIDE DEF s
  <2> QED
    BY <1>1, <1>3, <2>1, <2>2 DEF IsAt, s
<1>4. CASE Pieces(d)[i] = <<>>
  BY <1>1, <1>4
<1> QED
  BY <1>1, <1>2, <1>3, <1>4, PiecesIs

\* The segments that are walked through.
Passed(d) == E!FlattenSeq(Pieces(d))

LEMMA PassedIs ==
  ASSUME NEW d \in Seq(Linked)
  PROVE  /\ Passed(d) \in Seq(Passages)
         /\ \E f : /\ \A i \in DOMAIN Passed(d) : IsAt(d, Passed(d)[i], f[i])
                   /\ \A i, j \in DOMAIN Passed(d) : i < j => E!Earlier(f[i], f[j])
                   /\ \A p \in E!Readable(d) : \E i \in DOMAIN Passed(d) : f[i] = p
<1> DEFINE segs == Passed(d)
           ps == Pieces(d)
<1>1. ps \in Seq(Seq(Passages)) /\ DOMAIN ps = DOMAIN d
  BY PiecesIs
<1>2. segs \in Seq(Passages)
  BY <1>1, Flattened DEF Passed
<1>3. PICK f : Strings(ps, Len(ps), segs, f)
  BY <1>1, Flattened DEF Passed
<1> HIDE DEF segs
<1>4. \A i \in DOMAIN segs : IsAt(d, segs[i], f[i])
  <2> TAKE i \in DOMAIN segs
  <2>1. f[i] \in Pairs(ps) /\ segs[i] = ps[f[i][1]][f[i][2]]
    BY <1>3 DEF Strings
  <2> QED
    BY <2>1, PieceIsAt
<1>5. \A i, j \in DOMAIN segs : i < j => E!Earlier(f[i], f[j])
  BY <1>3 DEF Strings
<1>6. \A p \in E!Readable(d) : \E i \in DOMAIN segs : f[i] = p
  <2> TAKE p \in E!Readable(d)
  <2>1. p \in E!Places(d) /\ d[p[1]].access = "own"
    BY DEF E!Readable
  <2>2. p = <<p[1], p[2]>> /\ p[1] \in DOMAIN d /\ p[2] \in DOMAIN d[p[1]].rules
        /\ p[1] \in Nat /\ p[2] \in Nat
    BY <2>1, PlaceIs, PlaceType
  <2>3. p[2] \in DOMAIN ps[p[1]]
    <3> HIDE DEF ps
    <3> QED
      BY <2>1, <2>2, PiecesIs DEF ps
  <2>4. p \in Pairs(ps)
    <3> HIDE DEF ps
    <3>1. <<p[1], p[2]>> \in (DOMAIN ps) \X Nat
      BY <1>1, <2>2
    <3> QED
      BY <2>2, <2>3, <3>1 DEF Pairs
  <2>5. Len(ps) \in Nat /\ DOMAIN ps = 1..Len(ps)
    BY <1>1
  <2>6. p[1] <= Len(ps)
    BY <1>1, <2>2, <2>5
  <2> QED
    BY <1>3, <2>4, <2>6 DEF Strings
<1> QED
  BY <1>2, <1>4, <1>5, <1>6 DEF segs

LEMMA EarlierIs ==
  ASSUME NEW p, NEW q, p[1] \in Nat, p[2] \in Nat, E!Earlier(p, q)
  PROVE  p # q
BY DEF E!Earlier

InEnvelopes(d) ==
    /\ E!SumFunctionOnSet(Sizes(d), E!Precious(d)) <= MaxProtected
    /\ Cardinality(E!Readable(d)) <= MaxRules

\* What the walk keeps stands in the page in the order in which it is kept, and no rule that
\* is precious is left out of a page within its envelopes.
LEMMA WalkKeeps ==
  ASSUME NEW d \in Seq(Linked)
  PROVE  LET W == E!Walk(d)
         IN  /\ W \in Seq(Passages)
             /\ \E g : /\ \A m \in DOMAIN W : /\ IsAt(d, W[m], g[m])
                                              /\ W[m].rule = None \/ W[m].rule.used
                       /\ \A m, n \in DOMAIN W : m < n => E!Earlier(g[m], g[n])
             /\ InEnvelopes(d) =>
                  \A p \in E!Precious(d) : \E m \in DOMAIN W : W[m].rule = E!At(d, p)
<1> DEFINE segs == Passed(d)
           n == Len(segs)
           U == E!Places(d)
           v == Sizes(d)
           W == E!Walk(d)
           acc == E!FoldLeft(E!Collect, E!Start, segs)
<1>0. W = acc.out
  BY DEF E!Walk, Passed, Pieces
<1>1. segs \in Seq(Passages)
  BY PassedIs
<1>2. PICK f : /\ \A i \in DOMAIN segs : IsAt(d, segs[i], f[i])
               /\ \A i, j \in DOMAIN segs : i < j => E!Earlier(f[i], f[j])
               /\ \A p \in E!Readable(d) : \E i \in DOMAIN segs : f[i] = p
  BY PassedIs
<1>3. n \in Nat /\ DOMAIN segs = 1..n
  BY <1>1
<1>4. IsFiniteSet(U) /\ v \in [U -> Nat]
  BY PlaceType
<1>5. \A p \in U : p[1] \in Nat /\ p[2] \in Nat
  BY PlaceType
<1>6. E!Readable(d) \subseteq U /\ E!Precious(d) \subseteq E!Readable(d)
  BY DEF E!Readable, E!Precious
<1> HIDE DEF segs, n, U, v, W, acc
<1>7. \A i \in Ruled(segs, n) : /\ i \in DOMAIN segs /\ segs[i].rule # None
                                /\ f[i] \in E!Readable(d) /\ segs[i].rule = E!At(d, f[i])
  <2> TAKE i \in Ruled(segs, n)
  <2>1. i \in DOMAIN segs /\ segs[i].rule # None
    BY <1>3 DEF Ruled
  <2>2. IsAt(d, segs[i], f[i])
    BY <1>2, <2>1
  <2> QED
    BY <2>1, <2>2 DEF IsAt
<1>8. \A i, j \in Ruled(segs, n) : f[i] = f[j] => i = j
  <2> SUFFICES ASSUME NEW i \in Ruled(segs, n), NEW j \in Ruled(segs, n), f[i] = f[j], i # j
               PROVE  FALSE
    OBVIOUS
  <2>1. i \in DOMAIN segs /\ j \in DOMAIN segs /\ i \in Nat /\ j \in Nat
    BY <1>3, <1>7
  <2>2. i < j \/ j < i
    BY <2>1
  <2>3. E!Earlier(f[i], f[j]) \/ E!Earlier(f[j], f[i])
    BY <1>2, <2>1, <2>2
  <2>4. f[i] \in U
    BY <1>6, <1>7
  <2>5. f[i][1] \in Nat /\ f[i][2] \in Nat
    BY <1>5, <2>4
  <2> QED
    BY <2>3, <2>5, EarlierIs
<1>9. Laid(segs, U, f, v)
  <2>1. \A i \in Ruled(segs, n) : f[i] \in U /\ v[f[i]] = segs[i].rule.size
    <3> TAKE i \in Ruled(segs, n)
    <3>1. f[i] \in U /\ segs[i].rule = E!At(d, f[i])
      BY <1>6, <1>7
    <3> QED
      BY <3>1 DEF v, U, Sizes
  <2> QED
    BY <1>1, <1>4, <1>8, <2>1 DEF Laid, n
<1>10. Walked(segs, f, v, n, acc)
  BY <1>9, WalkIs DEF n, acc
<1>11. W \in Seq(Passages)
  BY <1>0, <1>10 DEF Walked
<1>12. PICK h : Follows(segs, n, W, h)
  BY <1>0, <1>10 DEF Walked, Retained
<1> DEFINE g == [m \in DOMAIN W |-> f[h[m]]]
<1>13. \A m \in DOMAIN W : /\ h[m] \in DOMAIN segs /\ W[m] = segs[h[m]]
                           /\ segs[h[m]].rule = None \/ segs[h[m]].rule.used
  BY <1>3, <1>12 DEF Follows
<1>14. \A m \in DOMAIN W : g[m] = f[h[m]]
  OBVIOUS
<1> HIDE DEF g
<1>15. \A m \in DOMAIN W : IsAt(d, W[m], g[m]) /\ (W[m].rule = None \/ W[m].rule.used)
  <2> TAKE m \in DOMAIN W
  <2>1. IsAt(d, segs[h[m]], f[h[m]])
    BY <1>2, <1>13
  <2> QED
    BY <1>13, <1>14, <2>1
<1>16. \A m, k \in DOMAIN W : m < k => E!Earlier(g[m], g[k])
  <2> TAKE m, k \in DOMAIN W
  <2> HAVE m < k
  <2>1. h[m] < h[k]
    BY <1>12 DEF Follows
  <2>2. E!Earlier(f[h[m]], f[h[k]])
    BY <1>2, <1>13, <2>1
  <2> QED
    BY <1>14, <2>2
<1>17. ASSUME InEnvelopes(d)
       PROVE  \A p \in E!Precious(d) : \E m \in DOMAIN W : W[m].rule = E!At(d, p)
  <2>1. Spots(f, Ruled(segs, n)) \subseteq E!Readable(d)
    BY <1>7 DEF Spots
  <2>2. Spots(f, Dears(segs, n)) \subseteq E!Precious(d)
    <3> SUFFICES ASSUME NEW i \in Dears(segs, n) PROVE f[i] \in E!Precious(d)
      BY DEF Spots
    <3>1. i \in Ruled(segs, n) /\ segs[i].rule.used /\ segs[i].rule.vital
      BY DEF Dears
    <3>2. f[i] \in E!Readable(d) /\ E!At(d, f[i]).used /\ E!At(d, f[i]).vital /\ f[i] \in U
      BY <1>6, <1>7, <3>1
    <3> QED
      BY <3>2 DEF E!Precious, E!UsedPlaces, U
  <2>3. IsFiniteSet(E!Readable(d)) /\ IsFiniteSet(E!Precious(d)) /\ E!Precious(d) \subseteq U
    BY <1>4, <1>6, FS_Subset
  <2>4. Cardinality(Spots(f, Ruled(segs, n))) <= Cardinality(E!Readable(d))
        /\ Cardinality(Spots(f, Ruled(segs, n))) \in Nat /\ Cardinality(E!Readable(d)) \in Nat
    BY <2>1, <2>3, FS_Subset, FS_CardinalityType
  <2>5. Sum(v, Spots(f, Dears(segs, n))) <= Sum(v, E!Precious(d))
    <3>1. \A x \in Spots(f, Dears(segs, n)) : v[x] <= v[x]
      BY <1>4, <2>2, <2>3
    <3> QED
      BY <1>4, <2>2, <2>3, <3>1, SumGrows
  <2>6. Sum(v, Spots(f, Dears(segs, n))) \in Nat /\ Sum(v, E!Precious(d)) \in Nat
    <3>1. IsFiniteSet(Spots(f, Dears(segs, n))) /\ Spots(f, Dears(segs, n)) \subseteq U
      BY <2>2, <2>3, FS_Subset
    <3> QED
      BY <1>4, <2>3, <3>1, SumIsNat
  <2>7. Sum(v, E!Precious(d)) <= MaxProtected /\ Cardinality(E!Readable(d)) <= MaxRules
    BY <1>17 DEF InEnvelopes, Sum, v
  <2>8. MaxProtected \in Nat /\ MaxRules \in Nat
    BY DocumentAssumption DEF DocumentAssumption
  <2>9. Within(segs, f, v)
    BY <2>4, <2>5, <2>6, <2>7, <2>8 DEF Within, n
  <2>10. \A i \in Dears(segs, n) : Holds(W, segs[i])
    BY <1>0, <1>10, <2>9 DEF Walked
  <2> TAKE p \in E!Precious(d)
  <2>11. PICK i \in DOMAIN segs : f[i] = p
    BY <1>2, <1>6
  <2>12. IsAt(d, segs[i], p)
    BY <1>2, <2>11
  <2>13. d[p[1]].access = "own" /\ E!At(d, p).used /\ E!At(d, p).vital
    BY DEF E!Precious, E!UsedPlaces, E!Readable
  <2>14. segs[i].rule # None /\ segs[i].rule = E!At(d, p)
    BY <2>12, <2>13 DEF IsAt
  <2>15. i \in Dears(segs, n)
    BY <1>3, <2>13, <2>14 DEF Dears, Ruled
  <2>16. PICK m \in DOMAIN W : W[m] = segs[i]
    BY <2>10, <2>15 DEF Holds
  <2> QED
    BY <2>14, <2>16
<1> QED
  BY <1>11, <1>15, <1>16, <1>17 DEF W

-----------------------------------------------------------------------------
(***************************************************************************)
(* The rules that are stored                                               *)
(***************************************************************************)
\* StoredIsTheCascade, of an object.
IsCascade(rules, d, known) ==
    /\ known = None \/ ~E!Confused(d, known) =>
         /\ \A i \in DOMAIN rules : \E p \in E!UsedPlaces(d) : E!At(d, p) = rules[i]
         /\ \A i, j \in DOMAIN rules : i < j =>
               \E p, q \in E!UsedPlaces(d) :
                  E!At(d, p) = rules[i] /\ E!At(d, q) = rules[j] /\ E!Earlier(p, q)
    /\ InEnvelopes(d) => \A p \in E!Precious(d) : E!At(d, p) \in E!ToSet(rules)

Profiles == {None} \cup Seq(Linked)

\* What stands for a segment.
Filled(s, known) ==
    IF s.rule # None THEN <<s.rule>>
    ELSE IF known = None THEN <<>>
    ELSE E!Slices(known, s.path)

LEMMA SegmentFilled ==
  ASSUME NEW d \in Seq(Linked), NEW known \in Profiles, NEW s \in Passages, NEW p, IsAt(d, s, p),
         s.rule = None \/ s.rule.used
  PROVE  /\ Filled(s, known) \in Seq(Authored)
         /\ s.rule # None => Filled(s, known) = <<s.rule>> /\ p \in E!UsedPlaces(d)
         /\ s.rule = None /\ (known = None \/ ~E!Confused(d, known)) =>
               \E t : Picks(d[p[1]].rules, Filled(s, known), t)
<1>1. CASE s.rule # None
  <2>1. Filled(s, known) = <<s.rule>> /\ s.rule \in Authored
    BY <1>1, PassageType DEF Filled
  <2>2. p \in E!Places(d) /\ E!At(d, p).used
    BY <1>1 DEF IsAt, E!Readable
  <2> QED
    BY <1>1, <2>1, <2>2 DEF E!UsedPlaces
<1>2. CASE s.rule = None
  <2>1. p[1] \in DOMAIN d /\ d[p[1]].access = "foreign" /\ s.path = d[p[1]].path
        /\ d[p[1]] \in Linked
    BY <1>2 DEF IsAt
  <2>2. CASE known = None
    <3>1. Filled(s, known) = <<>>
      BY <1>2, <2>2 DEF Filled
    <3>2. Picks(d[p[1]].rules, <<>>, <<>>)
      BY DEF Picks
    <3> QED
      BY <1>2, <3>1, <3>2
  <2>3. CASE known # None
    <3>1. known \in Seq(Linked)
      BY <2>3 DEF Profiles
    <3> DEFINE sheet == d[p[1]]
    <3>2. Filled(s, known) = E!Slices(known, sheet.path)
      BY <1>2, <2>1, <2>3 DEF Filled
    <3>3. ~E!Confused(d, known) => Alone(known, sheet)
      BY <2>1 DEF E!Confused, Alone
    <3>4. sheet \in Linked
      BY <2>1
    <3> HIDE DEF sheet
    <3>5. /\ E!Slices(known, sheet.path) \in Seq(Authored)
          /\ Alone(known, sheet) => \E t : Picks(sheet.rules, E!Slices(known, sheet.path), t)
      BY <3>1, <3>4, SlicesIs
    <3> QED
      BY <1>2, <2>3, <3>2, <3>3, <3>5 DEF sheet
  <2> QED
    BY <2>2, <2>3
<1> QED
  BY <1>1, <1>2

LEMMA SplicedIs ==
  ASSUME NEW d \in Seq(Linked), NEW known \in Profiles
  PROVE  IsCascade(E!Spliced(E!Walk(d), known), d, known)
<1> DEFINE W == E!Walk(d)
           qs == [m \in DOMAIN W |-> Filled(W[m], known)]
           rules == E!Spliced(W, known)
<1>1. /\ W \in Seq(Passages)
      /\ InEnvelopes(d) => \A p \in E!Precious(d) : \E m \in DOMAIN W : W[m].rule = E!At(d, p)
  BY WalkKeeps
<1>2. PICK g : /\ \A m \in DOMAIN W : IsAt(d, W[m], g[m]) /\ (W[m].rule = None \/ W[m].rule.used)
               /\ \A m, n \in DOMAIN W : m < n => E!Earlier(g[m], g[n])
  BY WalkKeeps
<1>3. rules = E!FlattenSeq(qs)
  BY DEF E!Spliced, Filled
<1>4. DOMAIN qs = DOMAIN W /\ \A m \in DOMAIN W : qs[m] = Filled(W[m], known)
  OBVIOUS
<1> HIDE DEF W, rules
<1>5. Len(W) \in Nat /\ DOMAIN W = 1..Len(W) /\ \A m \in DOMAIN W : W[m] \in Passages
  BY <1>1
<1>6. \A m \in DOMAIN W :
        /\ Filled(W[m], known) \in Seq(Authored)
        /\ W[m].rule # None => Filled(W[m], known) = <<W[m].rule>> /\ g[m] \in E!UsedPlaces(d)
        /\ W[m].rule = None /\ (known = None \/ ~E!Confused(d, known)) =>
              \E t : Picks(d[g[m][1]].rules, Filled(W[m], known), t)
  BY <1>2, <1>5, SegmentFilled
<1>7. qs \in Seq(Seq(Authored))
  <2>1. qs = [m \in 1..Len(W) |-> qs[m]]
    BY <1>5
  <2> HIDE DEF qs
  <2>2. \A m \in 1..Len(W) : qs[m] \in Seq(Authored)
    BY <1>4, <1>5, <1>6
  <2> QED
    BY <1>5, <2>1, <2>2
<1> HIDE DEF qs
<1>8. PICK e : Strings(qs, Len(qs), rules, e)
  BY <1>3, <1>7, Flattened
<1>9. \A k \in DOMAIN rules : /\ e[k][1] \in DOMAIN W /\ e[k][2] \in DOMAIN qs[e[k][1]]
                              /\ e[k][1] \in Nat /\ e[k][2] \in Nat
                              /\ rules[k] = qs[e[k][1]][e[k][2]]
  <2> TAKE k \in DOMAIN rules
  <2>1. e[k] \in (DOMAIN qs) \X Nat /\ e[k][2] \in DOMAIN qs[e[k][1]]
        /\ rules[k] = qs[e[k][1]][e[k][2]]
    BY <1>8 DEF Strings, Pairs
  <2> QED
    BY <1>4, <1>5, <2>1
<1>10. ASSUME known = None \/ ~E!Confused(d, known)
       PROVE  /\ \A i \in DOMAIN rules : \E p \in E!UsedPlaces(d) : E!At(d, p) = rules[i]
              /\ \A i, j \in DOMAIN rules : i < j =>
                   \E p, q \in E!UsedPlaces(d) :
                      E!At(d, p) = rules[i] /\ E!At(d, q) = rules[j] /\ E!Earlier(p, q)
  <2> DEFINE Via(m) == CHOOSE t : Picks(d[g[m][1]].rules, qs[m], t)
             Spot(k) == IF W[e[k][1]].rule # None THEN g[e[k][1]]
                        ELSE <<g[e[k][1]][1], Via(e[k][1])[e[k][2]]>>
  <2>1. \A m \in DOMAIN W : W[m].rule = None => Picks(d[g[m][1]].rules, qs[m], Via(m))
    BY <1>4, <1>6, <1>10
  <2>2. \A m \in DOMAIN W : W[m].rule # None =>
           qs[m] = <<W[m].rule>> /\ g[m] \in E!UsedPlaces(d) /\ g[m] \in E!Readable(d)
           /\ W[m].rule = E!At(d, g[m])
    BY <1>2, <1>4, <1>6 DEF IsAt
  <2>3. \A m \in DOMAIN W : W[m].rule = None =>
           g[m][1] \in DOMAIN d /\ d[g[m][1]].access = "foreign" /\ g[m][2] = 1
    BY <1>2 DEF IsAt
  <2> HIDE DEF Via
  <2>4. \A k \in DOMAIN rules : /\ Spot(k) \in E!UsedPlaces(d) /\ E!At(d, Spot(k)) = rules[k]
                                /\ Spot(k)[1] = g[e[k][1]][1] /\ Spot(k)[1] \in Nat
    <3> TAKE k \in DOMAIN rules
    <3> DEFINE m == e[k][1]
               j == e[k][2]
    <3>1. m \in DOMAIN W /\ j \in DOMAIN qs[m] /\ rules[k] = qs[m][j]
      BY <1>9
    <3>2. CASE W[m].rule # None
      <4>1. Spot(k) = g[m]
        BY <3>2
      <4> HIDE DEF m, j, Spot
      <4>2. j = 1 /\ rules[k] = E!At(d, g[m]) /\ g[m] \in E!UsedPlaces(d)
        BY <2>2, <3>1, <3>2
      <4>3. g[m][1] \in Nat
        BY <4>2, PlaceType DEF E!UsedPlaces
      <4> QED
        BY <4>1, <4>2, <4>3 DEF m
    <3>3. CASE W[m].rule = None
      <4> DEFINE i == g[m][1]
                 x == Via(m)[j]
      <4>1. Spot(k) = <<i, x>>
        BY <3>3
      <4>2. i \in DOMAIN d
        BY <2>3, <3>1, <3>3
      <4> HIDE DEF m, j, Spot
      <4>3. Picks(d[i].rules, qs[m], Via(m))
        BY <2>1, <3>1, <3>3
      <4>4. x \in DOMAIN d[i].rules /\ rules[k] = d[i].rules[x] /\ d[i].rules[x].used
        BY <3>1, <4>3 DEF Picks
      <4>5. Spot(k)[1] = i /\ Spot(k)[2] = x
        BY <4>1
      <4> HIDE DEF i, x
      <4>6. Spot(k) \in E!Places(d)
        BY <4>1, <4>2, <4>4, <4>5, PlaceIs
      <4>7. E!At(d, Spot(k)) = rules[k] /\ E!At(d, Spot(k)).used
        BY <4>4, <4>5 DEF E!At
      <4>8. Spot(k)[1] \in Nat
        BY <4>6, PlaceType
      <4> QED
        BY <4>5, <4>6, <4>7, <4>8 DEF E!UsedPlaces, i, m
    <3> HIDE DEF Spot
    <3> QED
      BY <3>2, <3>3
  <2>5. \A k, l \in DOMAIN rules : k < l => E!Earlier(Spot(k), Spot(l))
    <3> TAKE k, l \in DOMAIN rules
    <3> HAVE k < l
    <3> DEFINE m == e[k][1]
               n == e[l][1]
    <3>1. E!Earlier(e[k], e[l])
      BY <1>8 DEF Strings
    <3>2. /\ m \in DOMAIN W /\ e[k][2] \in DOMAIN qs[m] /\ m \in Nat /\ e[k][2] \in Nat
          /\ n \in DOMAIN W /\ e[l][2] \in DOMAIN qs[n] /\ n \in Nat /\ e[l][2] \in Nat
      BY <1>9
    <3>3. /\ Spot(k)[1] = g[m][1] /\ Spot(k)[1] \in Nat
          /\ Spot(l)[1] = g[n][1] /\ Spot(l)[1] \in Nat
      BY <2>4
    <3>4. CASE m = n
      <4>1. e[k][2] < e[l][2]
        BY <3>1, <3>2, <3>4 DEF E!Earlier
      <4>2. W[m].rule = None
        <5>1. ASSUME W[m].rule # None PROVE FALSE
          <6>1. qs[m] = <<W[m].rule>>
            BY <2>2, <3>2, <5>1
          <6>2. e[k][2] = 1 /\ e[l][2] = 1
            BY <3>2, <3>4, <6>1
          <6> QED
            BY <4>1, <6>2
        <5> QED
          BY <5>1
      <4>3. Spot(k)[2] = Via(m)[e[k][2]] /\ Spot(l)[2] = Via(m)[e[l][2]]
        BY <3>4, <4>2
      <4>4. Via(m)[e[k][2]] < Via(m)[e[l][2]]
        BY <2>1, <3>2, <3>4, <4>1, <4>2 DEF Picks
      <4> HIDE DEF Spot, m, n
      <4> QED
        BY <3>3, <3>4, <4>3, <4>4 DEF E!Earlier
    <3>5. CASE m # n
      <4>1. m < n
        BY <3>1, <3>2, <3>5 DEF E!Earlier
      <4>2. E!Earlier(g[m], g[n])
        BY <1>2, <3>2, <4>1
      <4>3. CASE g[m][1] < g[n][1]
        <5> HIDE DEF Spot, m, n
        <5> QED
          BY <3>3, <4>3 DEF E!Earlier
      <4>4. CASE ~(g[m][1] < g[n][1])
        <5>1. g[m][1] = g[n][1] /\ g[m][2] < g[n][2]
          BY <4>2, <4>4 DEF E!Earlier
        <5>2. W[m].rule # None /\ W[n].rule # None
          <6>1. W[m].rule = None => d[g[m][1]].access = "foreign" /\ g[m][2] = 1
            BY <2>3, <3>2
          <6>2. W[n].rule = None => d[g[n][1]].access = "foreign" /\ g[n][2] = 1
            BY <2>3, <3>2
          <6>3. W[m].rule # None => d[g[m][1]].access = "own"
            BY <2>2, <3>2 DEF E!Readable
          <6>4. W[n].rule # None => d[g[n][1]].access = "own"
            BY <2>2, <3>2 DEF E!Readable
          <6> HIDE DEF m, n
          <6> QED
            BY <5>1, <6>1, <6>2, <6>3, <6>4
        <5>3. Spot(k) = g[m] /\ Spot(l) = g[n]
          BY <5>2
        <5> QED
          BY <4>2, <5>3
      <4> QED
        BY <4>3, <4>4
    <3> QED
      BY <3>4, <3>5
  <2> HIDE DEF Spot
  <2> QED
    BY <2>4, <2>5
<1>11. ASSUME InEnvelopes(d)
       PROVE  \A p \in E!Precious(d) : E!At(d, p) \in E!ToSet(rules)
  <2> TAKE p \in E!Precious(d)
  <2>1. PICK m \in DOMAIN W : W[m].rule = E!At(d, p)
    BY <1>1, <1>11
  <2>2. E!At(d, p) # None
    <3>1. p \in E!Places(d)
      BY DEF E!Precious, E!Readable
    <3> QED
      BY <3>1, PlaceType, DocumentAssumption DEF DocumentAssumption
  <2>3. qs[m] = <<E!At(d, p)>>
    BY <1>4, <1>6, <2>1, <2>2
  <2>4. 1 \in DOMAIN qs[m] /\ qs[m][1] = E!At(d, p)
    BY <2>3
  <2>5. <<m, 1>> \in Pairs(qs)
    BY <1>4, <2>4 DEF Pairs
  <2>6. m <= Len(qs)
    <3>1. Len(qs) \in Nat /\ DOMAIN qs = 1..Len(qs)
      BY <1>7
    <3>2. m \in 1..Len(qs)
      BY <1>4, <3>1
    <3> QED
      BY <3>1, <3>2
  <2>7. PICK k \in DOMAIN rules : e[k] = <<m, 1>>
    BY <1>8, <2>5, <2>6 DEF Strings
  <2>8. rules[k] = E!At(d, p)
    BY <1>9, <2>4, <2>7
  <2> QED
    BY <2>8 DEF E!ToSet
<1> QED
  BY <1>10, <1>11 DEF IsCascade, W, rules

-----------------------------------------------------------------------------
(***************************************************************************)
(* The inductive invariant of Extraction                                   *)
(***************************************************************************)
Faithful(o) == o # None => IsCascade(o.rules, o.of, o.known)

\* A tab that has loaded shows a page, or the firewall's; the profiler knows its sheets.
ExtractionInv ==
    /\ pc \in {"settle", "stop", "collect"} => doc \in {Challenge} \cup Seq(Linked)
    /\ coverage \in Profiles
    /\ Faithful(css) /\ Faithful(stored)

LEMMA Documents ==
  /\ Document \subseteq Seq(Linked) /\ Late \subseteq Linked
  /\ \A d \in {Challenge} \cup Seq(Linked) : E!Sheets(d) \in Seq(Linked)
<1>1. Document \subseteq Seq(Linked)
  BY DocumentAssumption DEF DocumentAssumption
<1>2. Late \subseteq Linked
  BY DEF Linked
<1>3. <<>> \in Seq(Linked)
  OBVIOUS
<1>4. \A d \in {Challenge} \cup Seq(Linked) : E!Sheets(d) \in Seq(Linked)
  BY <1>3 DEF E!Sheets
<1> QED
  BY <1>1, <1>2, <1>4

LEMMA ExtractionStarts == E!Init => ExtractionInv
BY DEF E!Init, ExtractionInv, Faithful, Profiles

LEMMA ExtractionRests == ExtractionInv /\ UNCHANGED extraction => ExtractionInv'
BY DEF ExtractionInv, extraction, Faithful

\* The profiler adds what it hears of.
LEMMA ProfileGrows ==
  ASSUME NEW known \in Profiles, NEW d \in Seq(Linked)
  PROVE  (IF known = None THEN None ELSE known \o d) \in Profiles
<1>1. CASE known = None
  BY <1>1 DEF Profiles
<1>2. CASE known # None
  <2>1. known \in Seq(Linked)
    BY <1>2 DEF Profiles
  <2>2. known \o d \in Seq(Linked)
    BY <2>1
  <2> QED
    BY <1>2, <2>2 DEF Profiles
<1> QED
  BY <1>1, <1>2

LEMMA SheetIsAdded ==
  ASSUME NEW d \in Seq(Linked), NEW n \in 1..(Len(d) + 1), NEW sheet \in Linked
  PROVE  E!InsertAt(d, n, sheet) \in Seq(Linked)
<1>1. Len(d) \in Nat /\ n \in Nat
  OBVIOUS
<1>2. SubSeq(d, 1, n - 1) \in Seq(Linked)
  <2>1. \A i \in 1..(n - 1) : i \in DOMAIN d
    BY <1>1
  <2> QED
    BY <1>1, <2>1, SubSeqProperties
<1>3. SubSeq(d, n, Len(d)) \in Seq(Linked)
  BY <1>1, SubSeqProperties
<1>4. <<sheet>> \in Seq(Linked)
  OBVIOUS
<1> DEFINE a == SubSeq(d, 1, n - 1)
           b == SubSeq(d, n, Len(d))
<1>5. E!InsertAt(d, n, sheet) = (a \o <<sheet>>) \o b
  BY DEF E!InsertAt
<1>6. a \in Seq(Linked) /\ b \in Seq(Linked)
  BY <1>2, <1>3
<1> HIDE DEF a, b
<1>7. (a \o <<sheet>>) \o b \in Seq(Linked)
  BY <1>4, <1>6
<1> QED
  BY <1>5, <1>7

LEMMA ExtractionKeeps ==
  ASSUME ExtractionInv, E!Next
  PROVE  ExtractionInv'
<1>1. /\ pc \in {"settle", "stop", "collect"} => doc \in {Challenge} \cup Seq(Linked)
      /\ coverage \in Profiles /\ Faithful(css) /\ Faithful(stored)
  BY DEF ExtractionInv
<1>2. Faithful(None)
  BY DEF Faithful
<1>3. CASE E!Deliver
  BY <1>1, <1>3 DEF E!Deliver, ExtractionInv, Faithful
<1>4. CASE E!Open
  <2>1. pc' = "goto" /\ coverage' \in {None, <<>>} /\ css' = css /\ stored' = stored
    BY <1>4 DEF E!Open
  <2>2. coverage' \in Profiles
    <3>1. <<>> \in Seq(Linked)
      OBVIOUS
    <3> QED
      BY <2>1, <3>1, Zenon DEF Profiles
  <2>3. Faithful(css') /\ Faithful(stored')
    BY <1>1, <2>1
  <2> QED
    BY <2>1, <2>2, <2>3 DEF ExtractionInv, Faithful
<1>5. CASE E!Goto
  <2>1. doc' \in Document \cup {Challenge} /\ UNCHANGED <<coverage, css, stored>>
    BY <1>5 DEF E!Goto
  <2>2. doc' \in {Challenge} \cup Seq(Linked)
    BY <2>1, Documents
  <2> QED
    BY <1>1, <2>1, <2>2 DEF ExtractionInv, Faithful
<1>6. CASE E!Probe
  BY <1>1, <1>6 DEF E!Probe, ExtractionInv, Faithful
<1>7. CASE E!StopCoverage
  <2>1. /\ pc = "stop" /\ UNCHANGED <<doc, css, stored>>
        /\ coverage' = IF coverage = None THEN None ELSE coverage \o E!Sheets(doc)
    BY <1>7 DEF E!StopCoverage
  <2>2. doc \in {Challenge} \cup Seq(Linked)
    BY <1>1, <2>1
  <2>3. coverage' \in Profiles
    BY <1>1, <2>1, <2>2, Documents, ProfileGrows
  <2> QED
    BY <1>1, <2>1, <2>2, <2>3 DEF ExtractionInv, Faithful
<1>8. CASE E!Extract
  <2> DEFINE d == E!Sheets(doc)
             rules == E!Spliced(E!Walk(d), coverage)
  <2>1. /\ pc = "collect" /\ pc' = "store" /\ UNCHANGED <<coverage, stored>>
        /\ css' = [rules |-> rules, of |-> d, known |-> coverage]
    BY <1>8 DEF E!Extract
  <2>2. d \in Seq(Linked)
    BY <1>1, <2>1, Documents
  <2> HIDE DEF d
  <2>3. IsCascade(rules, d, coverage)
    BY <1>1, <2>2, SplicedIs
  <2> HIDE DEF rules
  <2>4. css'.rules = rules /\ css'.of = d /\ css'.known = coverage
    BY <2>1
  <2>5. Faithful(css')
    BY <2>3, <2>4 DEF Faithful
  <2>6. Faithful(stored')
    BY <1>1, <2>1
  <2> QED
    BY <1>1, <2>1, <2>5, <2>6 DEF ExtractionInv, Faithful
<1>9. CASE E!Store
  <2>1. pc' = "done" /\ stored' = css /\ css' = None /\ coverage' = None
    BY <1>9 DEF E!Store
  <2>2. Faithful(stored') /\ Faithful(css')
    BY <1>1, <1>2, <2>1
  <2>3. coverage' \in Profiles
    BY <2>1 DEF Profiles
  <2> QED
    BY <2>1, <2>2, <2>3 DEF ExtractionInv, Faithful
<1>10. CASE E!Fail
  <2>1. pc' = "idle" /\ coverage' = None /\ css' = None /\ stored' = stored
    BY <1>10 DEF E!Fail
  <2>2. Faithful(stored') /\ Faithful(css')
    BY <1>1, <1>2, <2>1
  <2>3. coverage' \in Profiles
    BY <2>1 DEF Profiles
  <2> QED
    BY <2>1, <2>2, <2>3 DEF ExtractionInv, Faithful
<1>11. CASE E!AddSheet
  <2>1. /\ doc # Challenge /\ pc \in {"settle", "stop", "collect"}
        /\ UNCHANGED <<pc, coverage, css, stored>>
    BY <1>11 DEF E!AddSheet
  <2>2. doc \in Seq(Linked)
    BY <1>1, <2>1
  <2>3. PICK sheet \in Late : \E n \in 1..(Len(doc) + 1) : doc' = E!InsertAt(doc, n, sheet)
    BY <1>11 DEF E!AddSheet
  <2>4. PICK n \in 1..(Len(doc) + 1) : doc' = E!InsertAt(doc, n, sheet)
    BY <2>3
  <2>5. doc' \in Seq(Linked)
    BY <2>2, <2>4, Documents, SheetIsAdded
  <2> QED
    BY <1>1, <2>1, <2>5 DEF ExtractionInv, Faithful
<1>12. CASE E!Leave
  <2>1. /\ doc # Challenge /\ pc \in {"settle", "stop", "collect"}
        /\ doc' \in Document \cup {Challenge} /\ UNCHANGED <<pc, css, stored>>
        /\ coverage' = IF coverage = None \/ pc \notin {"settle", "stop"} THEN coverage
                       ELSE coverage \o doc
    BY <1>12 DEF E!Leave
  <2>2. doc \in Seq(Linked) /\ doc' \in {Challenge} \cup Seq(Linked)
    BY <1>1, <2>1, Documents
  <2>3. coverage' \in Profiles
    <3>1. (IF coverage = None THEN None ELSE coverage \o doc) \in Profiles
      BY <1>1, <2>2, ProfileGrows
    <3>2. coverage' = coverage
          \/ coverage' = (IF coverage = None THEN None ELSE coverage \o doc)
      BY <2>1
    <3> QED
      BY <1>1, <3>1, <3>2
  <2> QED
    BY <1>1, <2>1, <2>2, <2>3 DEF ExtractionInv, Faithful
<1> QED
  BY <1>3, <1>4, <1>5, <1>6, <1>7, <1>8, <1>9, <1>10, <1>11, <1>12 DEF E!Next

LEMMA CountIs == \A S : E!Cardinality(S) = Cardinality(S)
  BY DEF E!Cardinality, Cardinality, E!IsFiniteSet, IsFiniteSet

LEMMA ExtractionMeansCascade == ExtractionInv => StoredIsTheCascade
<1>1. CASE stored = None
  BY <1>1 DEF StoredIsTheCascade, E!StoredIsTheCascade
<1>2. ASSUME ExtractionInv, stored # None PROVE StoredIsTheCascade
  <2> DEFINE rules == stored.rules
             d == stored.of
             known == stored.known
  <2>1. IsCascade(rules, d, known)
    BY <1>2 DEF ExtractionInv, Faithful
  <2>2. /\ known = None \/ ~E!Confused(d, known) =>
             /\ \A i \in DOMAIN rules : \E p \in E!UsedPlaces(d) : E!At(d, p) = rules[i]
             /\ \A i, j \in DOMAIN rules : i < j =>
                   \E p, q \in E!UsedPlaces(d) :
                      E!At(d, p) = rules[i] /\ E!At(d, q) = rules[j] /\ E!Earlier(p, q)
        /\ /\ E!SumFunctionOnSet([p \in E!Places(d) |-> E!At(d, p).size], E!Precious(d)) <= MaxProtected
           /\ E!Cardinality(E!Readable(d)) <= MaxRules
           => \A p \in E!Precious(d) : E!At(d, p) \in E!ToSet(rules)
    BY <2>1, CountIs, Zenon DEF IsCascade, InEnvelopes, Sizes
  <2> HIDE DEF rules, d, known
  <2> QED
    BY <2>2, Zenon DEF StoredIsTheCascade, E!StoredIsTheCascade, rules, d, known
<1> QED
  BY <1>1, <1>2

-----------------------------------------------------------------------------
(***************************************************************************)
(* The journey                                                             *)
(***************************************************************************)
LEMMA JourneyStep ==
  ASSUME [JourneyNext]_<<vars, delivery, extraction, ordering, part>>
  PROVE  /\ Next \/ UNCHANGED vars
         /\ E!Next \/ UNCHANGED extraction
         /\ D!Next \/ UNCHANGED delivery
         /\ P!Next \/ UNCHANGED ordering
  BY DEF JourneyNext

\* What is so of jobs, calls, templates and messages, of a tab and of what it yields, of the
\* edge's caches and of the plugin's orders, in every reachable state.
JourneyInv == DispatchInv /\ ExtractionInv /\ DeliveryInv /\ OrderInv
THEOREM JourneyAsItStands == JourneySpec => []JourneyInv
<1>1. JourneyInit => JourneyInv
  BY DispatchStarts, ExtractionStarts, DeliveryStarts, OrdersStart DEF JourneyInit, JourneyInv
<1>2. JourneyInv /\ [JourneyNext]_<<vars, delivery, extraction, ordering, part>> => JourneyInv'
  <2> SUFFICES ASSUME JourneyInv, [JourneyNext]_<<vars, delivery, extraction, ordering, part>>
               PROVE  JourneyInv'
    OBVIOUS
  <2>1. DispatchInv' /\ DeliveryInv'
    BY JourneyStep, DispatchKeeps, DispatchRests, DeliveryKeeps, DeliveryRests DEF JourneyInv
  <2>2. ExtractionInv'
    BY JourneyStep, ExtractionKeeps, ExtractionRests DEF JourneyInv
  <2>3. OrderInv'
    BY JourneyStep, OrdersStep, OrdersRest DEF JourneyInv, ordering
  <2> QED
    BY <2>1, <2>2, <2>3 DEF JourneyInv
<1> QED
  BY <1>1, <1>2, PTL DEF JourneySpec

\* Whatever calls, crawls and consumers share a structure, and whichever of their writes fails,
\* a completed job's key is one R2 has an object under (optimize.ts, queue-consumer.ts).
THEOREM CompletedIsServable == JourneySpec => []CompletedHasArtifact
<1>1. JourneyInv => CompletedHasArtifact
  BY DEF JourneyInv, DispatchInv, Artifacts
<1> QED
  BY <1>1, JourneyAsItStands, PTL

\* A job no request and no consumer is at work on waits for its message and holds its credit, or
\* is over and holds none, while the marker of a free completion is put: a call whose marker put
\* fails goes on to pay for a job that is completed under the same id (optimize.ts).
THEOREM NobodyIsForgotten == ~MarkerFails => (JourneySpec => []NoZombie)
<1> SUFFICES ASSUME ~MarkerFails
             PROVE  JourneySpec => []NoZombie
  OBVIOUS
<1>1. JourneyInv => NoZombie
  BY DispatchMeansNoZombie DEF JourneyInv
<1> QED
  BY <1>1, JourneyAsItStands, PTL

\* However a tab's scripts add sheets or lead elsewhere between the walk and what the profiler
\* hears, and whichever deliveries throw, what is stored are rules that the page uses in the
\* order of its sheets, and every vital one of a page within the envelopes is among them
\* (puppeteer-extractor.ts).
THEOREM CascadeIsStored == JourneySpec => []StoredIsTheCascade
<1>1. JourneyInv => StoredIsTheCascade
  BY ExtractionMeansCascade DEF JourneyInv
<1> QED
  BY <1>1, JourneyAsItStands, PTL

\* However the deferred writes of caches, the switches, the deletions and the jobs fall between
\* the steps of a visit, what the edge answers was so not long ago (routes/assets.ts).
THEOREM EdgeAnswersAreRecent == JourneySpec => []AnswersAreRecent
<1>1. JourneyInv => AnswersAreRecent
  BY DeliveryMeansRecent DEF JourneyInv
<1> QED
  BY <1>1, JourneyAsItStands, PTL

\* "A page is dispatched for extraction at most ONCE per fingerprint" (class-critical-css.php:14): from the
\* time the plugin knows of a version's jobs, and while neither a job fails nor the files expire,
\* nobody orders it again for six hours, whoever visits, polls, dies or is not answered.
THEOREM PageIsPaidOnce == JourneySpec => PaidOncePerVersion
<1>1. JourneyInv /\ [JourneyNext]_<<vars, delivery, extraction, ordering, part>> =>
         [\A b \in P!Batch :
             P!Dispatch(b) => paid.version # content \/ paid.age = Heal]_P!vars
  <2>1. OrderInv => \A b \in P!Batch :
                      P!Dispatch(b) => paid.version # content \/ paid.age = Heal
    BY DEF OrderInv, Standing, Quiet, P!Dispatch, P!CronAt
  <2> QED
    BY <2>1 DEF JourneyInv
<1> QED
  BY <1>1, JourneyAsItStands, PTL DEF JourneySpec, PaidOncePerVersion, P!PaidOncePerVersion
=============================================================================
