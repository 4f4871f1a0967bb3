--------------------------------- MODULE Media ---------------------------------
(***************************************************************************)
(* One asset of a site on the media CDN: the edge routes that serve it      *)
(* (edge-api/src/routes/assets.ts) from the colo's Cache API, from R2 or,   *)
(* on a miss, from the origin, and the plugin's cron worker that uploads    *)
(* derivatives of it (transformer/class-media-offloader.php).               *)
(*                                                                         *)
(* A browser that accepts AVIF is served from variants of its own, in the   *)
(* cache (&fmt=avif) and in R2 (<key>.avif). What a response wants stored   *)
(* is written after it was sent (waitUntil), in any order, or never. Of what *)
(* is stored, the model keeps what kind of bytes they are.                  *)
(*                                                                         *)
(* Requests ask for the same width and quality: they share one R2 key.      *)
(***************************************************************************)
EXTENDS Naturals, FiniteSets

CONSTANTS
    Getter,         \* GET requests handled at the same time
    Worker,         \* runs of the plugin's offload worker
    Colo,           \* Cloudflare locations, each with its cache
    None,
    Assets,         \* the assets there may be: see Asset
    MaxAttempts,    \* MAX_ATTEMPTS of the offload queue
    MaxFaults       \* bound on what may fail, one thing at a time

ASSUME ActorAssumption == Getter \cap Worker = {}
\* The format that is asked for; whether the file is a vector or an animation,
\* too big to be worked on (5MB), in the upload library; whether the edge that serves
\* it has the Images binding (env.IMAGES).
Asset == [format : {"webp", "orig", "raw"}, vector : BOOLEAN, big : BOOLEAN, library : BOOLEAN,
          binding : BOOLEAN]

ASSUME AssetsAssumption ==
    /\ Assets \subseteq Asset
    /\ \A a \in Assets : a.format = "raw" => ~a.vector /\ ~a.library
ASSUME BoundAssumption == {MaxAttempts, MaxFaults} \subseteq Nat

VARIABLES
    asset,      \* what is asked for
    cache,      \* cache[c][variant]: the Cache API of colo c
    r2,         \* r2[key]: ASSETS_BUCKET
    tasks,      \* the deferred writes
    proc,       \* where each request and each worker is
    queue,      \* the asset in wp_instant_media_queue: its attempts, or None
    faults

vars == <<asset, cache, r2, tasks, proc, queue, faults>>
stores == <<cache, r2, tasks>>

Variant == {"plain", "avif"}
Key == {"main", "avif"}

\* What is stored or sent: the file itself or a derivative, AVIF or not.
Bytes == [derived : BOOLEAN, avif : BOOLEAN]
Failure == [failed |-> TRUE]

\* Absence is no bytes.
ASSUME NoneAssumption == None \notin Bytes

Idle == [pc |-> "idle"]
At(a, pc) == proc[a].pc = pc
Goto(a, pc) == proc' = [proc EXCEPT ![a].pc = pc]
Rest(a) == proc' = [proc EXCEPT ![a] = Idle]
Fault == faults < MaxFaults /\ faults' = faults + 1

Raster == ~asset.vector /\ asset.format = "webp"

R2Put(key, b) == [op |-> "r2put", key |-> key, val |-> b]
CachePut(g, b) == [op |-> "put", colo |-> proc[g].colo, variant |-> proc[g].variant, val |-> b]
CacheDelete(c, variant) == [op |-> "delete", colo |-> c, variant |-> variant]

-----------------------------------------------------------------------------
(***************************************************************************)
(* GET /media/:site_id/:url_hash                                           *)
(***************************************************************************)
\* wantsAvif: the browser accepts AVIF and a webp derivative is asked for.
Get(g) ==
    /\ At(g, "idle")
    /\ \E c \in Colo, variant \in IF asset.format = "webp" THEN Variant ELSE {"plain"} :
         proc' = [proc EXCEPT ![g] = [pc |-> "match", colo |-> c, variant |-> variant]]
    /\ UNCHANGED <<asset, stores, queue, faults>>

WantsAvif(g) == proc[g].variant = "avif"

\* The secret that the signature is checked with cannot be looked up (502); who has no
\* signature never gets here.
Unverified(g) ==
    /\ At(g, "match") /\ Fault
    /\ Rest(g)
    /\ UNCHANGED <<asset, stores, queue>>

\* A range of an object in R2 is cut out of it, and stored nowhere.
RangeHit(g) ==
    /\ At(g, "match") /\ r2["main"] # None
    /\ Rest(g)
    /\ UNCHANGED <<asset, stores, queue, faults>>

\* A cached answer is sent, an origin failure too; a plain one found by a browser
\* that accepts AVIF does not count.
Match(g) ==
    /\ At(g, "match")
    /\ LET hit == cache[proc[g].colo][proc[g].variant]
       IN IF hit = None \/ (hit # Failure /\ WantsAvif(g) /\ ~hit.avif)
          THEN Goto(g, IF WantsAvif(g) THEN "avif" ELSE "main")
          ELSE Rest(g)
    /\ UNCHANGED <<asset, stores, queue, faults>>

\* An object found in R2 is sent, and cached for the variant that asked.
Object(g, key, otherwise) ==
    /\ At(g, key)
    /\ IF r2[key] # None
       THEN tasks' = tasks \cup {CachePut(g, r2[key])} /\ Rest(g)
       ELSE Goto(g, otherwise) /\ UNCHANGED tasks
    /\ UNCHANGED <<asset, cache, r2, queue, faults>>

AvifObject(g) == Object(g, "avif", "main")
MainObject(g) == Object(g, "main", "fetch")

\* A miss fetches the file, unless the site has used up its misses (429). A raw
\* asset the origin does not give is answered with its failure, which is cached;
\* an image is redirected to the origin.
Fetch(g) ==
    /\ At(g, "fetch")
    /\ \/ Goto(g, "fill") /\ UNCHANGED <<tasks, faults>>
       \/ Fault /\ Rest(g) /\ UNCHANGED tasks
       \/ /\ Fault /\ Rest(g)
          /\ tasks' = IF asset.format = "raw" THEN tasks \cup {CachePut(g, Failure)}
                      ELSE tasks
    /\ UNCHANGED <<asset, cache, r2, queue>>

Original == [derived |-> FALSE, avif |-> FALSE]
Derivative(g) == [derived |-> TRUE, avif |-> WantsAvif(g)]

Fill(g, key, b) ==
    /\ At(g, "fill")
    /\ tasks' = tasks \cup {R2Put(key, b), CachePut(g, b)}
    /\ Rest(g)
    /\ UNCHANGED <<asset, cache, r2, queue, faults>>

\* The file is passed on, or the browser sent to it, and nothing is stored.
Pass(g) ==
    /\ At(g, "fill")
    /\ Rest(g)
    /\ UNCHANGED <<asset, stores, queue>>

\* A raw asset is stored as it came (a style sheet with its URLs rewritten).
FillRaw(g) == asset.format = "raw" /\ ~asset.big /\ Fill(g, "main", Original)

\* So are vectors, and what is asked for in its original format.
FillOriginal(g) ==
    /\ asset.format # "raw" /\ ~asset.big
    /\ asset.vector \/ asset.format = "orig"
    /\ Fill(g, "main", Original)

\* Mutant: every derivative is stored under the requested key.
TranscodeToMain(g) ==
    /\ Raster /\ ~asset.big /\ ~asset.binding
    /\ Fill(g, "main", Derivative(g))

\* A raster image is resized and converted by WASM at the edge. AVIF lives under
\* a key of its own.
Transcode(g) ==
    /\ Raster /\ ~asset.big /\ ~asset.binding
    /\ Fill(g, IF WantsAvif(g) THEN "avif" ELSE "main", Derivative(g))

\* When that fails the original is sent, and deliberately not stored.
TranscodeFails(g) == Raster /\ ~asset.big /\ ~asset.binding /\ Fault /\ Pass(g)

\* With the Images binding, a raster image is given to it as the body of the
\* origin's response. That body was already read, to measure it: the binding
\* throws, and the browser is sent to the origin.
ImagesFails(g) == Raster /\ ~asset.big /\ asset.binding /\ Pass(g) /\ UNCHANGED faults

\* Above 5MB an image is not worked on, and above 100MB a raw asset not stored.
PassOversize(g) == asset.big /\ Pass(g) /\ UNCHANGED faults

-----------------------------------------------------------------------------
(***************************************************************************)
(* Deferred writes, in any order; the worker that has them may be stopped.  *)
(***************************************************************************)
Execute(t) ==
    /\ tasks' = tasks \ {t}
    /\ r2' = IF t.op = "r2put" THEN [r2 EXCEPT ![t.key] = t.val] ELSE r2
    /\ cache' = IF t.op = "r2put" THEN cache
                ELSE [cache EXCEPT ![t.colo][t.variant] =
                        IF t.op = "put" THEN t.val ELSE None]
    /\ UNCHANGED <<asset, proc, queue, faults>>

Lose(t) ==
    /\ Fault
    /\ tasks' = tasks \ {t}
    /\ UNCHANGED <<asset, cache, r2, proc, queue>>

\* Mutant: failures are cached without a TTL.
EvictBytes(c, variant) ==
    /\ cache[c][variant] \in Bytes
    /\ cache' = [cache EXCEPT ![c][variant] = None]
    /\ UNCHANGED <<asset, r2, tasks, proc, queue, faults>>

\* A colo forgets an entry: a failure after 60 seconds, any other when it likes.
Evict(c, variant) ==
    /\ cache[c][variant] # None
    /\ cache' = [cache EXCEPT ![c][variant] = None]
    /\ UNCHANGED <<asset, r2, tasks, proc, queue, faults>>

-----------------------------------------------------------------------------
(***************************************************************************)
(* The plugin. A render that rewrites the asset's URL queues it; the cron   *)
(* worker takes the queue, makes and uploads the derivative, and writes the *)
(* queue back as it left it.                                               *)
(***************************************************************************)
Enqueue ==
    /\ queue = None
    /\ queue' = 0
    /\ UNCHANGED <<asset, stores, proc, faults>>

\* Mutant: attempts are not counted.
TakeUncounted(w) ==
    /\ At(w, "idle") /\ queue # None
    /\ proc' = [proc EXCEPT ![w] = [pc |-> "read", left |-> queue]]
    /\ UNCHANGED <<asset, stores, queue, faults>>

\* An item tried MAX_ATTEMPTS times is dropped.
Take(w) ==
    /\ At(w, "idle") /\ queue # None
    /\ proc' = [proc EXCEPT ![w] =
         IF queue >= MaxAttempts THEN [pc |-> "save", left |-> None]
         ELSE [pc |-> "read", left |-> queue + 1]]
    /\ UNCHANGED <<asset, stores, queue, faults>>

\* generate_and_upload reads the file and makes the derivative; what is too big
\* or cannot be read is tried again.
Read(w) ==
    /\ At(w, "read")
    /\ \/ /\ ~asset.big /\ UNCHANGED faults
          /\ proc' = [proc EXCEPT ![w].pc = "upload"]
       \/ asset.big /\ Goto(w, "save") /\ UNCHANGED faults
       \/ Fault /\ Goto(w, "save")
    /\ UNCHANGED <<asset, stores, queue>>

\* PUT /media: the object is replaced, the cached variants of the colo that the
\* plugin talks to are dropped. (The file of an animation is uploaded under the
\* key of its original format, which nobody asks for.)
PutMedia ==
    /\ ~asset.library
    /\ r2' = IF asset.format = "webp" /\ asset.vector THEN r2
             ELSE [r2 EXCEPT !["main"] = [derived |-> Raster, avif |-> FALSE]]
    /\ \E c \in Colo : tasks' = tasks \cup {CacheDelete(c, variant) : variant \in Variant}

\* PUT /public-media: a file of the upload library goes to a bucket of its own,
\* under its content's address. No page refers to it: media_url always answers
\* the URL of GET /media.
PutPublic == asset.library /\ UNCHANGED <<r2, tasks>>

Upload(w) ==
    /\ At(w, "upload")
    /\ \/ /\ PutMedia \/ PutPublic
          /\ proc' = [proc EXCEPT ![w] = [pc |-> "save", left |-> None]]
          /\ UNCHANGED faults
       \/ /\ Fault /\ Goto(w, "save")
          /\ UNCHANGED <<r2, tasks>>
    /\ UNCHANGED <<asset, cache, queue>>

Save(w) ==
    /\ At(w, "save")
    /\ queue' = proc[w].left
    /\ Rest(w)
    /\ UNCHANGED <<asset, stores, faults>>

-----------------------------------------------------------------------------
Init ==
    /\ asset \in Assets
    /\ cache = [c \in Colo |-> [variant \in Variant |-> None]]
    /\ r2 = [key \in Key |-> None]
    /\ tasks = {}
    /\ proc = [a \in Getter \cup Worker |-> Idle]
    /\ queue = None
    /\ faults = 0

Answer(g) == Unverified(g) \/ RangeHit(g) \/ Match(g) \/ AvifObject(g) \/ MainObject(g)
             \/ Fetch(g) \/ FillRaw(g)
             \/ FillOriginal(g) \/ Transcode(g) \/ TranscodeFails(g) \/ ImagesFails(g)
             \/ PassOversize(g)
Work(w) == Read(w) \/ Upload(w) \/ Save(w)

Next ==
    \/ \E g \in Getter : Get(g) \/ Answer(g)
    \/ \E t \in tasks : Execute(t) \/ Lose(t)
    \/ \E c \in Colo, variant \in Variant : Evict(c, variant)
    \/ Enqueue
    \/ \E w \in Worker : Take(w) \/ Work(w)

Spec == Init /\ [][Next]_vars

\* The asset is asked for again and again. A request is answered, a deferred
\* write made, a cached failure expires (max-age=60), and WP-Cron runs hourly.
Fairness ==
    /\ \A g \in Getter : WF_vars(Answer(g))
    /\ WF_vars(\E g \in Getter : Get(g))
    /\ \A key \in Key :
          WF_vars(\E t \in tasks : t.op = "r2put" /\ t.key = key /\ Execute(t))
    /\ \A c \in Colo, variant \in Variant :
          WF_vars(cache[c][variant] = Failure /\ Evict(c, variant))
    /\ \A w \in Worker : WF_vars(Take(w)) /\ WF_vars(Work(w))

FairSpec == Spec /\ Fairness

-----------------------------------------------------------------------------
(***************************************************************************)
(* Properties                                                              *)
(***************************************************************************)
\* Under a key, and in a colo's cache, is what the requests that look there may have. A
\* browser that does not accept AVIF finds none; and where the derivative of a raster image
\* belongs its original never is, which would stay for a year: "an original stored under
\* the derivative key would be served immutable". Whatever requests, uploads and deferred
\* writes do.
RightBytes ==
    /\ \A c \in Colo : cache[c]["plain"] \in Bytes => ~cache[c]["plain"].avif
    /\ r2["main"] # None => ~r2["main"].avif
    /\ Raster =>
         /\ \A c \in Colo, variant \in Variant :
              cache[c][variant] \in Bytes => cache[c][variant].derived
         /\ \A key \in Key : r2[key] # None => r2[key].derived

\* An asset that is asked for is, again and again, stored at the edge: failures
\* of the origin, misses over the limit, lost writes and evictions only delay
\* it. An image that is too big is always redirected, and so is a raster image where
\* the Images binding is configured.
Stored == \/ \E key \in Key : r2[key] # None
          \/ \E c \in Colo, variant \in Variant : cache[c][variant] \in Bytes
StaysWarm == asset.big \/ (Raster /\ asset.binding) \/ []<>Stored

\* A queued derivative is uploaded or given up: it leaves the queue.
OffloadSettles == (queue # None) ~> (queue = None)
=============================================================================
