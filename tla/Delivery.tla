-------------------------------- MODULE Delivery --------------------------------
(***************************************************************************)
(* How the critical CSS of a page is served, GET /assets/css/:site/:file      *)
(* (routes/assets.ts): from the colo's Cache API, or from R2 once the site is  *)
(* known to be active, which KV remembers. Every answer is stored for the      *)
(* requests that follow it, deferred, for as long as its Cache-Control says.    *)
(* Meanwhile jobs replace the object, subscriptions end, the site is deleted.   *)
(*                                                                         *)
(* Time is counted in lives of the KV entry (five minutes); the thirty        *)
(* seconds of a refusal are rounded up to one. Requests take seconds: a tick    *)
(* finds none under way.                                                    *)
(***************************************************************************)
EXTENDS Naturals

CONSTANTS
    Visitor, Colo, None,
    Inactive,       \* the answer 403, "Site optimization inactive"; 404 is 0
    CssLife,        \* how long a colo keeps the CSS (12 in the code)
    MaxTime,
    MaxVersions,    \* bound on the versions of the CSS, one after the other
    MaxSwitches     \* bound on the site's changes between active and inactive

VARIABLES
    now,
    exists,     \* whether the site's row does
    active,     \* is_active
    css,        \* the version of the object in R2; 0 without one
    latest,     \* the version a job wrote last
    kv,         \* siteactive:<id>: what it says and when it ends; None
    edge,       \* edge[c]: the answer that colo c keeps and when it ends; None
    req,        \* requests: where, what they do next, the answer, what R2 is asked
    purge,      \* what the deletion has still to do
    switches,
    on, off,    \* when the site was last active, when it was last inactive
    stored      \* when each version (0: none) was last the one in R2

delivery == <<now, exists, active, css, latest, kv, edge, req, purge, switches, on, off, stored>>
history == <<on, off, stored>>

KvLife == 1
Free == [pc |-> "free", colo |-> None, says |-> None]

Life(answer) == IF answer \in 1..MaxVersions THEN CssLife ELSE 1
Entry(what) == [says |-> what, end |-> now + Life(what)]
Alive(e) == e # None /\ now < e.end

\* What is so at a moment is noted.
Noted(time, isActive, version) ==
    /\ on'  = IF isActive THEN time ELSE on
    /\ off' = IF isActive THEN off ELSE time
    /\ stored' = [stored EXCEPT ![version] = time]

-----------------------------------------------------------------------------
(***************************************************************************)
(* What goes on meanwhile                                                  *)
(***************************************************************************)
Tick ==
    /\ now < MaxTime /\ \A r \in Visitor : req[r] = Free
    /\ now' = now + 1
    /\ Noted(now', active, css)
    /\ UNCHANGED <<exists, active, css, latest, kv, edge, req, purge, switches>>

\* A job writes the object, also one that began before the site was deleted.
Store ==
    /\ latest < MaxVersions
    /\ latest' = latest + 1 /\ css' = latest + 1
    /\ Noted(now, active, css')
    /\ UNCHANGED <<now, exists, active, kv, edge, req, purge, switches>>

\* A subscription ends or comes. (SiteAccess tells what becomes of the KV entry: it is
\* deleted, unless the webhook that should do so crashes.)
Switch ==
    /\ exists /\ switches < MaxSwitches
    /\ switches' = switches + 1
    /\ active' = ~active
    /\ kv' \in {None, kv}
    /\ Noted(now, active', css)
    /\ UNCHANGED <<now, exists, css, latest, edge, req, purge>>

\* DELETE /sites/:id: the row, the KV entry, the objects.
Delete ==
    /\ exists /\ exists' = FALSE /\ active' = FALSE
    /\ purge' = "kv"
    /\ Noted(now, FALSE, css)
    /\ UNCHANGED <<now, css, latest, kv, edge, req, switches>>

DeleteEntry ==
    /\ purge = "kv" /\ kv' = None /\ purge' = "objects"
    /\ UNCHANGED <<now, exists, active, css, latest, edge, req, switches, history>>

\* The objects are listed and deleted page by page; a failure is only logged.
DeleteObjects ==
    /\ purge = "objects" /\ purge' = None
    /\ css' \in {0, css}
    /\ Noted(now, active, css')
    /\ UNCHANGED <<now, exists, active, latest, kv, edge, req, switches>>

-----------------------------------------------------------------------------
(***************************************************************************)
(* A request                                                               *)
(***************************************************************************)
Goes(r, state) == req' = [req EXCEPT ![r] = state]

Match(r, c) ==
    /\ req[r] = Free
    /\ Goes(r, [colo |-> c,
                pc |-> IF Alive(edge[c]) THEN "answer" ELSE "gate",
                says |-> IF Alive(edge[c]) THEN edge[c].says ELSE None])
    /\ UNCHANGED <<now, exists, active, css, latest, kv, edge, purge, switches, history>>

\* The KV entry, which says yes or no,
Gate(r) ==
    /\ req[r].pc = "gate"
    /\ Goes(r, IF ~Alive(kv) THEN [req[r] EXCEPT !.pc = "row"]
               ELSE IF kv.on THEN [req[r] EXCEPT !.pc = "object"]
               ELSE [req[r] EXCEPT !.pc = "store", !.says = Inactive])
    /\ UNCHANGED <<now, exists, active, css, latest, kv, edge, purge, switches, history>>

\* or the row,
Row(r) ==
    /\ req[r].pc = "row"
    /\ Goes(r, [req[r] EXCEPT !.pc = "note", !.says = IF active THEN None ELSE Inactive])
    /\ UNCHANGED <<now, exists, active, css, latest, kv, edge, purge, switches, history>>

\* Mutant of Note: an entry without a TTL.
NoteForGood(r) ==
    /\ req[r].pc = "note"
    /\ kv' = [on |-> req[r].says = None, end |-> MaxTime + 1]
    /\ Goes(r, IF req[r].says = None THEN [req[r] EXCEPT !.pc = "object"]
               ELSE [req[r] EXCEPT !.pc = "store"])
    /\ UNCHANGED <<now, exists, active, css, latest, edge, purge, switches, history>>

\* which is then remembered.
Note(r) ==
    /\ req[r].pc = "note"
    /\ kv' = [on |-> req[r].says = None, end |-> now + KvLife]
    /\ Goes(r, IF req[r].says = None THEN [req[r] EXCEPT !.pc = "object"]
               ELSE [req[r] EXCEPT !.pc = "store"])
    /\ UNCHANGED <<now, exists, active, css, latest, edge, purge, switches, history>>

\* The object, or 404.
Object(r) ==
    /\ req[r].pc = "object"
    /\ Goes(r, [req[r] EXCEPT !.pc = "store", !.says = css])
    /\ UNCHANGED <<now, exists, active, css, latest, kv, edge, purge, switches, history>>

\* The deferred write, which may fail or be cut off.
StoreAnswer(r) ==
    /\ req[r].pc = "store"
    /\ \/ edge' = [edge EXCEPT ![req[r].colo] = Entry(req[r].says)]
       \/ UNCHANGED edge
    /\ Goes(r, [req[r] EXCEPT !.pc = "answer"])
    /\ UNCHANGED <<now, exists, active, css, latest, kv, purge, switches, history>>

Answer(r) ==
    /\ req[r].pc = "answer"
    /\ Goes(r, Free)
    /\ UNCHANGED <<now, exists, active, css, latest, kv, edge, purge, switches, history>>

-----------------------------------------------------------------------------
Init ==
    /\ now = 0 /\ exists = TRUE /\ active = TRUE
    /\ css = 0 /\ latest = 0 /\ kv = None
    /\ edge = [c \in Colo |-> None]
    /\ req = [r \in Visitor |-> Free]
    /\ purge = None /\ switches = 0
    /\ on = 0 /\ off = None /\ stored = [v \in 0..MaxVersions |-> IF v = 0 THEN 0 ELSE None]

Next ==
    \/ Tick \/ Store \/ Switch \/ Delete \/ DeleteEntry \/ DeleteObjects
    \/ \E r \in Visitor :
         \/ \E c \in Colo : Match(r, c)
         \/ Gate(r) \/ Row(r) \/ Note(r) \/ Object(r) \/ StoreAnswer(r) \/ Answer(r)

Spec == Init /\ [][Next]_delivery

-----------------------------------------------------------------------------
\* What is answered was so not long ago: a version of the CSS was the one in R2 within an
\* hour, and the site active within an hour and five minutes (the comment says
\* "immediately"); a site that is refused was inactive within ten minutes; a file that is
\* not found was missing within five. Whatever the order of the deferred writes, of the
\* deletions and of the jobs.
AnswersAreRecent ==
    \A r \in Visitor : req[r].pc = "answer" =>
        CASE req[r].says = Inactive -> now < off + KvLife + 1
          [] req[r].says = 0 -> now < stored[0] + 1 /\ now < on + KvLife + 1
          [] OTHER -> /\ now < stored[req[r].says] + CssLife
                      /\ now < on + KvLife + CssLife
=============================================================================
