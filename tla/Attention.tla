------------------------------- MODULE Attention -------------------------------
(***************************************************************************)
(* The attention feed in a browser tab of the dashboard: the bell of the     *)
(* layout, which reads it again at every navigation, and the queue of the    *)
(* overview, which reads it when it appears, over GET /optimize/attention.   *)
(* The feed is abstracted to the moment it was read: the number of things    *)
(* that had happened to the account's jobs and sites. A run of an effect is  *)
(* numbered; its "cancelled" is that another run has begun since.            *)
(***************************************************************************)
EXTENDS Naturals

CONSTANTS
    MaxNews,        \* bound on what happens on the edge
    MaxRuns         \* bound on the runs of each effect

Reader == {"bell", "queue"}

VARIABLES
    news,           \* what has happened on the edge
    overview,       \* the tab shows the overview
    run,            \* run[w]: the current run of w's effect
    asked,          \* the requests in flight: [by, run]
    found,          \* the answers on their way: [by, run, news]
    shown           \* shown[w]: the news up to which w counts

attention == <<news, overview, run, asked, found, shown>>

\* A job fails or needs attention, or a site reports its health.
Happen ==
    /\ news < MaxNews /\ news' = news + 1
    /\ UNCHANGED <<overview, run, asked, found, shown>>

\* A navigation: the bell asks again; a queue that appears asks, and one that goes away
\* is cancelled and forgets.
Navigate ==
    \E to \in BOOLEAN :
        LET again   == {"bell"} \cup (IF to # overview THEN {"queue"} ELSE {})
            present == {"bell"} \cup (IF to THEN {"queue"} ELSE {})
        IN  /\ \A w \in again : run[w] < MaxRuns
            /\ overview' = to
            /\ run' = [w \in Reader |-> IF w \in again THEN run[w] + 1 ELSE run[w]]
            /\ asked' = asked \cup {[by |-> w, run |-> run'[w]] : w \in again \cap present}
            /\ shown' = [w \in Reader |-> IF w \in present THEN shown[w] ELSE 0]
            /\ UNCHANGED <<news, found>>

\* The edge reads the jobs and then the sites; a failure shows nothing.
Answer(q) ==
    /\ q \in asked /\ asked' = asked \ {q}
    /\ \/ found' = found \cup {[by |-> q.by, run |-> q.run, news |-> news]}
       \/ UNCHANGED found
    /\ UNCHANGED <<news, overview, run, shown>>

\* Mutant of Current: no run is ever cancelled.
AnyRun(a) == a.by = "bell" \/ overview

Current(a) == a.run = run[a.by]

Show(a) ==
    /\ a \in found /\ found' = found \ {a}
    /\ shown' = IF Current(a) THEN [shown EXCEPT ![a.by] = a.news] ELSE shown
    /\ UNCHANGED <<news, overview, run, asked>>

Init ==
    /\ news = 0 /\ overview \in BOOLEAN
    /\ run = [w \in Reader |-> IF w = "bell" \/ overview THEN 1 ELSE 0]
    /\ asked = {[by |-> w, run |-> 1] : w \in {r \in Reader : run[r] = 1}}
    /\ found = {} /\ shown = [w \in Reader |-> 0]

Next ==
    \/ Happen \/ Navigate
    \/ \E q \in asked : Answer(q)
    \/ \E a \in found : Show(a)

Spec == Init /\ [][Next]_attention

-----------------------------------------------------------------------------
\* Navigation starts reads of the feed that overtake each other: neither the bell nor a
\* queue that stays on screen goes back to a count from before the one it shows.
FeedNeverGoesBack ==
    [][\A w \in Reader : (w = "queue" => overview /\ overview') => shown'[w] >= shown[w]]_attention
================================================================================
