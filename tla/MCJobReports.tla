----------------------------- MODULE MCJobReports -----------------------------
(* The jobs of a site: how each is done and paid (JobPipeline), and what the     *)
(* dashboard says of the pages they are for (Reports). In each behaviour one of   *)
(* the two moves.                                                              *)
EXTENDS MCJobPipeline

CONSTANTS Path, None, Root, Listed, Param, Ignored, Visited, Limit, MaxJobs, MaxTime

VARIABLES now, scope, jobs, reader, part

books == <<now, scope, jobs, reader>>

\* The home page, a search that a campaign led to, and the same link to another page.
SomeUrls ==
    {[path |-> "home", query |-> {}], [path |-> "home", query |-> {"q", "utm"}],
     [path |-> "post", query |-> {"utm"}]}

R == INSTANCE Reports

\* What is visited are URLs; at least one group is read; no date is missing.
ASSUME ReportsAssumption ==
    Visited \subseteq R!Url /\ Limit \in Nat \ {0} /\ None \notin Nat

BothInit ==
    /\ part \in {"pipeline", "reports"}
    /\ Init /\ (part = "pipeline" \/ hazards = CHOOSE h \in Environments : TRUE)
    /\ R!Init /\ (part = "reports" \/ scope = "all")

BothNext ==
    /\ UNCHANGED part
    /\ \/ part = "pipeline" /\ Next   /\ UNCHANGED books
       \/ part = "reports"  /\ R!Next /\ UNCHANGED vars

BothSpec == BothInit /\ [][BothNext]_<<vars, books, part>>

\* Stated and explained there.
PagesAddUp == R!PagesAddUp
=============================================================================
