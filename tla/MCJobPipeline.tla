---------------------------- MODULE MCJobPipeline ----------------------------
(* One job: dispatched under run key k1 and rerun under k2. Jobs meet only in the *)
(* sweeper, whose two statements may see different sets of them; no property     *)
(* checked with "sweep" depends on that.                                        *)
EXTENDS JobPipeline, TLC

CONSTANTS j1, k1, k2

Runs == {k1, k2}
Reruns == {k2}
JobOfRun == [k \in Runs |-> j1]

\* What may go wrong together. A storm; failing sends and launches with duplicate
\* deliveries; failing statements with reruns.
Hazardous == {{"crash", "fault", "launch", "lost", "rerun"},
              {"launch", "lost", "duplicate"},
              {"fault", "launch", "rerun"}, {"fault", "launch"}}

\* The sweeper cleans up after lost messages and evicted consumers, and after a rerun.
Swept == {{"crash", "lost", "duplicate", "sweep"}, {"sweep", "rerun"}}

Symmetry == Permutations(Consumer)
=============================================================================
