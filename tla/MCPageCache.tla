----------------------------- MODULE MCPageCache ------------------------------
(* The two files that a plugin keeps beside WordPress: the entry of a page      *)
(* (PageCache; two requests that render it, two that change the site), and       *)
(* rum.json (Telemetry). Neither touches the other's: in each behaviour one of   *)
(* the two moves.                                                              *)
EXTENDS PageCache

CONSTANTS Cron, Mode, TicksPerHour, HoursPerDay, Retention, Window, Cooldown, MinViews,
          MinBaseline, MaxTicks, MaxViews, MaxSwitches, MaxDeaths, MaxUsage

VARIABLES now, hours, writer, mode, stepAt, cron, rum, usage, switches, deaths, seen, fresh,
          judged, part

V == INSTANCE Telemetry WITH faults <- deaths, MaxFaults <- MaxDeaths

traffic == <<now, hours, writer, mode, stepAt, cron, rum, usage, switches, deaths, seen, fresh,
             judged>>

\* The assumptions of Telemetry.
ASSUME TrafficAssumption ==
    /\ Mode \subseteq {"none", "defer", "interaction_delay"} /\ None \notin Cron \cup Mode \cup Nat
    /\ "interaction_delay" \in Mode => "defer" \in Mode
    /\ {TicksPerHour, HoursPerDay, Retention, MinViews, MaxUsage} \subseteq Nat \ {0}
    /\ {Window, Cooldown, MinBaseline, MaxTicks, MaxViews, MaxSwitches, MaxDeaths} \subseteq Nat
    /\ Window <= Cooldown

FilesInit ==
    /\ part \in {"entry", "traffic"}
    /\ Init
    /\ V!Init /\ (part = "traffic" \/ mode = CHOOSE m \in Mode : TRUE)

FilesNext ==
    /\ UNCHANGED part
    /\ \/ part = "entry"   /\ Next   /\ UNCHANGED traffic
       \/ part = "traffic" /\ V!Next /\ UNCHANGED vars

\* The fairness of PageCache, where the entry moves.
Entry == part = "entry"
FilesFairness ==
    /\ \A r \in Renderer : WF_vars(Entry /\ WriteStep(r))
    /\ \A p \in Purger : WF_vars(Entry /\ PurgeStep(p))
    /\ WF_vars(Entry /\ \E r \in Renderer : VisitStale(r) \/ VisitMiss(r))
    /\ WF_vars(Entry /\ \E r \in Renderer : CronRun(r))
    /\ WF_vars(Entry /\ TimePasses)

FilesSpec == FilesInit /\ [][FilesNext]_<<vars, traffic, part>> /\ FilesFairness

\* Stated and explained there.
DecidedOnFreshViews == V!DecidedOnFreshViews
===============================================================================
