------------------------------ MODULE MCTelemetry ------------------------------
(***************************************************************************)
(* What a site's plugin tells the edge of it: the traffic (Telemetry; half     *)
(* hours, one heartbeat at a time) and its health (SiteHealth). The two share   *)
(* no state: in each behaviour one of them moves.                             *)
(***************************************************************************)
EXTENDS Telemetry

CONSTANTS MaxPins, MaxLost

VARIABLES
    served, curable, loopback, health, throttled, report, job, score, deployed, visit,
    pins, lost,
    part

H == INSTANCE SiteHealth WITH mode <- deployed, faults <- lost, MaxFaults <- MaxLost

checkup == <<served, curable, loopback, health, throttled, report, job, score, deployed,
             visit, pins, lost>>

ReportsInit ==
    /\ part \in {"traffic", "health"}
    /\ Init /\ (part = "traffic" \/ mode = "defer")
    /\ H!Init /\ (part = "health" \/ (curable /\ score = None /\ deployed = "live"))

ReportsNext ==
    /\ UNCHANGED part
    /\ \/ part = "traffic" /\ Next   /\ UNCHANGED checkup
       \/ part = "health"  /\ H!Next /\ UNCHANGED vars

\* The fairness of the two, each of the part that moves.
Traffic == part = "traffic"
Health == part = "health"
ReportsFairness ==
    /\ WF_vars(Traffic /\ Write) /\ WF_vars(Traffic /\ Tick)
    /\ \A c \in Cron : WF_vars(Traffic /\ Run(c))
    /\ WF_checkup(Health /\ H!Heartbeat) /\ WF_checkup(Health /\ H!ForgetLoopback)
    /\ \A t \in {"push", "heal"} : WF_checkup(Health /\ H!Forget(t))

ReportsSpec == ReportsInit /\ [][ReportsNext]_<<vars, checkup, part>> /\ ReportsFairness

\* Stated and explained there.
UnservedIsNoticed == H!UnservedIsNoticed
================================================================================
