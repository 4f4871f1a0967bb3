------------------------------- MODULE MCPortal -------------------------------
(* One tab of the browser, which shows one part of the portal: the connect     *)
(* page (two requests at a time, two keys), the jobs, the plan, the checkout     *)
(* that a plan's button opens, the bell or the settings of a site. The other    *)
(* parts do not move.                                                         *)
EXTENDS Pairing

CONSTANTS Job, Read, PageSize, MaxChanges, MaxLost, MaxClicks,
          Refresh, Check, MaxAttempts, MaxOutages,
          MaxNews, MaxRuns,
          MaxEdits, MaxReads

VARIABLES
    job, list, cursor, path, loading, step, launched, call, changes, lost, clicks,
    subscribed, plan, spot, verifying, attempts, answer, outages,
    news, overview, run, asked, found, shown,
    stored, copy, draft, dirty, busy, status, puts, reads, answers, edited, edits,
    home, stock, override, hint, req,
    tab

F == INSTANCE Fleet
U == INSTANCE Purchase
B == INSTANCE Attention
S == INSTANCE SettingsForms
C == INSTANCE Checkout

\* Absence is none of the configurations a form may hold.
Config == [preset : {"plain", "strong"}, body : Nat, deploy : {"test", "live"}]
ASSUME AbsenceAssumption == None \notin Config

\* The jobs of a tab that does not show them: nothing is read.
NoJobs ==
    /\ job = [j \in Job |-> None] /\ list = <<>> /\ cursor = 0
    /\ path = "overview" /\ loading = TRUE /\ step = 0 /\ launched = FALSE
    /\ call = [r \in Read |-> F!Quiet]
    /\ changes = 0 /\ lost = 0 /\ clicks = 0

jobs     == <<job, list, cursor, path, loading, step, launched, call, changes, lost, clicks>>
purchase == <<subscribed, plan, spot, verifying, attempts, answer, outages>>
bell     == <<news, overview, run, asked, found, shown>>
settings == <<stored, copy, draft, dirty, busy, status, puts, reads, answers, edited, edits>>
billing  == <<home, stock, override, hint, req>>

PortalInit ==
    /\ tab \in {"connect", "jobs", "plan", "checkout", "bell", "settings"}
    /\ Init /\ (paid => tab = "connect")
    /\ IF tab = "jobs" THEN F!Init ELSE NoJobs
    /\ U!Init /\ (tab # "plan" => ~subscribed /\ ~verifying /\ spot = "open")
    /\ B!Init /\ (overview => tab = "bell")
    /\ S!Init /\ (tab # "settings" => stored = S!Factory)
    /\ C!Init /\ (tab # "checkout" => home = None /\ override = None /\ hint = None
                                     /\ stock = {})

PortalNext ==
    /\ UNCHANGED tab
    /\ \/ tab = "connect"  /\ Next   /\ UNCHANGED <<jobs, purchase, bell, settings, billing>>
       \/ tab = "jobs"     /\ F!Next /\ UNCHANGED <<vars, purchase, bell, settings, billing>>
       \/ tab = "plan"     /\ U!Next /\ UNCHANGED <<vars, jobs, bell, settings, billing>>
       \/ tab = "bell"     /\ B!Next /\ UNCHANGED <<vars, jobs, purchase, settings, billing>>
       \/ tab = "settings" /\ S!Next /\ UNCHANGED <<vars, jobs, purchase, bell, billing>>
       \/ tab = "checkout" /\ C!Next /\ UNCHANGED <<vars, jobs, purchase, bell, settings>>

PortalVars == <<vars, jobs, purchase, bell, settings, billing, tab>>

PortalSpec ==
    PortalInit /\ [][PortalNext]_PortalVars /\ Fairness /\ F!Fairness /\ U!Fairness

\* The properties of the parts, stated and explained there.
ListCatchesUp == F!ListCatchesUp
VerificationEnds == U!VerificationEnds
FeedNeverGoesBack == B!FeedNeverGoesBack
EditsStay == S!EditsStay
SellsWhatItCan == C!SellsWhatItCan
================================================================================
