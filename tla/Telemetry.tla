------------------------------- MODULE Telemetry -------------------------------
(***************************************************************************)
(* What visitors' browsers report of a site (class-telemetry.php), how the  *)
(* plugin forwards it to the edge (POST /rum in routes/auth.ts), and the     *)
(* automatic step down of the script mode it decides (class-auto-degrade).   *)
(*                                                                         *)
(* rum.json counts views and errors per hour and mode for Retention hours.   *)
(* An hourly run pushes its sums per day, which replace the day's rows and   *)
(* are added to the traffic of the billing period, and then judges the last  *)
(* Window hours. Beacons take turns at the file by flock; readers take no    *)
(* lock and can find it truncated. Time is counted in ticks, TicksPerHour to  *)
(* the hour: no run lasts a tick. Samples of LCP and CLS, and the paths of    *)
(* pages with errors, are left out.                                         *)
(***************************************************************************)
EXTENDS Naturals, FiniteSetsExt

CONSTANTS
    Cron,           \* runs of the hourly and daily heartbeats at the same time
    None,
    Mode,           \* the modes beacons report
    TicksPerHour, HoursPerDay,
    Retention,      \* HOUR_RETENTION (25)
    Window,         \* WINDOW_HOURS (6)
    Cooldown,       \* STEP_COOLDOWN (6)
    MinViews,       \* MIN_VIEWS (300)
    MinBaseline,    \* views another mode's hour needs to be a baseline (100)
    MaxTicks, MaxViews, MaxSwitches, MaxFaults,     \* bounds
    MaxUsage        \* where the count of billed views is cut off

ASSUME ModeAssumption ==
    /\ Mode \subseteq {"none", "defer", "interaction_delay"}
    /\ "interaction_delay" \in Mode => "defer" \in Mode
    /\ None \notin Cron \cup Mode \cup Nat
ASSUME SizeAssumption ==
    /\ {TicksPerHour, HoursPerDay, Retention, MinViews, MaxUsage} \subseteq Nat \ {0}
    /\ {Window, Cooldown, MinBaseline, MaxTicks, MaxViews, MaxSwitches, MaxFaults} \subseteq Nat
    /\ Window <= Cooldown

Hour == 0..(MaxTicks \div TicksPerHour)
Day  == 0..(MaxTicks \div (TicksPerHour * HoursPerDay))
DayOf(h) == h \div HoursPerDay
Errors == {0, 2}     \* of one beacon; MAX_ERRORS_PER_BEACON allows five
Zero == [v |-> 0, e |-> 0]
Plus(x, y) == [v |-> x.v + y.v, e |-> x.e + y.e]
Empty == [h \in Hour |-> [m \in Mode |-> Zero]]

VARIABLES
    now,        \* the tick
    hours,      \* rum.json: views and errors of each hour and mode
    writer,     \* the beacon that has truncated the file and not yet written it, or None
    mode,       \* javascript.execution_mode
    stepAt,     \* wp_instant_auto_degrade.at, or None
    cron,       \* the statement each run is about to execute, and what it has read
    rum,        \* rum_daily: the row of each day and mode
    usage,      \* usage_periods.pageviews_used
    switches, faults,
    seen,       \* history: the views recorded for each day and mode
    fresh,      \* history: the views recorded for each mode since the last step
    judged      \* history: the views the last step counted, and those it could rely on

file == <<hours, writer>>
conf == <<mode, stepAt>>
edge == <<rum, usage>>
hist == <<seen, fresh, judged>>
vars == <<now, file, conf, cron, edge, switches, faults, hist>>

Idle == [pc |-> "idle", rows |-> {}, sum |-> 0, mode |-> None, views |-> 0]
At(c, pc) == cron[c].pc = pc
Become(c, p) == cron' = [cron EXCEPT ![c] = p]
Goto(c, pc) == cron' = [cron EXCEPT ![c].pc = pc]
Fault == faults < MaxFaults /\ faults' = faults + 1

ThisHour == now \div TicksPerHour

\* Whether hour h began no more than span hours ago. A tick is an instant within its
\* part of the hour, never on the hour.
Since(h, span) == (h + span) * TicksPerHour > now

-----------------------------------------------------------------------------
(***************************************************************************)
(* Beacons                                                                 *)
(***************************************************************************)
\* The hours record() keeps.
Pruned == [h \in Hour |-> IF Since(h, Retention) THEN hours[h] ELSE Empty[h]]

Beacon(m, e) ==
    /\ writer = None /\ MapThenSumSet(LAMBDA d : MapThenSumSet(LAMBDA x : seen[d][x].v, Mode), Day) < MaxViews
    /\ writer' = [hours |-> [Pruned EXCEPT ![ThisHour][m] = Plus(@, [v |-> 1, e |-> e])],
                  mode |-> m, views |-> [v |-> 1, e |-> e]]
    /\ hours' = Empty
    /\ UNCHANGED <<now, conf, cron, edge, switches, faults, hist>>

Write ==
    /\ writer # None
    /\ hours' = writer.hours /\ writer' = None
    /\ seen' = [seen EXCEPT ![DayOf(ThisHour)][writer.mode] = Plus(@, writer.views)]
    /\ fresh' = [fresh EXCEPT ![writer.mode] = @ + writer.views.v]
    /\ UNCHANGED <<now, conf, cron, edge, switches, faults, judged>>

\* The request dies with the file truncated: a day of hours is gone.
WriterDies ==
    /\ writer # None /\ Fault
    /\ writer' = None
    /\ UNCHANGED <<now, hours, conf, cron, edge, switches, hist>>

-----------------------------------------------------------------------------
(***************************************************************************)
(* The push                                                                *)
(***************************************************************************)
SumOver(S, m) ==
    [v |-> SumFunctionOnSet([h \in Hour |-> hours[h][m].v], S),
     e |-> SumFunctionOnSet([h \in Hour |-> hours[h][m].e], S)]
SumOf(d, m) == SumOver({h \in Hour : DayOf(h) = d}, m)

Rows == {x \in [day : Day, mode : Mode, views : {SumOf(d, m) : d \in Day, m \in Mode}] :
            x.views.v > 0 /\ x.views = SumOf(x.day, x.mode)}

\* The configuration is the one this request has loaded.
Begin(c) ==
    /\ At(c, "idle")
    /\ Become(c, [Idle EXCEPT !.pc = "read", !.mode = mode])
    /\ UNCHANGED <<now, file, conf, edge, switches, faults, hist>>

Aggregate(c) ==
    /\ At(c, "read")
    /\ Become(c, [cron[c] EXCEPT !.pc = IF Rows = {} THEN "judge" ELSE "store", !.rows = Rows])
    /\ UNCHANGED <<now, file, conf, edge, switches, faults, hist>>

Clamped(views) == [views EXCEPT !.e = IF @ > views.v THEN views.v ELSE @]

\* Mutant of Upsert: ON CONFLICT DO NOTHING.
UpsertOnce(c) ==
    /\ At(c, "store")
    /\ \E x \in cron[c].rows :
        /\ rum' = [rum EXCEPT ![x.day][x.mode] = IF @ = Zero THEN Clamped(x.views) ELSE @]
        /\ Become(c, [cron[c] EXCEPT !.rows = @ \ {x}, !.sum = @ + x.views.v])
    /\ UNCHANGED <<now, file, conf, usage, switches, faults, hist>>

\* One row of rum_daily.
Upsert(c) ==
    /\ At(c, "store")
    /\ \E x \in cron[c].rows :
        /\ rum' = [rum EXCEPT ![x.day][x.mode] = Clamped(x.views)]
        /\ Become(c, [cron[c] EXCEPT !.rows = @ \ {x}, !.sum = @ + x.views.v])
    /\ UNCHANGED <<now, file, conf, usage, switches, faults, hist>>

\* recordTrafficUsage, for the site's subscription.
AddUsage(c) ==
    /\ At(c, "store") /\ cron[c].rows = {}
    /\ usage' = IF usage + cron[c].sum > MaxUsage THEN MaxUsage ELSE usage + cron[c].sum
    /\ Goto(c, "judge")
    /\ UNCHANGED <<now, file, conf, rum, switches, faults, hist>>

\* The push stops at some row; whatever the plugin is told, it goes on to judge.
PushFails(c) ==
    /\ At(c, "store") /\ Fault
    /\ Goto(c, "judge")
    /\ UNCHANGED <<now, file, conf, edge, switches, hist>>

-----------------------------------------------------------------------------
(***************************************************************************)
(* AutoDegrade                                                             *)
(***************************************************************************)
StepMap(m) == IF m = "interaction_delay" THEN "defer" ELSE "none"
InWindow == {h \in Hour : h <= ThisHour /\ Since(h, Window)}
Views(m)  == SumOver(InWindow, m).v
Failed(m) == SumOver(InWindow, m).e

\* The hours of other modes that count: those without an error do not.
Baselines(m) == {b \in {hours[h][x] : h \in InWindow, x \in Mode \ {m}} :
                    b.v >= MinBaseline /\ b.e > 0}

\* More than 1%, and more than twice the lowest baseline.
TooMany(m) ==
    /\ Views(m) >= MinViews
    /\ Failed(m) * 100 > Views(m)
    /\ \/ Baselines(m) = {}
       \/ \E b \in Baselines(m) : Failed(m) * b.v > 2 * b.e * Views(m)

\* Mutant of Cooled: the cooldown is an hour shorter than the window.
CooledEarly == stepAt = None \/ now - stepAt >= (Cooldown - 1) * TicksPerHour
Cooled == stepAt = None \/ now - stepAt >= Cooldown * TicksPerHour

Judge(c) ==
    /\ At(c, "judge")
    /\ IF cron[c].mode # "none" /\ Cooled /\ TooMany(cron[c].mode)
       THEN Become(c, [cron[c] EXCEPT !.pc = "step", !.views = Views(cron[c].mode)])
       ELSE Become(c, Idle)
    /\ UNCHANGED <<now, file, conf, edge, switches, faults, hist>>

SetMode(c) ==
    /\ At(c, "step")
    /\ mode' = StepMap(cron[c].mode)
    /\ Goto(c, "mark")
    /\ judged' = [counted |-> cron[c].views, fresh |-> fresh[cron[c].mode]]
    /\ UNCHANGED <<now, file, stepAt, edge, switches, faults, seen, fresh>>

\* After the purges, the step is dated.
Mark(c) ==
    /\ At(c, "mark")
    /\ stepAt' = now
    /\ fresh' = [m \in Mode |-> 0]
    /\ Become(c, Idle)
    /\ UNCHANGED <<now, file, mode, edge, switches, faults, seen, judged>>

\* The owner sets the mode, in wp-admin or in the dashboard.
Switch(m) ==
    /\ switches < MaxSwitches /\ m # mode
    /\ mode' = m /\ switches' = switches + 1
    /\ UNCHANGED <<now, file, stepAt, cron, edge, faults, hist>>

Tick ==
    /\ now < MaxTicks /\ writer = None /\ \A c \in Cron : At(c, "idle")
    /\ now' = now + 1
    /\ UNCHANGED <<file, conf, cron, edge, switches, faults, hist>>

Init ==
    /\ now = 0 /\ hours = Empty /\ writer = None
    /\ mode \in Mode /\ stepAt = None
    /\ cron = [c \in Cron |-> Idle]
    /\ rum = [d \in Day |-> [m \in Mode |-> Zero]] /\ usage = 0
    /\ switches = 0 /\ faults = 0
    /\ seen = [d \in Day |-> [m \in Mode |-> Zero]]
    /\ fresh = [m \in Mode |-> 0] /\ judged = [counted |-> 0, fresh |-> 0]

Run(c) == Begin(c) \/ Aggregate(c) \/ Upsert(c) \/ AddUsage(c) \/ Judge(c) \/ SetMode(c) \/ Mark(c)

Next ==
    \/ \E m \in Mode, e \in Errors : Beacon(m, e)
    \/ Write \/ WriterDies
    \/ \E c \in Cron : Run(c) \/ PushFails(c)
    \/ \E m \in Mode : Switch(m)
    \/ Tick

Fairness == WF_vars(Write) /\ WF_vars(Tick) /\ \A c \in Cron : WF_vars(Run(c))

Spec == Init /\ [][Next]_vars /\ Fairness

-----------------------------------------------------------------------------

\* A step down is decided on views that came after the step before it: an hour that
\* was counted for one step is outside the window when the next may be taken.
DecidedOnFreshViews == judged.counted <= judged.fresh

\* The rows of the days in rum.json become what the file says, pushes that stop
\* half-way and truncated reads notwithstanding.
RowsCatchUp ==
    <>[](writer = None /\ \A x \in Rows : rum[x.day][x.mode] = Clamped(x.views))

================================================================================
