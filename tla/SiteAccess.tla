------------------------------ MODULE SiteAccess -------------------------------
(***************************************************************************)
(* Who may use a site: the subscriptions of one account, as the payment     *)
(* provider's webhooks report them (routes/billing.ts), the sites attached  *)
(* to them, and the KV entries that answer for a site without asking D1:    *)
(*                                                                         *)
(*   site         site:<domain>, the record that authenticates its calls;   *)
(*   msecret      msecret:<id>, the secret its media URLs are signed with;  *)
(*   siteactive   siteactive:<id>, whether its critical CSS is served.      *)
(*                                                                         *)
(* A subscription's end deactivates its sites: at once if it is revoked, by *)
(* the sweeper after the paid period if it is canceled. Webhooks arrive in  *)
(* any order, several at a time, and again until they are answered. D1 and  *)
(* KV are used one statement at a time.                                    *)
(*                                                                         *)
(* Time is counted in billing periods. Keys and secrets are left out: an    *)
(* entry is as good as the row it was read from. A domain paired again       *)
(* after its deletion has a new id; its entries stay under the domain here. *)
(***************************************************************************)
EXTENDS Naturals, Sequences, FiniteSets

CONSTANTS
    Subscription, Site,
    Hook,           \* webhook deliveries handled at the same time
    Owner,          \* requests of the account's owner: pair, register, delete
    Caller,         \* requests that read a KV entry, or rewrite the site's record
    Sweeper,
    None,
    Entry,          \* the KV entries kept in the model
    Reported,       \* the statuses an update may report
    MaxSites,       \* subscription.max_sites
    MaxEvents,      \* bound on the provider's events
    MaxRequests,    \* bound on the requests of owners, and of callers that rewrite
    MaxTime,        \* bound on billing periods
    MaxCrashes      \* bound on interrupted invocations

ASSUME ActorAssumption ==
    /\ Hook \cap Owner = {} /\ Hook \cap Caller = {} /\ Owner \cap Caller = {}
    /\ Sweeper \notin Hook \cup Owner \cup Caller
ASSUME EntryAssumption == "site" \in Entry /\ Entry \subseteq {"site", "msecret", "siteactive"}
ASSUME ReportedAssumption == Reported \subseteq {"active", "past_due", "canceled"}
ASSUME NoneAssumption == None \notin Subscription
ASSUME BoundAssumption ==
    {MaxSites, MaxEvents, MaxRequests, MaxTime, MaxCrashes} \subseteq Nat

Actor == Hook \cup Owner \cup Caller \cup {Sweeper}

\* The entries deleted before entry k when a site's are.
Before(k) == CASE k = "site"       -> {}
               [] k = "msecret"    -> {"site"}
               [] k = "siteactive" -> {"site", "msecret"}

VARIABLES
    now,        \* the billing period it is
    events,     \* the provider's events so far, in order
    processed,  \* those marked as processed (polar_event:<id>)
    subs,       \* the subscriptions rows: status, and the last period paid for
    sites,      \* the sites rows: subscription_id and is_active, or None
    cache,      \* cache[k][d]: what KV entry k of site d says
    proc,       \* the statement each actor is about to execute, and what it has in hand
    requests, crashes

vars == <<now, events, processed, subs, sites, cache, proc, requests, crashes>>

Idle == [pc |-> "idle"]

At(a, pc)   == proc[a].pc = pc
Become(a, state) == proc' = [proc EXCEPT ![a] = state]
Goto(a, pc) == proc' = [proc EXCEPT ![a].pc = pc]
Rest(a)     == Become(a, Idle)

Paired == {d \in Site : sites[d] # None}
Active(d) == d \in Paired /\ sites[d].active
ActiveSites == {d \in Site : Active(d)}

-----------------------------------------------------------------------------
(***************************************************************************)
(* The provider                                                            *)
(***************************************************************************)
Of(s) == {i \in DOMAIN events : events[i].sub = s}

\* A subscription is created, then updated (renewed, past due, canceled or resumed),
\* canceled, and revoked; a revoked one is over. Only of an update is the status read.
Emit(s, kind, status) ==
    /\ Len(events) < MaxEvents
    /\ Of(s) = {} => kind = "upsert" /\ status = "active"
    /\ \A i \in Of(s) : events[i].kind # "revoke"
    /\ events' = Append(events, [sub |-> s, kind |-> kind, status |-> status, end |-> now])
    /\ UNCHANGED <<now, processed, subs, sites, cache, proc, requests, crashes>>

Tick ==
    /\ now < MaxTime
    /\ now' = now + 1
    /\ UNCHANGED <<events, processed, subs, sites, cache, proc, requests, crashes>>

-----------------------------------------------------------------------------
(***************************************************************************)
(* The webhook                                                             *)
(***************************************************************************)
\* An event is delivered until it is answered with success; one that is marked as
\* processed is answered without further ado.
Deliver(h, i) ==
    /\ At(h, "idle") /\ i \notin processed
    /\ Become(h, [pc |-> events[i].kind, event |-> i])
    /\ UNCHANGED <<now, events, processed, subs, sites, cache, requests, crashes>>

\* subscription.created, .updated, .active: the row becomes what the event says. No
\* site is touched.
Upsert(h) ==
    /\ At(h, "upsert")
    /\ LET e == events[proc[h].event] IN
       subs' = [subs EXCEPT ![e.sub] = [status |-> e.status, end |-> e.end]]
    /\ Goto(h, "mark")
    /\ UNCHANGED <<now, events, processed, sites, cache, requests, crashes>>

\* UPDATE ... SET status = ending WHERE id = ?
End(s, ending) ==
    subs' = IF subs[s] = None THEN subs ELSE [subs EXCEPT ![s].status = ending]

Cancel(h) ==
    /\ At(h, "cancel")
    /\ End(events[proc[h].event].sub, "canceled")
    /\ Goto(h, "mark")
    /\ UNCHANGED <<now, events, processed, sites, cache, requests, crashes>>

Revoke(h) ==
    /\ At(h, "revoke")
    /\ End(events[proc[h].event].sub, "revoked")
    /\ Goto(h, "affected")
    /\ UNCHANGED <<now, events, processed, sites, cache, requests, crashes>>

\* The entries to delete once the sites in ds are deactivated.
Affected(h) ==
    /\ At(h, "affected")
    /\ LET s == events[proc[h].event].sub
           ds == {d \in ActiveSites : sites[d].sub = s}
       IN  Become(h, [pc |-> "deactivate", event |-> proc[h].event, left |-> Entry \X ds])
    /\ UNCHANGED <<now, events, processed, subs, sites, cache, requests, crashes>>

\* UPDATE sites SET is_active = 0 of the sites attached to a subscription in ss.
Deactivated(ss) ==
    [d \in Site |-> IF d \in Paired /\ sites[d].sub \in ss
                    THEN [sites[d] EXCEPT !.active = FALSE]
                    ELSE sites[d]]

Deactivate(h) ==
    /\ At(h, "deactivate")
    /\ sites' = Deactivated({events[proc[h].event].sub})
    /\ Goto(h, "purge")
    /\ UNCHANGED <<now, events, processed, subs, cache, requests, crashes>>

\* The entries of the sites in hand are deleted, a site's in their order.
PurgeEntry(a) ==
    /\ At(a, "purge")
    /\ \E k \in Entry, d \in Site :
          /\ <<k, d>> \in proc[a].left
          /\ \A l \in Before(k) : <<l, d>> \notin proc[a].left
          /\ cache' = [cache EXCEPT ![k][d] = "absent"]
          /\ proc' = [proc EXCEPT ![a].left = @ \ {<<k, d>>}]
    /\ UNCHANGED <<now, events, processed, subs, sites, requests, crashes>>

Purged(a) ==
    /\ At(a, "purge") /\ proc[a].left = {}
    /\ IF a \in Hook THEN Goto(a, "mark") ELSE Rest(a)
    /\ UNCHANGED <<now, events, processed, subs, sites, cache, requests, crashes>>

Mark(h) ==
    /\ At(h, "mark")
    /\ processed' = processed \cup {proc[h].event}
    /\ Rest(h)
    /\ UNCHANGED <<now, events, subs, sites, cache, requests, crashes>>

-----------------------------------------------------------------------------
(***************************************************************************)
(* The sweeper: canceled subscriptions whose paid period has ended          *)
(***************************************************************************)
\* Mutant of Lapsed: whatever is past its period's end.
LapsedUnpaid == {s \in Subscription : subs[s] # None /\ subs[s].end < now}

\* Mutant of Lapsed: a period of grace.
LapsedLater ==
    {s \in Subscription : /\ subs[s] # None /\ subs[s].status = "canceled"
                          /\ subs[s].end + 1 < now}

Lapsed ==
    {s \in Subscription : /\ subs[s] # None /\ subs[s].status = "canceled"
                          /\ subs[s].end < now}

SweepSelect ==
    LET ds == {d \in ActiveSites : sites[d].sub \in Lapsed} IN
    /\ At(Sweeper, "idle") /\ ds # {}
    /\ Become(Sweeper, [pc |-> "sweep", left |-> Entry \X ds])
    /\ UNCHANGED <<now, events, processed, subs, sites, cache, requests, crashes>>

\* The UPDATE looks for lapsed subscriptions itself.
SweepUpdate ==
    /\ At(Sweeper, "sweep")
    /\ sites' = Deactivated(Lapsed)
    /\ Goto(Sweeper, "purge")
    /\ UNCHANGED <<now, events, processed, subs, cache, requests, crashes>>

-----------------------------------------------------------------------------
(***************************************************************************)
(* The owner: POST /auth/pair and POST /sites, which differ in what they do *)
(* with a domain that has a site already, and DELETE /sites/:id             *)
(***************************************************************************)
\* The code asks for active or trialing, which are one status here.
Paying(s) == subs[s] # None /\ subs[s].status = "active"

\* loadSubscriptionForScope: an active subscription, of the latest end.
Load(o, route, d) ==
    /\ At(o, "idle") /\ requests < MaxRequests
    /\ \E s \in Subscription :
          /\ Paying(s)
          /\ \A t \in Subscription : Paying(t) => subs[t].end <= subs[s].end
          /\ Become(o, [pc |-> "count", route |-> route, site |-> d, sub |-> s])
    /\ requests' = requests + 1
    /\ UNCHANGED <<now, events, processed, subs, sites, cache, crashes>>

\* A full account is refused, unless it pairs a domain that it has, active or not:
\* the count, and pair's look for the site, are one step.
Count(o) ==
    /\ At(o, "count")
    /\ IF \/ Cardinality(ActiveSites) < MaxSites
          \/ proc[o].route = "pair" /\ proc[o].site \in Paired
       THEN Goto(o, "attach")
       ELSE Rest(o)
    /\ UNCHANGED <<now, events, processed, subs, sites, cache, requests, crashes>>

\* The upsert activates the site; a site there is keeps its subscription, unless it is
\* paired.
Attach(o) ==
    /\ At(o, "attach")
    /\ LET d == proc[o].site
           keeps == proc[o].route = "register" /\ d \in Paired
       IN  sites' = [sites EXCEPT ![d] =
                        [sub |-> IF keeps THEN sites[d].sub ELSE proc[o].sub,
                         active |-> TRUE]]
    /\ Goto(o, "enter")
    /\ UNCHANGED <<now, events, processed, subs, cache, requests, crashes>>

Enter(o) ==
    /\ At(o, "enter")
    /\ cache' = [cache EXCEPT !["site"][proc[o].site] = "granted"]
    /\ Rest(o)
    /\ UNCHANGED <<now, events, processed, subs, sites, requests, crashes>>

Delete(o, d) ==
    /\ At(o, "idle") /\ d \in Paired /\ requests < MaxRequests
    /\ sites' = [sites EXCEPT ![d] = None]
    /\ Become(o, [pc |-> "purge", left |-> Entry \X {d}])
    /\ requests' = requests + 1
    /\ UNCHANGED <<now, events, processed, subs, cache, crashes>>

-----------------------------------------------------------------------------
(***************************************************************************)
(* Requests that are answered from an entry. A missing one is filled from   *)
(* the row; a verify, a heartbeat or a saved config rewrites the site's.    *)
(***************************************************************************)
Miss(c, k, d) ==
    /\ At(c, "idle") /\ cache[k][d] = "absent"
    /\ Become(c, [pc |-> "lookup", entry |-> k, site |-> d])
    /\ UNCHANGED <<now, events, processed, subs, sites, cache, requests, crashes>>

\* What the row makes of the entry. The middleware keeps nothing of an unknown site,
\* and no refusal of a media signature is kept.
Answer(k, d) ==
    CASE Active(d)                        -> "granted"
      [] ~Active(d) /\ k = "siteactive"   -> "refused"
      [] ~Active(d) /\ k = "site"         -> IF d \in Paired THEN "refused" ELSE "absent"
      [] ~Active(d) /\ k = "msecret"      -> "absent"

Lookup(c) ==
    LET k == proc[c].entry
        d == proc[c].site
    IN
    /\ At(c, "lookup")
    /\ IF Answer(k, d) = "absent"
       THEN Rest(c)
       ELSE Become(c, [pc |-> "put", entry |-> k, site |-> d, value |-> Answer(k, d)])
    /\ UNCHANGED <<now, events, processed, subs, sites, cache, requests, crashes>>

Rewrite(c, d) ==
    /\ At(c, "idle") /\ cache["site"][d] # "absent" /\ requests < MaxRequests
    /\ Become(c, [pc |-> "put", entry |-> "site", site |-> d, value |-> cache["site"][d]])
    /\ requests' = requests + 1
    /\ UNCHANGED <<now, events, processed, subs, sites, cache, crashes>>

Put(c) ==
    /\ At(c, "put")
    /\ cache' = [cache EXCEPT ![proc[c].entry][proc[c].site] = proc[c].value]
    /\ Rest(c)
    /\ UNCHANGED <<now, events, processed, subs, sites, requests, crashes>>

\* Mutant of Expire: only what grants access is given a TTL.
ExpireGranted(k, d) ==
    /\ cache[k][d] = "granted"
    /\ cache' = [cache EXCEPT ![k][d] = "absent"]
    /\ UNCHANGED <<now, events, processed, subs, sites, proc, requests, crashes>>

\* An hour (five minutes for siteactive) after it was last written.
Expire(k, d) ==
    /\ cache[k][d] # "absent"
    /\ cache' = [cache EXCEPT ![k][d] = "absent"]
    /\ UNCHANGED <<now, events, processed, subs, sites, proc, requests, crashes>>

-----------------------------------------------------------------------------
\* An invocation is evicted, or one of its statements throws; of a webhook the
\* provider is told so, and tries again.
Crash(a) ==
    /\ ~At(a, "idle") /\ crashes < MaxCrashes
    /\ crashes' = crashes + 1
    /\ Rest(a)
    /\ UNCHANGED <<now, events, processed, subs, sites, cache, requests>>

Init ==
    /\ now = 0
    /\ events = <<>>
    /\ processed = {}
    /\ subs = [s \in Subscription |-> None]
    /\ sites = [d \in Site |-> None]
    /\ cache = [k \in Entry |-> [d \in Site |-> "absent"]]
    /\ proc = [a \in Actor |-> Idle]
    /\ requests = 0 /\ crashes = 0

Provide ==
    \/ \E s \in Subscription, status \in Reported \cup {"active"} :
          Emit(s, "upsert", status)
    \/ \E s \in Subscription : Emit(s, "cancel", "canceled") \/ Emit(s, "revoke", "canceled")

HookStep(h) ==
    \/ Upsert(h) \/ Cancel(h)
    \/ Revoke(h) \/ Affected(h) \/ Deactivate(h) \/ PurgeEntry(h) \/ Purged(h)
    \/ Mark(h)

SweeperStep == SweepSelect \/ SweepUpdate \/ PurgeEntry(Sweeper) \/ Purged(Sweeper)

Ask(o) ==
    \/ \E route \in {"pair", "register"}, d \in Site : Load(o, route, d)
    \/ \E d \in Site : Delete(o, d)

OwnerStep(o) ==
    Count(o) \/ Attach(o) \/ Enter(o) \/ PurgeEntry(o) \/ Purged(o)

CallerStep(c) ==
    \/ \E k \in Entry, d \in Site : Miss(c, k, d)
    \/ \E d \in Site : Rewrite(c, d)
    \/ Lookup(c) \/ Put(c)

Next ==
    \/ Provide \/ Tick
    \/ \E h \in Hook : (\E i \in DOMAIN events : Deliver(h, i)) \/ HookStep(h)
    \/ SweeperStep
    \/ \E o \in Owner : Ask(o) \/ OwnerStep(o)
    \/ \E c \in Caller : CallerStep(c)
    \/ \E k \in Entry, d \in Site : Expire(k, d)
    \/ \E a \in Actor : Crash(a)

Spec == Init /\ [][Next]_vars

\* The provider delivers an event until it is answered, an invocation goes on unless
\* it crashes, cron starts the sweeper, entries expire.
Fairness ==
    /\ \A i \in 1..MaxEvents : WF_vars(\E h \in Hook : i \in DOMAIN events /\ Deliver(h, i))
    /\ \A h \in Hook : WF_vars(HookStep(h))
    /\ WF_vars(SweeperStep)
    /\ \A o \in Owner : WF_vars(OwnerStep(o))
    /\ \A c \in Caller : WF_vars(Lookup(c) \/ Put(c))
    /\ \A k \in Entry, d \in Site : WF_vars(Expire(k, d))

-----------------------------------------------------------------------------
(***************************************************************************)
(* Properties                                                              *)
(***************************************************************************)
Status == {"active", "past_due", "canceled", "revoked"}
Value  == {"granted", "refused"}

HookState == {Idle}
    \cup [pc : {"upsert", "cancel", "revoke", "affected", "mark"}, event : 1..MaxEvents]
    \cup [pc : {"deactivate", "purge", "mark"}, event : 1..MaxEvents,
          left : SUBSET (Entry \X Site)]
OwnerState == {Idle}
    \cup [pc : {"count", "attach", "enter"}, route : {"pair", "register"}, site : Site,
          sub : Subscription]
    \cup [pc : {"purge"}, left : SUBSET (Entry \X Site)]
CallerState == {Idle}
    \cup [pc : {"lookup"}, entry : Entry, site : Site]
    \cup [pc : {"put"}, entry : Entry, site : Site, value : Value]
SweeperState == {Idle} \cup [pc : {"sweep", "purge"}, left : SUBSET (Entry \X Site)]

TypeOK ==
    /\ now \in 0..MaxTime
    /\ events \in Seq([sub : Subscription, kind : {"upsert", "cancel", "revoke"},
                       status : Status, end : 0..MaxTime])
    /\ Len(events) <= MaxEvents
    /\ processed \subseteq DOMAIN events
    /\ subs \in [Subscription -> {None} \cup [status : Status, end : 0..MaxTime]]
    /\ sites \in [Site -> {None} \cup [sub : Subscription, active : BOOLEAN]]
    /\ cache \in [Entry -> [Site -> {"absent"} \cup Value]]
    /\ DOMAIN proc = Actor
    /\ \A h \in Hook : proc[h] \in HookState
    /\ \A o \in Owner : proc[o] \in OwnerState
    /\ \A c \in Caller : proc[c] \in CallerState
    /\ proc[Sweeper] \in SweeperState
    /\ requests \in 0..MaxRequests /\ crashes \in 0..MaxCrashes

\* A subscription's end that the provider has announced: a revocation, or a
\* cancellation and the end of the period paid for.
Ended(s) ==
    \E i \in Of(s) : \/ events[i].kind = "revoke"
                      \/ /\ events[i].status = "canceled"
                         /\ subs[s].end < now

\* "canceled keeps sites active until current_period_end (sweeper deactivates after);
\* revoked deactivates immediately" (docs/SETUP.md:210): nothing else deactivates a
\* site, whatever webhooks are delivered late, twice or while the sweeper runs.
DeactivatedForCause ==
    [][\A d \in Site :
          Active(d) /\ sites'[d] # None /\ ~sites'[d].active => Ended(sites[d].sub)]_vars

\* And it does: a site does not stay active on a canceled subscription that has come to
\* its end, though the sweeper crashes between its statements or meets a webhook.
Overdue(d) ==
    /\ Active(d)
    /\ subs[sites[d].sub].status = "canceled" /\ subs[sites[d].sub].end < now
EndsWithPeriod == \A d \in Site : Overdue(d) ~> ~Overdue(d)

\* KV is never told apart from D1 for good: entries purged before a late put, or not at
\* all by a handler that crashed, and refusals kept while the site was paired again,
\* all agree with the row in the end.
Agrees(k, d) == cache[k][d] # "absent" => (cache[k][d] = "granted" <=> Active(d))
CachesCatchUp == []<>(\A k \in Entry, d \in Site : Agrees(k, d))
=============================================================================
