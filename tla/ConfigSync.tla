------------------------------ MODULE ConfigSync ------------------------------
(***************************************************************************)
(* How one site's configuration travels between its three copies:          *)
(*                                                                         *)
(*   row     sites.config_json in D1, which the dashboard reads and edits; *)
(*   kv      the config inside the site:<domain> cache entry, which the    *)
(*           site's own calls are authenticated and answered from;         *)
(*   option  the plugin's stored option, which decides what visitors get.  *)
(*                                                                         *)
(* The dashboard pushes its edits to the plugin (config and deploy         *)
(* commands); the plugin mirrors its option through /verify and adopts the *)
(* edge's copy through /heartbeat.  Each PHP request works on the copy of  *)
(* the option it loaded when it started and writes the whole of it back.   *)
(*                                                                         *)
(* Of the settings the model keeps which edit they come from (rev) and     *)
(* whether media offload is on (cdn), since the plugin also turns that on  *)
(* by itself.  deployment.source is 'dashboard' or missing (dash).         *)
(***************************************************************************)
EXTENDS Naturals, FiniteSets

CONSTANTS
    Dashboard,      \* dashboard requests that may run at the same time
    Worker,         \* PHP requests that may run at the same time
    Cron,           \* the worker of the daily health cron
    None,           \* no value: a missing KV entry, an unused field
    Tries,          \* times a config is pushed: 2 by /sites, 1 by /embed
    Offload,        \* the choices of media offload that an edit may make
    MaxEdits,       \* bound on the edits made in the dashboard and in wp-admin
    MaxCalls,       \* bound on the plugin's calls outside the daily cron
    MaxLost         \* bound on lost pushes, interrupted calls and expired entries

ASSUME BoundsAssumption == {MaxEdits, MaxCalls, MaxLost} \subseteq Nat
ASSUME CronAssumption == Cron \in Worker
ASSUME TriesAssumption == Tries \in 1..2
ASSUME OffloadAssumption == Offload \subseteq BOOLEAN

Status   == {"test", "live"}
Settings == [rev : 0..MaxEdits, cdn : BOOLEAN]
Config   == [settings : Settings, status : Status, dash : BOOLEAN]
Option   == [settings : Settings, status : Status]

\* What a PHP request is asked to do to the option. "config" and "deploy" are the
\* dashboard's pushes: the n-th edit sends try 1 and try 2 of the first, try 0 of the second.
Order == [what : {"page", "preset", "assets", "switch", "config", "deploy"},
          settings : Settings, status : Status, try : 0..2]

ASSUME NoneAssumption == None \notin Config \cup Option \cup Status \cup Order

\* A dashboard request and a plugin request, or the edge's handling of its call: the
\* statement about to be executed, and what the earlier ones have read.
Saving == [pc : {"idle", "update", "cache", "send", "push", "done"},
           cfg : Config, cmd : BOOLEAN, try : 1..2, pushed : BOOLEAN]
Process == [pc : {"idle", "write", "sync", "auth", "fill", "merge", "look", "adopt",
                  "mirror", "answer"},
            call : {"verify", "heartbeat"}, beat : BOOLEAN,
            mem : Option \cup {None}, auth : Config \cup {None}, cfg : Config \cup {None},
            apply : Status \cup {None}, order : Order \cup {None}]

VARIABLES
    row, kv, option,
    optedOut,    \* the option wp_instant_cdn_user_disabled
    put,         \* the statement each dashboard request is about to execute
    php,         \* the statement each plugin request, or the edge for it, is about to execute
    wire,        \* pushes on their way to the plugin
    edits, calls, lost,
    commanded,   \* history: the statuses dashboard saves have carried
    chosen       \* history: the plugin's first status and those chosen in wp-admin

vars == <<row, kv, option, optedOut, put, php, wire, edits, calls, lost, commanded, chosen>>

Idle == [pc |-> "idle", call |-> "verify", beat |-> FALSE, mem |-> None,
         auth |-> None, cfg |-> None, apply |-> None, order |-> None]

\* A paired site: the edge starts from a preset, in test mode; the plugin keeps the
\* settings it already had, and an upgraded one has media offload on.
Preset == [settings |-> [rev |-> 0, cdn |-> FALSE], status |-> "test", dash |-> FALSE]

Init ==
    /\ row = Preset
    /\ kv \in {None, Preset}
    /\ option \in [settings : {[rev |-> 0, cdn |-> c] : c \in BOOLEAN}, status : {"live"}]
    /\ optedOut = FALSE
    /\ put = [d \in Dashboard |-> [pc |-> "idle", cfg |-> Preset, cmd |-> FALSE,
                                   try |-> 1, pushed |-> FALSE]]
    /\ php = [p \in Worker |-> Idle]
    /\ wire = {}
    /\ edits = 0 /\ calls = 0 /\ lost = 0
    /\ commanded = {}
    /\ chosen = {option.status}

-------------------------------------------------------------------------------
(* The dashboard: PUT /sites/:id/config and PUT /embed/site/config. *)

\* Every save carries a status, be it the deploy button's or the page's own; the
\* edge marks it as the dashboard's. A deploy command follows if it changes the row's.
Save(d, cdn, status) ==
    /\ put[d].pc \in {"idle", "done"}
    /\ edits < MaxEdits
    /\ edits' = edits + 1
    /\ put' = [put EXCEPT ![d] =
           [pc |-> "update",
            cfg |-> [settings |-> [rev |-> edits + 1, cdn |-> cdn],
                     status |-> status, dash |-> TRUE],
            cmd |-> row.status # status, try |-> 1, pushed |-> FALSE]]
    /\ commanded' = commanded \cup {status}
    /\ UNCHANGED <<row, kv, option, optedOut, php, wire, calls, lost, chosen>>

Update(d) ==
    /\ put[d].pc = "update"
    /\ row' = put[d].cfg
    /\ put' = [put EXCEPT ![d].pc = "cache"]
    /\ UNCHANGED <<kv, option, optedOut, php, wire, edits, calls, lost, commanded, chosen>>

\* An existing cache entry is rewritten; a missing one is left to the next site call.
Cached(cfg) == IF kv = None THEN None ELSE cfg

Cache(d) ==
    /\ put[d].pc = "cache"
    /\ kv' = Cached(put[d].cfg)
    /\ put' = [put EXCEPT ![d].pc = "send"]
    /\ UNCHANGED <<row, option, optedOut, php, wire, edits, calls, lost, commanded, chosen>>

Push(what, cfg, try) ==
    [what |-> what, settings |-> cfg.settings, status |-> cfg.status, try |-> try]

Send(d) ==
    /\ put[d].pc = "send"
    /\ wire' = wire \cup {Push("config", put[d].cfg, 1)}
                    \cup (IF put[d].cmd THEN {Push("deploy", put[d].cfg, 0)} ELSE {})
    /\ put' = [put EXCEPT ![d].pc = "push"]
    /\ UNCHANGED <<row, kv, option, optedOut, php, edits, calls, lost, commanded, chosen>>

\* The push failed, or was not answered within 8 seconds, in which case the plugin may
\* still be on it: another try.
Retry(d) ==
    /\ put[d].pc = "push" /\ put[d].try < Tries
    /\ wire' = wire \cup {Push("config", put[d].cfg, put[d].try + 1)}
    /\ put' = [put EXCEPT ![d].try = @ + 1]
    /\ UNCHANGED <<row, kv, option, optedOut, php, edits, calls, lost, commanded, chosen>>

\* The answer says that the plugin was not reached.
GiveUp(d) ==
    /\ put[d].pc = "push"
    /\ put' = [put EXCEPT ![d].pc = "done"]
    /\ UNCHANGED <<row, kv, option, optedOut, php, wire, edits, calls, lost, commanded, chosen>>

Lose(m) ==
    /\ m \in wire /\ lost < MaxLost
    /\ wire' = wire \ {m}
    /\ lost' = lost + 1
    /\ UNCHANGED <<row, kv, option, optedOut, put, php, edits, calls, commanded, chosen>>

\* The entry's hour is over.
Expire ==
    /\ kv # None /\ lost < MaxLost
    /\ kv' = None
    /\ lost' = lost + 1
    /\ UNCHANGED <<row, option, optedOut, put, php, wire, edits, calls, commanded, chosen>>

-------------------------------------------------------------------------------
(* The plugin's requests that write the option: saves and pushes. *)

\* A request loads the option when it starts.
Start(p, order) ==
    php' = [php EXCEPT ![p] = [Idle EXCEPT !.pc = "write", !.mem = option, !.order = order]]

\* A save of a settings page: only the assets page holds the offload switches, and a
\* preset has them off, which is not taken for the owner's opting out.
SavePage(p, page, cdn) ==
    /\ php[p].pc = "idle" /\ edits < MaxEdits
    /\ page = "page" => cdn = option.settings.cdn
    /\ page = "preset" => ~cdn
    /\ edits' = edits + 1
    /\ Start(p, [what |-> page, settings |-> [rev |-> edits + 1, cdn |-> cdn],
                 status |-> option.status, try |-> 0])
    /\ UNCHANGED <<row, kv, option, optedOut, put, wire, calls, lost, commanded, chosen>>

\* ajax_deploy: the test/live switch of wp-admin.
Switch(p, status) ==
    /\ php[p].pc = "idle" /\ edits < MaxEdits
    /\ edits' = edits + 1
    /\ chosen' = chosen \cup {status}
    /\ Start(p, [what |-> "switch", settings |-> option.settings, status |-> status, try |-> 0])
    /\ UNCHANGED <<row, kv, option, optedOut, put, wire, calls, lost, commanded>>

Receive(p, m) ==
    /\ php[p].pc = "idle" /\ m \in wire
    /\ wire' = wire \ {m}
    /\ Start(p, m)
    /\ UNCHANGED <<row, kv, option, optedOut, put, edits, calls, lost, commanded, chosen>>

\* The option that order o makes of the loaded copy. Only a switch and a deploy command
\* touch the status: a pushed config's own is dropped.
Written(mem, o) ==
    IF o.what \in {"switch", "deploy"} THEN [mem EXCEPT !.status = o.status]
                                       ELSE [mem EXCEPT !.settings = o.settings]

\* The push that dashboard request d waits for.
Awaits(d, o) == put[d].pc = "push" /\ o = Push("config", put[d].cfg, put[d].try)

\* The whole option is written back, except by a deploy command that changes nothing.
\* A save of a page schedules a mirroring of the result; a push is answered.
Write(p) ==
    LET o == php[p].order
        mem == php[p].mem
    IN
    /\ php[p].pc = "write"
    /\ option' = IF o.what = "deploy" /\ o.status = mem.status THEN option ELSE Written(mem, o)
    /\ optedOut' = IF o.what \in {"assets", "config"} THEN ~o.settings.cdn ELSE optedOut
    /\ php' = [php EXCEPT ![p] = IF o.what \in {"page", "preset", "assets"}
                                 THEN [Idle EXCEPT !.pc = "sync"] ELSE Idle]
    /\ put' = [d \in Dashboard |->
                  IF Awaits(d, o) THEN [put[d] EXCEPT !.pc = "done", !.pushed = TRUE]
                                  ELSE put[d]]
    /\ UNCHANGED <<row, kv, wire, edits, calls, lost, commanded, chosen>>

-------------------------------------------------------------------------------
(* The plugin's calls of the edge: /verify, /heartbeat, or one after the other. *)

Call(p, call, beat) ==
    php' = [php EXCEPT ![p] =
        [Idle EXCEPT !.pc = "auth", !.call = call, !.beat = beat, !.mem = option]]

\* The cron that mirrors a saved page (run_config_sync).
StartSync(p) ==
    /\ php[p].pc = "sync"
    /\ Call(p, "verify", FALSE)
    /\ UNCHANGED <<row, kv, option, optedOut, put, wire, edits, calls, lost, commanded, chosen>>

\* The daily cron probes the edge, then reports (run_health_heartbeat).
Daily ==
    /\ php[Cron].pc = "idle"
    /\ Call(Cron, "verify", TRUE)
    /\ UNCHANGED <<row, kv, option, optedOut, put, wire, edits, calls, lost, commanded, chosen>>

\* Views of wp-admin do the same, each call at most every 15 minutes; and the
\* administrator may ask for a mirroring.
Visit(p, call, beat) ==
    /\ php[p].pc = "idle" /\ calls < MaxCalls
    /\ call = "heartbeat" => ~beat
    /\ calls' = calls + 1
    /\ Call(p, call, beat)
    /\ UNCHANGED <<row, kv, option, optedOut, put, wire, edits, lost, commanded, chosen>>

\* siteAuthMiddleware: the cached config, or the row's on its way into the cache.
First(call) == IF call = "verify" THEN "merge" ELSE "look"

Auth(p) ==
    /\ php[p].pc = "auth"
    /\ php' = [php EXCEPT ![p].auth = IF kv = None THEN row ELSE kv,
                          ![p].pc = IF kv = None THEN "fill" ELSE First(php[p].call)]
    /\ UNCHANGED <<row, kv, option, optedOut, put, wire, edits, calls, lost, commanded, chosen>>

Fill(p) ==
    /\ php[p].pc = "fill"
    /\ kv' = php[p].auth
    /\ php' = [php EXCEPT ![p].pc = First(php[p].call)]
    /\ UNCHANGED <<row, option, optedOut, put, wire, edits, calls, lost, commanded, chosen>>

\* Mutant: the plugin's deployment is spread over the dashboard's and inherits its mark.
MergedOver(mem, auth) ==
    [settings |-> mem.settings, status |-> mem.status, dash |-> auth.dash]

\* /verify: the plugin's config replaces the row's, except for a status that the
\* cached config marks as the dashboard's.
Merged(mem, auth) ==
    [settings |-> mem.settings,
     status   |-> IF auth.dash THEN auth.status ELSE mem.status,
     dash     |-> auth.dash]

Merge(p) ==
    /\ php[p].pc = "merge"
    /\ row' = Merged(php[p].mem, php[p].auth)
    /\ php' = [php EXCEPT ![p].pc = "mirror", ![p].auth = None,
                          ![p].cfg = Merged(php[p].mem, php[p].auth)]
    /\ UNCHANGED <<kv, option, optedOut, put, wire, edits, calls, lost, commanded, chosen>>

\* /heartbeat: a dashboard's status is sent to the plugin, another one is replaced by
\* the plugin's.
Look(p) ==
    LET differs == row.status # php[p].mem.status IN
    /\ php[p].pc = "look"
    /\ php' = [php EXCEPT
           ![p].apply = IF row.dash /\ differs THEN row.status ELSE None,
           ![p].cfg   = IF row.dash \/ ~differs THEN None
                        ELSE [row EXCEPT !.status = php[p].mem.status],
           ![p].pc    = IF row.dash \/ ~differs THEN "answer" ELSE "adopt"]
    /\ UNCHANGED <<row, kv, option, optedOut, put, wire, edits, calls, lost, commanded, chosen>>

\* The row as it was read, with the plugin's status.
Adopt(p) ==
    /\ php[p].pc = "adopt"
    /\ row' = php[p].cfg
    /\ php' = [php EXCEPT ![p].pc = "mirror"]
    /\ UNCHANGED <<kv, option, optedOut, put, wire, edits, calls, lost, commanded, chosen>>

Mirror(p) ==
    /\ php[p].pc = "mirror"
    /\ kv' = Cached(php[p].cfg)
    /\ php' = [php EXCEPT ![p].pc = "answer", ![p].cfg = None]
    /\ UNCHANGED <<row, option, optedOut, put, wire, edits, calls, lost, commanded, chosen>>

\* After a call: the heartbeat that is still to come, on the same loaded copy.
Continue(p, mem) ==
    IF php[p].beat THEN [Idle EXCEPT !.pc = "auth", !.call = "heartbeat", !.mem = mem]
                   ELSE Idle

\* verify_connection: the command in the answer (data.config.deployment) is looked for
\* where it never is (data.deployment), so no status is adopted here; media offload is
\* turned on unless the owner has turned it off.
Onboarded(mem) == IF optedOut THEN mem ELSE [mem EXCEPT !.settings.cdn = TRUE]

Verified(p) ==
    LET mem == Onboarded(php[p].mem) IN
    /\ php[p].pc = "answer" /\ php[p].call = "verify"
    /\ option' = IF mem = php[p].mem THEN option ELSE mem
    /\ php' = [php EXCEPT ![p] = Continue(p, mem)]
    /\ UNCHANGED <<row, kv, optedOut, put, wire, edits, calls, lost, commanded, chosen>>

\* Mutant: the provenance of the edge's status is not looked at (the v1.5.0 bug).
OverwrittenBlindly(mem, auth) ==
    [settings |-> auth.settings, status |-> auth.status]

\* push_to_edge: the command, if any, and then the config that authenticated the call,
\* whose status is taken only if it is the dashboard's.
Commanded(mem, apply) == IF apply = None THEN mem ELSE [mem EXCEPT !.status = apply]
Overwritten(mem, auth) ==
    [settings |-> auth.settings, status |-> IF auth.dash THEN auth.status ELSE mem.status]

\* Mutant: nothing is written if the settings are the ones the plugin has.
BeatenBySettings(p) ==
    LET mem == Overwritten(Commanded(php[p].mem, php[p].apply), php[p].auth) IN
    /\ php[p].pc = "answer" /\ php[p].call = "heartbeat"
    /\ option' = IF mem.settings = php[p].mem.settings THEN option ELSE mem
    /\ php' = [php EXCEPT ![p] = Idle]
    /\ UNCHANGED <<row, kv, optedOut, put, wire, edits, calls, lost, commanded, chosen>>

Beaten(p) ==
    LET mem == Overwritten(Commanded(php[p].mem, php[p].apply), php[p].auth) IN
    /\ php[p].pc = "answer" /\ php[p].call = "heartbeat"
    /\ option' = IF mem = php[p].mem THEN option ELSE mem
    /\ php' = [php EXCEPT ![p] = Idle]
    /\ UNCHANGED <<row, kv, optedOut, put, wire, edits, calls, lost, commanded, chosen>>

\* The call is lost, its handler is interrupted between two statements, or its answer
\* is lost: the plugin goes on without one.
Interrupt(p) ==
    /\ php[p].pc \in {"auth", "fill", "merge", "look", "adopt", "mirror", "answer"}
    /\ lost < MaxLost
    /\ lost' = lost + 1
    /\ php' = [php EXCEPT ![p] = Continue(p, php[p].mem)]
    /\ UNCHANGED <<row, kv, option, optedOut, put, wire, edits, calls, commanded, chosen>>
-------------------------------------------------------------------------------
DashboardStep(d) ==
    \/ \E cdn \in Offload, status \in Status : Save(d, cdn, status)
    \/ Update(d) \/ Cache(d) \/ Send(d) \/ Retry(d) \/ GiveUp(d)

\* What begins a request of the plugin, from outside it.
Request(p) ==
    \/ \E page \in {"page", "preset", "assets"}, cdn \in Offload : SavePage(p, page, cdn)
    \/ \E status \in Status : Switch(p, status)
    \/ \E m \in wire : Receive(p, m)
    \/ \E call \in {"verify", "heartbeat"}, beat \in BOOLEAN : Visit(p, call, beat)

\* The next step of a request that has begun.
Proceed(p) ==
    \/ Write(p) \/ StartSync(p)
    \/ Auth(p) \/ Fill(p) \/ Merge(p) \/ Look(p) \/ Adopt(p) \/ Mirror(p)
    \/ Verified(p) \/ Beaten(p)

Next ==
    \/ \E d \in Dashboard : DashboardStep(d)
    \/ \E p \in Worker : Request(p) \/ Proceed(p) \/ Interrupt(p)
    \/ Daily
    \/ \E m \in wire : Lose(m)
    \/ Expire

Spec == Init /\ [][Next]_vars

\* A request that has begun goes on, and the daily cron runs every day. Nothing is
\* assumed of people, of pushes, of the cache's expiry, nor of failures.
FairSpec ==
    /\ Spec
    /\ \A d \in Dashboard : WF_vars(Update(d) \/ Cache(d) \/ Send(d) \/ GiveUp(d))
    /\ \A p \in Worker : WF_vars(Proceed(p))
    /\ WF_vars(Daily)

-------------------------------------------------------------------------------
(* Properties. *)

TypeOK ==
    /\ row \in Config /\ kv \in Config \cup {None} /\ option \in Option
    /\ optedOut \in BOOLEAN
    /\ put \in [Dashboard -> Saving] /\ php \in [Worker -> Process]
    /\ wire \subseteq Order
    /\ edits \in 0..MaxEdits /\ calls \in 0..MaxCalls /\ lost \in 0..MaxLost
    /\ commanded \subseteq Status /\ chosen \subseteq Status

\* The plugin is never in a mode that nobody gave it: its status is the one it was
\* paired with, one chosen in wp-admin, or one that a save of the dashboard carried.
\* The preset's 'test', which the edge holds from pairing on, is not among them
\* (apply_remote_deployment: the v1.5.0 bug flipped live sites to test mode).
ModeHasAnAuthor == option.status \in chosen \cup commanded

\* What the edge marks as the dashboard's is the dashboard's: no merging, adopting or
\* caching of the plugin's status leaves the mark on it.
MarkIsEarned ==
    /\ row.dash => row.status \in commanded
    /\ kv # None => (kv.dash => kv.status \in commanded)

\* Whatever people, pushes, cache and failures did, the row and the option get in step
\* again and again: what the dashboard shows is what visitors get.
InStep == row.settings = option.settings /\ row.status = option.status
Reconverges == []<>InStep

===============================================================================
