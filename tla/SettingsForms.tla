----------------------------- MODULE SettingsForms -----------------------------
(***************************************************************************)
(* The two forms that edit the configuration of one site: the site page of   *)
(* the dashboard (SiteDetailPage, through DashboardContext's commands) and   *)
(* the panel embedded in wp-admin (embed/sites/[siteId]). Both PUT a whole   *)
(* configuration made from the copy they hold, and read copies while timers  *)
(* and commands run. What the edge does with a PUT beyond keeping it is      *)
(* ConfigSync.                                                               *)
(*                                                                         *)
(* A configuration is [preset, body, deploy]: the label, the settings under  *)
(* it (an edit makes a body nobody has seen), and test or live.              *)
(***************************************************************************)
EXTENDS Naturals, FiniteSets

CONSTANTS
    None,
    MaxEdits,       \* bound on edits and on the other buttons
    MaxReads        \* bound on the reads of the configuration in flight at once

Form == {"page", "panel"}
Tuned == [preset |-> "strong", body |-> 1]
Factory == [preset |-> "plain", body |-> 0, deploy |-> "live"]

VARIABLES
    stored,         \* sites.config_json
    copy,           \* copy[f]: the configuration last read: site.config, data.config
    draft,          \* draft[f]: the form; None before the settings tab is first opened
    dirty,          \* dirty[f]: it has unsaved changes
    busy,           \* busy[f]: the saves its buttons wait for: "save", "deploy"
    status,         \* deployStatus of the page
    puts,           \* PUTs on their way to the edge: [form, kind, config]
    reads,          \* reads on their way: [form, after]; after: the save it completes
    answers,           \* answers on their way: [form, after, config]
    edited,         \* history: edited[f]: the body last edited and not saved, or None
    edits

forms == <<stored, copy, draft, dirty, busy, status, puts, reads, answers, edited, edits>>

Button == edits < MaxEdits /\ edits' = edits + 1
Set(f, what, to) == what' = [what EXCEPT ![f] = to]

\* The form f sends config; the buttons of this kind wait.
Send(f, kind, config) ==
    /\ puts' = puts \cup {[form |-> f, kind |-> kind, config |-> config]}
    /\ Set(f, busy, IF kind = "preset" THEN busy[f] ELSE busy[f] \cup {kind})

-----------------------------------------------------------------------------
(***************************************************************************)
(* The form                                                                *)
(***************************************************************************)
\* upsertSetting, upsert: any time, also while a save is under way.
Edit(f) ==
    /\ draft[f] # None /\ Button
    /\ Set(f, draft, [draft[f] EXCEPT !.body = edits + 2])
    /\ Set(f, dirty, TRUE)
    /\ Set(f, edited, IF "save" \in busy[f] THEN None ELSE edits + 2)
    /\ UNCHANGED <<stored, copy, busy, status, puts, reads, answers>>

\* applyPresetDraft, applyPreset: the preset's settings and the form's deployment.
ApplyPreset(f) ==
    /\ draft[f] # None /\ Button
    /\ Set(f, draft, [preset |-> Tuned.preset, body |-> Tuned.body, deploy |-> draft[f].deploy])
    /\ Set(f, dirty, TRUE)
    /\ Set(f, edited, None)
    /\ UNCHANGED <<stored, copy, busy, status, puts, reads, answers>>

Discard(f) ==
    /\ dirty[f] /\ (f = "page" => "save" \notin busy[f])
    /\ Set(f, draft, copy[f]) /\ Set(f, dirty, FALSE) /\ Set(f, edited, None)
    /\ UNCHANGED <<stored, copy, busy, status, puts, reads, answers, edits>>

\* handleSaveSettings, save.
Save(f) ==
    /\ dirty[f] /\ "save" \notin busy[f] /\ Button
    /\ Send(f, "save", draft[f])
    /\ UNCHANGED <<stored, copy, draft, dirty, status, reads, answers, edited>>

\* setDeployment and saveAndDeploy of the panel: the form is changed and saved at once.
PanelDeploy ==
    /\ draft["panel"] # None /\ busy["panel"] = {} /\ Button
    /\ \E to \in {"test", "live"} :
          /\ Set("panel", draft, [draft["panel"] EXCEPT !.deploy = to])
          /\ Send("panel", "save", draft'["panel"])
    /\ Set("panel", dirty, TRUE)
    /\ UNCHANGED <<stored, copy, status, reads, answers, edited>>

\* handleSetDeployment of the page: the copy of the fleet, deployed or not.
PageDeploy ==
    /\ "deploy" \notin busy["page"] /\ Button
    /\ \E to \in {"test", "live"} : Send("page", "deploy", [copy["page"] EXCEPT !.deploy = to])
    /\ UNCHANGED <<stored, copy, draft, dirty, status, reads, answers, edited>>

\* handleToggleAutoDegrade: the copy of the fleet with the deployment the page believes in;
\* handleUpdatePreset: with another label; handleSaveGranularSettings: with other settings.
Quick ==
    /\ Button
    /\ LET c == copy["page"]
       IN  \E config \in {[c EXCEPT !.deploy = status], [c EXCEPT !.preset = Tuned.preset],
                          [c EXCEPT !.body = edits + 2]} :
              Send("page", "preset", config)
    /\ UNCHANGED <<stored, copy, draft, dirty, status, reads, answers, edited>>

\* Mutant of Seeds: the draft follows the fleet's copy.
SeedsAlways == copy["page"] # draft["page"]

Seeds == draft["page"] = None

\* The settings tab is on screen: the draft is seeded.
OpenSettings ==
    /\ Seeds
    /\ Set("page", draft, copy["page"])
    /\ UNCHANGED <<stored, copy, dirty, busy, status, puts, reads, answers, edited, edits>>

-----------------------------------------------------------------------------
(***************************************************************************)
(* The edge, and what its answers do                                       *)
(***************************************************************************)
Done(f, kind, ok, config) ==
    /\ Set(f, busy, busy[f] \ {kind})
    /\ Set(f, dirty, dirty[f] /\ ~(ok /\ kind = "save"))
    /\ Set(f, edited, IF ok /\ kind = "save" THEN None ELSE edited[f])
    /\ status' = IF ok /\ kind = "deploy" THEN config.deploy ELSE status

\* PUT /sites/:id and PUT /embed/site/config keep what they are given, in any order. The
\* panel is then told; the page reads the fleet again before it goes on.
Put(p) ==
    /\ p \in puts /\ puts' = puts \ {p}
    /\ stored' = p.config
    /\ IF p.form = "panel"
       THEN Done("panel", p.kind, TRUE, p.config) /\ UNCHANGED reads
       ELSE /\ reads' = reads \cup {[form |-> "page", after |-> p]}
            /\ UNCHANGED <<busy, dirty, edited, status>>
    /\ UNCHANGED <<copy, draft, answers, edits>>

\* It fails, or its answer is lost: the form still has its changes.
PutFails(p) ==
    /\ p \in puts /\ puts' = puts \ {p} /\ Button
    /\ stored' \in {stored, p.config}
    /\ Done(p.form, p.kind, FALSE, p.config)
    /\ UNCHANGED <<copy, draft, reads, answers>>

\* The poll of either: jobs are active.
Poll(f) ==
    /\ Cardinality(reads \cup answers) < MaxReads
    /\ reads' = reads \cup {[form |-> f, after |-> None]}
    /\ UNCHANGED <<stored, copy, draft, dirty, busy, status, puts, answers, edited, edits>>

Reads(r) ==
    /\ r \in reads /\ reads' = reads \ {r}
    /\ answers' = answers \cup {[form |-> r.form, after |-> r.after, config |-> stored]}
    /\ UNCHANGED <<stored, copy, draft, dirty, busy, status, puts, edited, edits>>

\* refreshFleetData's list, or load of the panel, which leaves a dirty form alone.
Show(n) ==
    /\ n \in answers /\ answers' = answers \ {n}
    /\ Set(n.form, copy, n.config)
    /\ draft' = IF n.form = "panel" /\ ~dirty["panel"] THEN [draft EXCEPT !["panel"] = n.config]
                ELSE draft
    /\ IF n.after = None THEN UNCHANGED <<busy, dirty, edited, status>>
       ELSE Done("page", n.after.kind, TRUE, n.after.config)
    /\ UNCHANGED <<stored, puts, reads, edits>>

Init ==
    /\ stored \in {Factory, [Factory EXCEPT !.deploy = "test"]}
    /\ copy = [f \in Form |-> stored]
    /\ draft = [page |-> None, panel |-> stored]
    /\ dirty = [f \in Form |-> FALSE] /\ busy = [f \in Form |-> {}]
    /\ status = stored.deploy
    /\ puts = {} /\ reads = {} /\ answers = {}
    /\ edited = [f \in Form |-> None] /\ edits = 0

Next ==
    \/ \E f \in Form : Edit(f) \/ ApplyPreset(f) \/ Discard(f) \/ Save(f) \/ Poll(f)
    \/ PanelDeploy \/ PageDeploy \/ Quick \/ OpenSettings
    \/ \E p \in puts : Put(p) \/ PutFails(p)
    \/ \E r \in reads : Reads(r)
    \/ \E n \in answers : Show(n)

Spec == Init /\ [][Next]_forms

-----------------------------------------------------------------------------
\* What the user has edited while nothing was being saved stays in the form until it is
\* saved, discarded or replaced by a preset: no poll, refresh, late answer, failed save
\* or command of the other form takes it away.
EditsStay == \A f \in Form : edited[f] # None => draft[f].body = edited[f]
================================================================================
