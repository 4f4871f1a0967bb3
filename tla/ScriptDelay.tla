------------------------------ MODULE ScriptDelay ------------------------------
(***************************************************************************)
(* The scripts of a page: what transformer/class-script-delayer.php makes of *)
(* each of them, and the order in which the browser and the micro loader     *)
(* (assets/js/wp-instant-loader.min.js) then run them.                       *)
(*                                                                         *)
(* A script is what the delayer looks at: where its code is, how it loads,   *)
(* and its mark. The browser is external: a sync script runs where the parser *)
(* meets it, deferred ones and modules in document order after the parser,   *)
(* async ones any time after it met them.                                    *)
(***************************************************************************)
EXTENDS Naturals, Sequences, FiniteSets

CONSTANTS Scripts,      \* the script kinds pages are made of
          MaxFails      \* bound on the requests that fail

Load == {"sync", "async", "defer", "module", "data"}
\* "ours": wpins-exclude. "kept": an exclusion or an always-sync marker matches.
\* "big": more than 12 KB of inline code.
Mark == {"none", "ours", "kept", "big"}
ScriptKind == [external : BOOLEAN, load : Load, mark : Mark]

ASSUME ScriptAssumption == Scripts \subseteq ScriptKind /\ MaxFails \in Nat

VARIABLES
    mode,       \* javascript.execution_mode
    strict,     \* the Content-Security-Policy forbids data: scripts
    scripts,    \* the scripts of the origin's page, in document order
    parsed,     \* how many of them the parser has passed
    ran,        \* the scripts that ran, in that order
    loader,     \* of the micro loader: "none", "coming", "armed", "running", "over", "lost"
    chain,      \* the script the loader's chain is at, and whether its request has failed
    missed,     \* the scripts that failed, or that the chain gave up waiting for
    fails

pageVars == <<mode, strict, scripts>>
scriptVars == <<pageVars, parsed, ran, loader, chain, missed, fails>>

Positions == 1..Len(scripts)
Ran(i) == \E k \in 1..Len(ran) : ran[k] = i
Over(i) == Ran(i) \/ i \in missed
Failing == fails < MaxFails /\ fails' = fails + 1

-----------------------------------------------------------------------------
(***************************************************************************)
(* ScriptDelayer::transform                                                *)
(***************************************************************************)
\* With a restrictive policy the whole document is left alone in defer mode.
Inactive == mode = "none" \/ (mode = "defer" /\ strict)

Untouched(s) ==
    \/ s.mark = "ours"
    \/ s.load \in {"async", "module", "data"}
    \/ s.load = "defer" /\ mode = "defer"

\* An external script before position i has been deferred.
ExternalDeferred(i) == \E j \in 1..(i - 1) : scripts[j].external /\ ~Untouched(scripts[j])

\* Mutant of Deferred: inline code stays where it is (the behaviour before 1.3.0).
DeferredExternals(i) == scripts[i].external

\* Inline code is deferred too, as a data: source, once something before it is.
Deferred(i) == scripts[i].external \/ (ExternalDeferred(i) /\ scripts[i].mark # "big")

\* How script i loads in the transformed page; "held": not before the loader's chain.
Becomes(i) ==
    IF Inactive \/ Untouched(scripts[i]) THEN scripts[i].load
    ELSE CASE mode = "defer" -> IF Deferred(i) THEN "defer" ELSE "sync"
           [] mode # "defer" -> IF scripts[i].mark = "kept" THEN scripts[i].load ELSE "held"

Held == {i \in Positions : Becomes(i) = "held"}

-----------------------------------------------------------------------------
(***************************************************************************)
(* The browser                                                             *)
(***************************************************************************)
\* A script's request is answered and it runs, or it fails.
Runs(i) ==
    \/ ran' = Append(ran, i) /\ UNCHANGED <<missed, fails>>
    \/ scripts[i].external /\ Failing /\ missed' = missed \cup {i} /\ UNCHANGED ran

Parse ==
    /\ parsed < Len(scripts)
    /\ parsed' = parsed + 1
    /\ IF Becomes(parsed + 1) = "sync" THEN Runs(parsed + 1)
                                       ELSE UNCHANGED <<ran, missed, fails>>
    /\ UNCHANGED <<pageVars, loader, chain>>

\* The loader is the first deferred script of the page.
Queue == {i \in Positions : Becomes(i) \in {"defer", "module"} /\ ~Over(i)}

RunDeferred(i) ==
    /\ parsed = Len(scripts) /\ loader # "coming"
    /\ i \in Queue /\ \A j \in Queue : i <= j
    /\ Runs(i)
    /\ UNCHANGED <<pageVars, parsed, loader, chain>>

RunAsync(i) ==
    /\ i <= parsed /\ Becomes(i) = "async" /\ ~Over(i)
    /\ Runs(i)
    /\ UNCHANGED <<pageVars, parsed, loader, chain>>

-----------------------------------------------------------------------------
(***************************************************************************)
(* The micro loader                                                        *)
(***************************************************************************)
\* It arms its events and, the page being parsed by then, its timer.
LoaderArms ==
    /\ parsed = Len(scripts) /\ loader = "coming"
    /\ \/ loader' = "armed" /\ UNCHANGED fails
       \/ Failing /\ loader' = "lost"
    /\ UNCHANGED <<pageVars, parsed, ran, chain, missed>>

\* The held scripts in the order of data-wpins-order.
Next1(i) == CHOOSE k \in Held \cup {0} :
                IF \E j \in Held : j > i THEN k \in Held /\ k > i /\ \A j \in Held : j > i => k <= j
                                         ELSE k = 0
Advance(i) ==
    /\ chain' = [at |-> Next1(i), failed |-> FALSE]
    /\ loader' = IF Next1(i) = 0 THEN "over" ELSE "running"

\* triggerLoad: a visitor's event, the tab becoming visible, or the timer. Once.
TriggerLoad ==
    /\ loader = "armed"
    /\ Advance(0)
    /\ UNCHANGED <<pageVars, parsed, ran, missed, fails>>

\* executeScriptChain: inline code, or an answer within the watchdog's time.
ChainRuns ==
    /\ loader = "running" /\ ~chain.failed
    /\ ran' = Append(ran, chain.at)
    /\ Advance(chain.at)
    /\ UNCHANGED <<pageVars, parsed, missed, fails>>

\* onerror sets src again; an element that has started does not fetch again (HTML), so the
\* watchdog is what ends the wait.
ChainFails ==
    /\ loader = "running" /\ ~chain.failed /\ scripts[chain.at].external
    /\ Failing
    /\ chain' = [chain EXCEPT !.failed = TRUE]
    /\ UNCHANGED <<pageVars, parsed, ran, loader, missed>>

\* A request that failed, or that takes longer.
Watchdog ==
    /\ loader = "running" /\ scripts[chain.at].external
    /\ IF chain.failed THEN UNCHANGED fails ELSE Failing
    /\ missed' = missed \cup {chain.at}
    /\ Advance(chain.at)
    /\ UNCHANGED <<pageVars, parsed, ran>>

\* A script the chain stopped waiting for may still arrive.
ArrivesLate(i) ==
    /\ i \in missed \cap Held /\ ~Ran(i)
    /\ ran' = Append(ran, i)
    /\ UNCHANGED <<pageVars, parsed, loader, chain, missed, fails>>

-----------------------------------------------------------------------------
ScriptInit(page, execution_mode, policy) ==
    /\ scripts = page /\ mode = execution_mode /\ strict = policy
    /\ parsed = 0 /\ ran = <<>> /\ missed = {} /\ fails = 0
    /\ loader = IF mode = "interaction_delay" THEN "coming" ELSE "none"
    /\ chain = [at |-> 0, failed |-> FALSE]

Loading == Parse \/ (\E i \in Positions : RunDeferred(i)) \/ LoaderArms
Chain == TriggerLoad \/ ChainRuns \/ Watchdog

ScriptNext ==
    \/ Parse \/ (\E i \in Positions : RunDeferred(i) \/ RunAsync(i) \/ ArrivesLate(i))
    \/ LoaderArms \/ TriggerLoad \/ ChainRuns \/ ChainFails \/ Watchdog

\* The browser and the timer (delay_timeout_ms > 0) go on.
ScriptFairness ==
    /\ WF_scriptVars(Loading) /\ WF_scriptVars(Chain)
    /\ WF_scriptVars(\E i \in Positions : RunAsync(i))

-----------------------------------------------------------------------------
\* What ran one after the other in the origin's page does so in the transformed one: two
\* sync scripts, or two deferred ones, with no mark. A request that the loader no longer
\* waits for is the exception. (Marked code, and a sync script after a deferred one, are
\* not promised to keep their places.)
DocumentOrder ==
    \A k, l \in 1..Len(ran) :
        /\ k < l /\ ran[l] \notin missed
        /\ scripts[ran[k]].mark = "none" /\ scripts[ran[l]].mark = "none"
        /\ scripts[ran[k]].load = scripts[ran[l]].load /\ scripts[ran[k]].load \in {"sync", "defer"}
        => ran[k] < ran[l]

\* Every script runs, unless its own request or the loader's fails, whatever happens to the
\* scripts before it.
EveryScriptRuns ==
    <>[](loader # "lost" => \A i \in Positions : scripts[i].load # "data" => Over(i))
================================================================================
