------------------------------ MODULE Stylesheets ------------------------------
(***************************************************************************)
(* The stylesheets of a page (transformer/class-css-optimizer.php): requests *)
(* for one page that build, share and inline a combined bundle of them, or    *)
(* send it as an asynchronous link that the visitor's browser must then apply. *)
(*                                                                         *)
(* A sheet is what classify_links makes of it. "main": a local file of media  *)
(* all or screen. "remote": the same from another host. "media": any other    *)
(* media but print. "left": excluded, print, or not a web address. "style": an *)
(* inline <style> between the links.                                         *)
(***************************************************************************)
EXTENDS Naturals, Sequences, FiniteSets

CONSTANTS Requests,
          Visitor,        \* the request whose visitor's browser is followed
          MaxEdits,       \* bound on the edits of the local sheets
          MaxFaults       \* bound on failed requests and failed writes

ASSUME SheetAssumption == Visitor \in Requests /\ MaxEdits \in Nat

SheetKind == {"main", "remote", "media", "left", "style"}
Css == [inline : BOOLEAN, combine : BOOLEAN, fits : BOOLEAN, defer : BOOLEAN]
CssOff == [inline |-> FALSE, combine |-> FALSE, fits |-> FALSE, defer |-> FALSE]
\* The policy of the page forbids: nothing, inline handlers, or all inline code.
Csp == {"none", "handlers", "inline"}

VARIABLES
    sheets,      \* of the origin's page, in document order
    css,         \* css.inline_all, css.combine, whether the bundle fits the threshold, and
                 \* whether the edge's critical CSS is there, so that links may be deferred
    csp,
    edition,     \* of the local sheets: their modification times
    transient,   \* wpins_css_<href> of the remote sheets: "none", "body" or "empty"
    bundle,      \* the files combined/wpins-<hash>.css, one per edition of the local sheets
    request,     \* per request: where it is in build_bundle, for which tier
    served,      \* per request: the page it answered with
    link,        \* the asynchronous links in the browser of the visitor
    faults

sheetVars == <<sheets, css, csp, edition, transient, bundle, request, served, link, faults>>

Places == 1..Len(sheets)
Combinable == {i \in Places : sheets[i] \in {"main", "remote", "media"}}
Main == {i \in Combinable : sheets[i] # "media"}        \* is_main_media
First(S) == CHOOSE i \in S : \A j \in S : i <= j

\* A bundle file: the edition of the local sheets in it, and whether it is all there.
Text == [edition : 0..MaxEdits, state : {"whole", "emptied", "short"}]
NoFile == [edition |-> 0, state |-> "none"]
EmptyFile == [edition |-> 0, state |-> "empty"]
HasText(file) == file.state \notin {"none", "empty"}

Tiers == {"inline", "bundle", "sheets", "origin"}
NoPage == [tier |-> "none", text |-> NoFile, since |-> 0, key |-> 0]
Faulting == faults < MaxFaults /\ faults' = faults + 1

-----------------------------------------------------------------------------
(***************************************************************************)
(* classify_links, and the tier a page gets                                 *)
(***************************************************************************)
\* No inline <style> between two links that are to become one.
CombineSafe ==
    ~\E i, j \in Combinable, k \in Places : i < k /\ k < j /\ sheets[k] = "style"

MayInline == css.inline /\ CombineSafe /\ Main # {}
MayBundle == css.defer /\ css.combine /\ CombineSafe /\ Cardinality(Main) >= 2

\* The tier to try after tier t.
After(t) ==
    IF t = "none" /\ MayInline THEN "inline"
    ELSE IF t \in {"none", "inline"} /\ MayBundle THEN "bundle"
    ELSE IF css.defer /\ Combinable # {} THEN "sheets"
    ELSE "origin"

\* Where the rules of sheet i are in a page of tier t.
Place(t, i) == IF t \in {"inline", "bundle"} /\ i \in Main THEN First(Main) ELSE i

-----------------------------------------------------------------------------
(***************************************************************************)
(* build_bundle                                                            *)
(***************************************************************************)
Async(t) ==
    CASE t = "bundle" -> {First(Main)} \cup (Combinable \ Main)
      [] t = "sheets" -> Combinable
      [] OTHER -> {}

Goto(r, pc) == request' = [request EXCEPT ![r].pc = pc]

\* The page of tier t, with the text it inlines.
Serve(r, t, text) ==
    /\ served' = [served EXCEPT ![r] = [tier |-> t, text |-> text, since |-> request[r].since,
                                        key |-> request[r].key]]
    /\ link' = IF r = Visitor THEN [i \in Places |-> IF i \in Async(t) THEN "preload" ELSE "none"]
                              ELSE link
    /\ Goto(r, "done")

\* The next tier: it begins with the key again, or needs no bundle.
Try(r, t) ==
    IF After(t) \in {"inline", "bundle"}
    THEN /\ request' = [request EXCEPT ![r].pc = "key", ![r].tier = After(t)]
         /\ UNCHANGED <<served, link>>
    ELSE Serve(r, After(t), NoFile)

\* build_bundle returns null.
NoBundle(r) == Try(r, request[r].tier)

Begin(r) ==
    /\ request[r].pc = "start"
    /\ IF After("none") \in {"inline", "bundle"}
       THEN /\ request' = [request EXCEPT ![r].pc = "key", ![r].tier = After("none"),
                                          ![r].since = edition]
            /\ UNCHANGED <<served, link>>
       ELSE Serve(r, After("none"), NoFile)
    /\ UNCHANGED <<sheets, css, csp, edition, transient, bundle, faults>>

\* sheet_version: the modification times.
Version(r) == edition

\* The key, and the file of that name.
Key(r) ==
    /\ request[r].pc = "key"
    /\ request' = [request EXCEPT ![r].key = Version(r),
                                  ![r].pc = IF bundle[Version(r)].state = "none" THEN "fetch" ELSE "read"]
    /\ UNCHANGED <<sheets, css, csp, edition, transient, bundle, served, link, faults>>

\* fetch_sheet: '' in the transient is a failure.
Fetched(answer) == answer # "empty"

HasRemote == \E i \in Main : sheets[i] = "remote"

\* The sheets, with answer "body" or "empty" for the remote ones.
Gather(r, answer) ==
    IF Fetched(answer)
    THEN /\ request' = [request EXCEPT ![r].pc = "open",
                 ![r].text = [edition |-> edition,
                              state |-> IF answer = "empty" THEN "emptied" ELSE "whole"]]
         /\ UNCHANGED <<served, link>>
    ELSE NoBundle(r)

Fetch(r) ==
    /\ request[r].pc = "fetch"
    /\ CASE ~HasRemote -> Gather(r, "body") /\ UNCHANGED <<transient, faults>>
         [] HasRemote /\ transient # "none" -> Gather(r, transient) /\ UNCHANGED <<transient, faults>>
         [] OTHER -> \/ Gather(r, "body") /\ transient' = "body" /\ UNCHANGED faults
                     \/ NoBundle(r) /\ transient' = "empty" /\ Faulting
    /\ UNCHANGED <<sheets, css, csp, edition, bundle>>

\* file_put_contents: the file is opened, which empties it, and then written.
Open(r) ==
    /\ request[r].pc = "open"
    /\ bundle' = [bundle EXCEPT ![request[r].key] = EmptyFile]
    /\ Goto(r, "write")
    /\ UNCHANGED <<sheets, css, csp, edition, transient, served, link, faults>>

Write(r) ==
    /\ request[r].pc = "write"
    /\ bundle' = [bundle EXCEPT ![request[r].key] = request[r].text]
    /\ Goto(r, "read")
    /\ UNCHANGED <<sheets, css, csp, edition, transient, served, link, faults>>

\* The disk is full: the call fails and leaves what it wrote.
WriteFails(r) ==
    /\ request[r].pc = "write" /\ Faulting
    /\ bundle' = [bundle EXCEPT ![request[r].key] = [request[r].text EXCEPT !.state = "short"]]
    /\ NoBundle(r)
    /\ UNCHANGED <<sheets, css, csp, edition, transient>>

\* The size of the file, and for the inline tier the threshold and the text.
Read(r) ==
    /\ request[r].pc = "read"
    /\ LET file == bundle[request[r].key] IN
       IF ~HasText(file) \/ (request[r].tier = "inline" /\ ~css.fits)
       THEN NoBundle(r)
       ELSE Serve(r, request[r].tier, IF request[r].tier = "inline" THEN file ELSE NoFile)
    /\ UNCHANGED <<sheets, css, csp, edition, transient, bundle, faults>>

-----------------------------------------------------------------------------
(***************************************************************************)
(* The site: an edited sheet, an expired transient                          *)
(***************************************************************************)
Edit ==
    /\ edition < MaxEdits /\ \E i \in Places : sheets[i] = "main"
    /\ edition' = edition + 1
    /\ UNCHANGED <<sheets, css, csp, transient, bundle, request, served, link, faults>>

Expire ==
    /\ transient = "empty"
    /\ transient' = "none"
    /\ UNCHANGED <<sheets, css, csp, edition, bundle, request, served, link, faults>>

-----------------------------------------------------------------------------
(***************************************************************************)
(* The browser: <link rel=preload as=style onload=... onerror=...>          *)
(***************************************************************************)
SetLink(i, state) ==
    /\ link' = [link EXCEPT ![i] = state]
    /\ UNCHANGED <<sheets, css, csp, edition, transient, bundle, request, served>>

\* What the browser gets for link i has rules in it.
HasRules(i) ==
    served[Visitor].tier = "bundle" /\ i \in Main => bundle[served[Visitor].key].state \notin {"none", "empty"}

\* The preload is there, and onload turns it into a stylesheet.
Loads(i) ==
    /\ link[i] = "preload"
    /\ SetLink(i, CASE csp # "none" -> "fetched"
                      [] csp = "none" /\ HasRules(i) -> "applied"
                      [] csp = "none" /\ ~HasRules(i) -> "blank")
    /\ UNCHANGED faults

\* onerror calls __tpCssRescue: the original sheets.
LoadFails(i) ==
    /\ link[i] = "preload" /\ Faulting
    /\ SetLink(i, IF csp = "none" THEN "rescued" ELSE "fetched")

\* Mutant of Late: no check at 6 s, so a preload that hangs is never given up.
LateNever(i) == link[i] = "fetched"

\* chk(false) at 2.5 s takes the links whose request has ended, chk(true) at 6 s all.
Late(i) == link[i] \in {"fetched", "preload"}

Rescue(i) ==
    /\ csp # "inline" /\ Late(i)
    /\ SetLink(i, "rescued")
    /\ UNCHANGED faults

-----------------------------------------------------------------------------
SheetInit(page, settings, policy) ==
    /\ sheets = page /\ css = settings /\ csp = policy
    /\ edition = 0 /\ transient = "none" /\ faults = 0
    /\ bundle = [k \in 0..MaxEdits |-> NoFile]
    /\ request = [r \in Requests |-> [pc |-> IF page = <<>> THEN "done" ELSE "start", tier |-> "none",
                                      since |-> 0, key |-> 0, text |-> NoFile]]
    /\ served = [r \in Requests |-> NoPage]
    /\ link = [i \in 1..Len(page) |-> "none"]

Build(r) == Begin(r) \/ Key(r) \/ Fetch(r) \/ Open(r) \/ Write(r) \/ Read(r)

SheetNext ==
    \/ \E r \in Requests : Build(r) \/ WriteFails(r)
    \/ \E i \in Places : Loads(i) \/ LoadFails(i) \/ Rescue(i)
    \/ Edit
    \/ Expire

\* PHP goes on, and so does the timer of the rescue script where a policy lets it run.
SheetFairness ==
    /\ \A r \in Requests : WF_sheetVars(Build(r))
    /\ WF_sheetVars(\E i \in Places : Rescue(i))

-----------------------------------------------------------------------------
\* Rules keep their order: what a page puts in one block are main sheets, and no main sheet
\* moves across another or across an inline <style>. (A conditional or excluded sheet
\* between them does lose its place.)
CascadeKept ==
    \A r \in Requests : served[r].tier # "none" =>
        \A i, j \in Main \cup {k \in Places : sheets[k] = "style"} : i < j =>
            \/ Place(served[r].tier, i) < Place(served[r].tier, j)
            \/ Place(served[r].tier, i) = Place(served[r].tier, j) /\ {i, j} \subseteq Main

\* A page is never sent a text in which a remote sheet that could not be fetched is empty
\* (its link is gone), nor local sheets older than the request, whatever requests, edits
\* and failures share the file. (A write cut short is the exception: see the README.)
WholeSheets ==
    \A r \in Requests :
        LET text == IF served[r].tier = "bundle" THEN bundle[served[r].key] ELSE served[r].text IN
        HasText(text) => text.state # "emptied" /\ text.edition >= served[r].since

Applied(i) == link[i] \in {"none", "applied", "rescued", "blank"}

\* Every asynchronous sheet of a page is applied, where the policy lets inline code run.
\* (A bundle that another request has just emptied applies no rules: see the README.)
SheetsApplied == csp # "inline" => <>[](\A i \in Places : Applied(i))
================================================================================
