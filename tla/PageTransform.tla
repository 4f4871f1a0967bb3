---------------------------- MODULE PageTransform ----------------------------
(***************************************************************************)
(* A page between the origin and the visitor's screen: the stages that        *)
(* DomEngine::transform runs over its HTML, and the browser that gets the     *)
(* result. Each stage rewrites one family of elements; a stage that is off, or *)
(* whose output looks damaged, leaves its family to the origin.              *)
(***************************************************************************)
EXTENDS ScriptDelay, Stylesheets, Images

CONSTANTS Pages,        \* the origin's pages: [scripts, sheets, images]
          Settings      \* of the stylesheets

ASSUME PageAssumption ==
    /\ Settings \subseteq Css
    /\ Pages \subseteq [scripts : Seq(Scripts), sheets : Seq(SheetKind), images : Seq(ImageKinds)]

vars == <<scriptVars, sheetVars, imageVars>>

\* The stages that find something to rewrite.
Stages(page) ==
    (IF page.scripts = <<>> THEN {} ELSE {"scripts"})
    \cup (IF page.sheets = <<>> THEN {} ELSE {"critical_css"})
    \cup (IF page.images = <<>> THEN {} ELSE {"offload", "media", "bg_lazyload"})

\* The stages whose output is taken. A document without a head and a body, or one that this
\* version has transformed before, keeps none; a stage is reverted when its output has lost
\* the skeleton, or a few scripts, or has an implausible size.
Kept(page) == SUBSET Stages(page)

Modes == {"defer", "interaction_delay"}

Init ==
    \E page \in Pages : \E kept \in Kept(page) :
        /\ \E m \in IF "scripts" \in kept THEN Modes ELSE {"none"},
              data \in IF "scripts" \in kept THEN BOOLEAN ELSE {FALSE} :
               ScriptInit(page.scripts, m, data)
        /\ \E policy \in IF page.sheets = <<>> /\ page.images = <<>> THEN {"none"} ELSE
                       IF page.sheets = <<>> THEN {"none", "inline"} ELSE Csp :
            /\ \E c \in IF "critical_css" \in kept THEN Settings ELSE {CssOff} :
                   SheetInit(page.sheets, c, policy)
            /\ \E blur \in IF {"offload", "media"} \subseteq kept THEN BOOLEAN ELSE {FALSE} :
                   ImageInit(page.images,
                             [offload |-> "offload" \in kept, optimize |-> "media" \in kept,
                              blur |-> blur, backgrounds |-> "bg_lazyload" \in kept],
                             policy # "inline")

Next ==
    \/ ScriptNext /\ UNCHANGED <<sheetVars, imageVars>>
    \/ SheetNext /\ UNCHANGED <<scriptVars, imageVars>>
    \/ ImageNext /\ UNCHANGED <<scriptVars, sheetVars>>

Spec == Init /\ [][Next]_vars /\ ScriptFairness /\ SheetFairness /\ ImageFairness

-----------------------------------------------------------------------------
\* What comes to the visitor is the origin's page: its scripts run and its rules apply in
\* the origin's order, no text stands in for sheets that it lacks, and the image that was
\* measured as the largest is the first to be fetched.
OriginKept == DocumentOrder /\ CascadeKept /\ WholeSheets /\ MeasuredImageFirst

\* The page comes, whatever fails on the way: every script runs, every sheet is applied,
\* every image that the visitor comes near is shown.
PageComes == EveryScriptRuns /\ SheetsApplied /\ ImagesShown
=============================================================================
