------------------------------- MODULE Extraction -------------------------------
(***************************************************************************)
(* How a job gets the critical CSS of a page (services/puppeteer-extractor.ts): *)
(* a browser tab loads it, is left to settle, and is asked for the rules that   *)
(* the page uses, in their order and within two envelopes; what the browser may  *)
(* not read comes from the coverage profiler. The page's own scripts run all     *)
(* the while: they add sheets, and may lead to another document.              *)
(*                                                                         *)
(* A rule is a record [name, used, vital, size]: used if the page has an element *)
(* that it selects, or if it is of a kind that is kept anyway (a matching @media, *)
(* an at-rule, custom properties); vital if isProtectedRule says so. An @import   *)
(* that may be read stands for the rules of its sheet. A sheet is a record        *)
(* [path, access, rules]: its own origin's ("own"), one that may not be read      *)
(* ("foreign"), or one disabled or for other media ("off").                   *)
(***************************************************************************)
EXTENDS Naturals, Sequences, FiniteSets, SequencesExt

CONSTANTS
    Document,       \* sequences of sheets
    Late,           \* the sheets that scripts add
    None, Challenge,\* no document; the page of a firewall that asks whether one is human
    Fingerprint,    \* 1..n, the user agents (4 in the code)
    MaxAttempts,    \* deliveries of the message
    MaxOutput, MaxProtected, MaxRules,
    TooLittle,      \* less is never a page's CSS,
    Little,         \* and less than this seldom is (256 and 1024 bytes in the code)
    MaxChanges      \* bound on what the scripts do

VARIABLES
    wary,       \* the fingerprints that the firewall challenges
    attempt,
    pc,
    doc,        \* what the tab shows
    coverage,   \* the sheets that the profiler knows; None without a profiler
    probed,     \* how many sheets it had when it was looked at
    css,        \* the rules extracted, and from what
    stored,     \* the object in R2
    changes

extraction == <<wary, attempt, pc, doc, coverage, probed, css, stored, changes>>

-----------------------------------------------------------------------------
(***************************************************************************)
(* In the page                                                             *)
(***************************************************************************)
Segment(rule) == [rule |-> rule, path |-> None]
Mark(sheet) == [rule |-> None, path |-> sheet.path]

\* What the walk meets in a sheet: its rules, or a mark where they would be.
Segments(sheet) ==
    CASE sheet.access = "own" -> [i \in DOMAIN sheet.rules |-> Segment(sheet.rules[i])]
      [] sheet.access = "foreign" -> <<Mark(sheet)>>
      [] OTHER -> <<>>

Start == [out |-> <<>>, bytes |-> 0, spare |-> 0, count |-> 0]

\* Each rule has to fit: in the envelope of all, or, if it is vital, in the other one.
Push(acc, segment) ==
    LET size == segment.rule.size
        kept == [acc EXCEPT !.out = Append(@, segment)]
    IN  IF acc.bytes + size <= MaxOutput THEN [kept EXCEPT !.bytes = @ + size]
        ELSE IF segment.rule.vital /\ acc.spare + size <= MaxProtected
             THEN [kept EXCEPT !.spare = @ + size]
        ELSE acc

\* One rule of the walk. (The code also means to stop once both envelopes are full, but
\* neither is ever more than full.)
Collect(acc, segment) ==
    LET counted == [acc EXCEPT !.count = @ + 1]
    IN  IF segment.rule = None THEN [acc EXCEPT !.out = Append(@, segment)]
        ELSE IF acc.count > MaxRules \/ ~segment.rule.used THEN counted
        ELSE Push(counted, segment)

\* Mutant of Walk: the envelopes are asked for whole sheets, as they were before v1.13.0.
WalkBySheet(sheets) ==
    LET Used(sheet) == SelectSeq(Segments(sheet), LAMBDA s : s.rule = None \/ s.rule.used)
        Take(acc, sheet) ==
            IF Len(Used(sheet)) + acc.bytes <= MaxOutput
            THEN [acc EXCEPT !.out = @ \o Used(sheet), !.bytes = @ + Len(Used(sheet))]
            ELSE acc
    IN  FoldLeft(Take, Start, sheets).out

Walk(sheets) == FoldLeft(Collect, Start, FlattenSeq([i \in DOMAIN sheets |-> Segments(sheets[i])])).out

-----------------------------------------------------------------------------
(***************************************************************************)
(* In the worker                                                           *)
(***************************************************************************)
Used(rules) ==
    FlattenSeq([i \in DOMAIN rules |-> IF rules[i].used THEN <<rules[i]>> ELSE <<>>])

\* The used rules of every sheet that the profiler knows under this path (the query of the
\* URL is ignored),
Slices(known, path) ==
    FlattenSeq([i \in DOMAIN known |-> IF known[i].path = path THEN Used(known[i].rules) ELSE <<>>])

\* which take the place of the mark.
Spliced(segments, known) ==
    FlattenSeq([i \in DOMAIN segments |->
        IF segments[i].rule # None THEN <<segments[i].rule>>
        ELSE IF known = None THEN <<>>
        ELSE Slices(known, segments[i].path)])

\* (What little CSS the firewall's page has is left out.)
Sheets(d) == IF d = Challenge THEN <<>> ELSE d

Bytes(rules) == FoldLeft(LAMBDA n, r : n + r.size, 0, rules)

-----------------------------------------------------------------------------
(***************************************************************************)
(* A job                                                                   *)
(***************************************************************************)
UserAgent == ((attempt - 1) % Cardinality(Fingerprint)) + 1

\* The consumer hands on a message, which it does up to MaxAttempts times.
Deliver ==
    /\ pc = "idle" /\ attempt < MaxAttempts
    /\ attempt' = attempt + 1 /\ pc' = "open"
    /\ UNCHANGED <<wary, doc, coverage, probed, css, stored, changes>>

\* A tab: the viewport, a user agent of the pool, the profiler if there is one.
Open ==
    /\ pc = "open" /\ pc' = "goto"
    /\ coverage' \in {None, <<>>}
    /\ UNCHANGED <<wary, attempt, doc, probed, css, stored, changes>>

\* The page arrives, or the firewall's; both with a status of 2xx and from the same origin.
Goto ==
    /\ pc = "goto" /\ pc' = "settle"
    /\ doc' \in IF UserAgent \in wary THEN {Challenge} ELSE Document
    /\ UNCHANGED <<wary, attempt, coverage, probed, css, stored, changes>>

\* The profiler hears of the sheets as they load, and keeps those of earlier documents.
Probe ==
    /\ pc = "settle" /\ doc # Challenge
    /\ pc' = "stop" /\ probed' = Len(doc)
    /\ UNCHANGED <<wary, attempt, doc, coverage, css, stored, changes>>

StopCoverage ==
    /\ pc = "stop" /\ pc' = "collect"
    /\ coverage' = IF coverage = None THEN None ELSE coverage \o Sheets(doc)
    /\ UNCHANGED <<wary, attempt, doc, probed, css, stored, changes>>

\* The rules; too few of them are no page's.
Extract ==
    /\ pc = "collect"
    /\ LET sheets == Sheets(doc)
           rules == Spliced(Walk(sheets), coverage)
       IN  /\ Bytes(rules) >= TooLittle
           /\ Bytes(rules) >= Little \/ probed > 2
           /\ css' = [rules |-> rules, of |-> sheets, known |-> coverage]
    /\ pc' = "store"
    /\ UNCHANGED <<wary, attempt, doc, coverage, probed, stored, changes>>

\* After the measurements, which only read.
Store ==
    /\ pc = "store" /\ pc' = "done"
    /\ stored' = css /\ css' = None
    /\ doc' = None /\ coverage' = None /\ probed' = 0
    /\ UNCHANGED <<wary, attempt, changes>>

\* Every step may throw: the tab is closed, the message is delivered again or given up.
Fail ==
    /\ pc \in {"open", "goto", "settle", "stop", "collect", "store"}
    /\ pc' = "idle"
    /\ doc' = None /\ coverage' = None /\ probed' = 0 /\ css' = None
    /\ UNCHANGED <<wary, attempt, stored, changes>>

\* Meanwhile a script adds a sheet, first, last or in between,
AddSheet ==
    /\ changes < MaxChanges /\ changes' = changes + 1
    /\ pc \in {"settle", "stop", "collect"} /\ doc # Challenge
    /\ \E sheet \in Late, n \in 1..Len(doc) + 1 :
         /\ \A i \in DOMAIN doc : doc[i] # sheet
         /\ doc' = InsertAt(doc, n, sheet)
    /\ UNCHANGED <<wary, attempt, pc, coverage, probed, css, stored>>

\* or leads to another document, of whatever status. The profiler keeps what it knows.
Leave ==
    /\ changes < MaxChanges /\ changes' = changes + 1
    /\ pc \in {"settle", "stop", "collect"} /\ doc # Challenge
    /\ doc' \in Document \cup {Challenge}
    /\ coverage' = IF coverage = None \/ pc \notin {"settle", "stop"} THEN coverage ELSE coverage \o doc
    /\ UNCHANGED <<wary, attempt, pc, probed, css, stored>>

-----------------------------------------------------------------------------
Init ==
    /\ wary \in SUBSET Fingerprint
    /\ attempt = 0 /\ pc = "idle"
    /\ doc = None /\ coverage = None /\ probed = 0 /\ css = None /\ stored = None
    /\ changes = 0

Next ==
    \/ Deliver \/ Open \/ Goto \/ Probe \/ StopCoverage \/ Extract \/ Store \/ Fail
    \/ AddSheet \/ Leave

Spec == Init /\ [][Next]_extraction

-----------------------------------------------------------------------------
\* Where the rules of a page stand: in which of its sheets, and where in that.
Places(sheets) == UNION {{i} \X DOMAIN sheets[i].rules : i \in DOMAIN sheets}
Earlier(p, q) == p[1] < q[1] \/ (p[1] = q[1] /\ p[2] < q[2])
At(sheets, p) == sheets[p[1]].rules[p[2]]

UsedPlaces(sheets) == {p \in Places(sheets) : At(sheets, p).used}
Readable(sheets) == {p \in Places(sheets) : sheets[p[1]].access = "own"}
Precious(sheets) == {p \in Readable(sheets) \cap UsedPlaces(sheets) : At(sheets, p).vital}

\* The profiler knows another sheet under the path of one that may not be read, or that one
\* twice, since it goes by the path alone.
Confused(sheets, known) ==
    \E i \in DOMAIN sheets : \E k, l \in DOMAIN known :
        /\ sheets[i].access = "foreign"
        /\ known[k].path = sheets[i].path /\ known[l].path = sheets[i].path
        /\ k # l \/ known[k] # sheets[i]

\* What is stored is the page's cascade: only rules that it uses, in the order of the
\* document, though some come from the profiler (unless that confuses two sheets of one
\* path); and of those that a page is not recognisable without, none is missing, however
\* long the sheets before it are, unless they alone overflow their envelope, or the page has
\* more rules than are looked at.
StoredIsTheCascade ==
    stored # None =>
        LET rules == stored.rules
            sheets == stored.of
            Stands(i, p) == At(sheets, p) = rules[i]
            size == [p \in Places(sheets) |-> At(sheets, p).size]
        IN  /\ stored.known = None \/ ~Confused(sheets, stored.known) =>
                 /\ \A i \in DOMAIN rules : \E p \in UsedPlaces(sheets) : Stands(i, p)
                 /\ \A i, j \in DOMAIN rules : i < j =>
                       \E p, q \in UsedPlaces(sheets) :
                           Stands(i, p) /\ Stands(j, q) /\ Earlier(p, q)
            /\ /\ SumFunctionOnSet(size, Precious(sheets)) <= MaxProtected
               /\ Cardinality(Readable(sheets)) <= MaxRules
               => \A p \in Precious(sheets) : At(sheets, p) \in ToSet(rules)
=============================================================================
