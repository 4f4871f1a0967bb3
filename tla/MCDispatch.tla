------------------------------- MODULE MCDispatch -------------------------------
(***************************************************************************)
(* The critical CSS of a page, from the render that misses it to the request   *)
(* that gets it: the plugin orders it and polls (CriticalCss), jobs come to be  *)
(* (Dispatch), one extracts the CSS (Extraction), the object is served          *)
(* (Delivery). Each part abstracts the others and shares no state with them: in  *)
(* each behaviour one of them moves.                                          *)
(***************************************************************************)
EXTENDS Dispatch, TLC

CONSTANTS c1, w1, root, post, s1, s2,
          Visitor, Colo, Inactive, CssLife, MaxTime, MaxVersions, MaxSwitches,
          Challenge, Fingerprint, MaxAttempts, MaxOutput, MaxProtected, MaxRules,
          TooLittle, Little, MaxChanges, Document, Late,
          Render, Grace, Throttle, JobsTTL, Heal, MaxPolls, MaxEdits, MaxLosses

\* An answer is a version of the CSS, 0 or a refusal; a colo keeps the CSS for a while.
ASSUME AnswerAssumption ==
    /\ MaxVersions \in Nat /\ CssLife \in Nat \ {0}
    /\ None \notin Nat /\ Inactive \notin Nat /\ None # Inactive

\* The plugin's list of jobs outlives the minute between two polls, and absence is no list.
ASSUME OrderAssumption ==
    /\ JobsTTL \in Nat /\ JobsTTL > 1 /\ Heal \in Nat \ {0}
    /\ None \notin [batch : {1, 2}, left : SUBSET {"mobile", "desktop"}, ttl : Nat]

\* The sheets of pages, and their rules.
Linked == Late \cup UNION {{d[i] : i \in DOMAIN d} : d \in Document}
Authored == UNION {{s.rules[i] : i \in DOMAIN s.rules} : s \in Linked}
ASSUME DocumentAssumption ==
    /\ Document \subseteq Seq(Linked) /\ \A s \in Linked : s.rules \in Seq(Authored)
    /\ \A r \in Authored : r.used \in BOOLEAN /\ r.vital \in BOOLEAN /\ r.size \in Nat
    /\ None \notin Authored /\ {MaxOutput, MaxProtected, MaxRules} \subseteq Nat

VARIABLES
    now, exists, active, object, latest, kv, edge, req, purge, switches, on, off, last,
    wary, attempt, pc, doc, coverage, probed, css, stored, changes,
    sheets, content, fingerprint, age, throttle, chain, event, files, renders, cron, jobs, bucket,
    edits, losses, paid,
    part

delivery   == <<now, exists, active, object, latest, kv, edge, req, purge, switches, on, off, last>>
extraction == <<wary, attempt, pc, doc, coverage, probed, css, stored, changes>>
ordering   == <<sheets, content, fingerprint, age, throttle, chain, event, files, renders, cron,
                jobs, bucket, edits, losses, paid>>

JustBoth == {<<"mobile", "desktop">>}

\* A page's sheets: the theme's fill an envelope, the widgets' come after it.
Rule(name, used, vital) == [name |-> name, used |-> used, vital |-> vital, size |-> 1]
Sheet(path, access, rules) == [path |-> path, access |-> access, rules |-> rules]

Theme == Sheet("theme", "own",
               <<Rule("t1", TRUE, FALSE), Rule("t2", FALSE, FALSE), Rule("t3", TRUE, FALSE)>>)
Widgets == Sheet("widgets", "own", <<Rule("w1", TRUE, TRUE), Rule("w2", TRUE, FALSE)>>)
Fonts == Sheet("fonts", "foreign", <<Rule("f1", TRUE, TRUE), Rule("f2", FALSE, FALSE)>>)
Lib == Sheet("lib", "foreign", <<Rule("l1", TRUE, FALSE)>>)
LibToo == Sheet("lib", "foreign", <<Rule("m1", TRUE, FALSE)>>)
ForPrint == Sheet("print", "off", <<Rule("p1", TRUE, FALSE)>>)

SomeSheets == {Theme, Widgets, Fonts, Lib, LibToo, ForPrint}
SomeDocuments ==
    {<<s>> : s \in SomeSheets}
    \cup {<<s, t>> : s \in {Theme, Fonts, Lib}, t \in {Widgets, LibToo, ForPrint}}
    \cup {<<Theme, Fonts, Widgets>>, <<Lib, Theme, LibToo>>, <<Fonts, ForPrint, Widgets>>}

SomeLate == {Widgets, Lib}

D == INSTANCE Delivery WITH css <- object, stored <- last
E == INSTANCE Extraction
P == INSTANCE CriticalCss WITH MaxAttempts <- MaxPolls, MaxFaults <- MaxLosses,
        version <- content, css <- files, proc <- renders, object <- bucket, faults <- losses

JourneyInit ==
    /\ part \in {"order", "dispatch", "extract", "deliver"}
    /\ Init /\ D!Init /\ E!Init /\ P!Init
    /\ part = "dispatch" \/ \A p, q \in Page : structure[p] = structure[q]
    /\ part = "extract" \/ wary = {}
    /\ part = "order" \/ sheets = "local"

JourneyNext ==
    /\ UNCHANGED part
    /\ \/ part = "dispatch" /\ Next   /\ UNCHANGED <<delivery, extraction, ordering>>
       \/ part = "extract"  /\ E!Next /\ UNCHANGED <<vars, delivery, ordering>>
       \/ part = "deliver"  /\ D!Next /\ UNCHANGED <<vars, extraction, ordering>>
       \/ part = "order"    /\ P!Next /\ UNCHANGED <<vars, delivery, extraction>>

JourneySpec == JourneyInit /\ [][JourneyNext]_<<vars, delivery, extraction, ordering, part>>

\* The properties of the other parts, stated and explained there.
StoredIsTheCascade == E!StoredIsTheCascade
AnswersAreRecent == D!AnswersAreRecent
PaidOncePerVersion == P!PaidOncePerVersion

Symmetric == Permutations(Structure) \cup Permutations(Visitor)
=============================================================================
