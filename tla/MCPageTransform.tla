--------------------------- MODULE MCPageTransform ---------------------------
(***************************************************************************)
(* A page, from the origin to the screen (PageTransform), and the media CDN   *)
(* that its images are asked of (Media). The two share no state: in each       *)
(* behaviour one of them moves.                                             *)
(***************************************************************************)
EXTENDS PageTransform

CONSTANTS Getter, Worker, Colo, None, Assets, MaxAttempts, MaxUpsets

VARIABLES asset, cache, r2, tasks, proc, queue, upsets, part

cdn == <<asset, cache, r2, tasks, proc, queue, upsets>>

M == INSTANCE Media WITH faults <- upsets, MaxFaults <- MaxUpsets

\* What Media assumes of its constants.
ASSUME CdnAssumption ==
    /\ Assets \subseteq M!Asset
    /\ \A a \in Assets : a.format = "raw" => ~a.vector /\ ~a.library
    /\ {MaxAttempts, MaxUpsets} \subseteq Nat /\ Getter \cap Worker = {}
    /\ None \notin M!Bytes

\* A page with nothing to rewrite rests.
Blank ==
    /\ ScriptInit(<<>>, "none", FALSE)
    /\ SheetInit(<<>>, CssOff, "none")
    /\ ImageInit(<<>>, [offload |-> FALSE, optimize |-> FALSE, blur |-> FALSE,
                        backgrounds |-> FALSE], TRUE)

VisitInit ==
    /\ part \in {"page", "media"} /\ M!Init
    /\ \/ part = "page" /\ Init /\ asset.format = "raw"
       \/ part = "media" /\ Blank

VisitNext ==
    /\ UNCHANGED part
    /\ \/ part = "page"  /\ Next   /\ UNCHANGED cdn
       \/ part = "media" /\ M!Next /\ UNCHANGED vars

VisitSpec == VisitInit /\ [][VisitNext]_<<vars, cdn, part>>
             /\ ScriptFairness /\ SheetFairness /\ ImageFairness

\* What is stored at the CDN, as stated and explained in Media.
RightBytes == M!RightBytes

-----------------------------------------------------------------------------
\* Small pages: up to three scripts, three sheets or three images. The families share no
\* state either, so pages that mix them would only multiply their states.

Script(external, load, mark) == [external |-> external, load |-> load, mark |-> mark]
SomeScripts ==
    {Script(TRUE, load, "none") : load \in {"sync", "defer", "async"}}
    \cup {Script(FALSE, "sync", mark) : mark \in {"none", "big", "ours"}}
    \cup {Script(TRUE, "sync", "kept"), Script(FALSE, "data", "none"), Script(TRUE, "module", "none")}

SomeSheets ==
    {<<"main", "main">>, <<"main", "remote">>, <<"main", "style", "main">>,
     <<"main", "media", "main">>, <<"remote", "left", "style">>, <<"media", "main">>}

Image(tag, own, form, loading, tiny) ==
    [tag |-> tag, own |-> own, form |-> form, loading |-> loading, tiny |-> tiny]
SomeImages ==
    {Image("img", TRUE, "raster", loading, FALSE) : loading \in {"none", "lazy", "eager"}}
    \cup {Image("bg", TRUE, "raster", "none", FALSE), Image("bg", FALSE, "vector", "none", FALSE),
          Image("img", TRUE, "vector", "none", TRUE), Image("img", FALSE, "data", "none", FALSE)}

Hero == Image("bg", TRUE, "raster", "none", FALSE)

Setting(inline, combine, fits, defer) ==
    [inline |-> inline, combine |-> combine, fits |-> fits, defer |-> defer]
SomeSettings ==
    {Setting(TRUE, FALSE, TRUE, FALSE), Setting(TRUE, TRUE, FALSE, TRUE),
     Setting(FALSE, TRUE, TRUE, TRUE), Setting(FALSE, FALSE, TRUE, TRUE)}

Upto(n, S) == UNION {[1..k -> S] : k \in 1..n}
Page(s, t, u) == [scripts |-> s, sheets |-> t, images |-> u]

SomePages ==
    {Page(s, <<>>, <<>>) : s \in Upto(3, SomeScripts)}
    \cup {Page(<<>>, s, <<>>) : s \in SomeSheets}
    \cup {Page(<<>>, <<>>, s) : s \in Upto(2, SomeImages)}
    \cup {Page(<<>>, <<>>, <<Hero, Hero, p>>) : p \in SomeImages}

AnAsset(format, vector, big, library) ==
    [format |-> format, vector |-> vector, big |-> big, library |-> library, binding |-> FALSE]

\* A photo of the theme, one of the upload library, a big one, an icon, a font,
\* a style sheet; the first of them also where the Images binding is configured.
AllAssets == {
    AnAsset("webp", FALSE, FALSE, FALSE), AnAsset("webp", FALSE, FALSE, TRUE),
    AnAsset("webp", FALSE, TRUE, FALSE), AnAsset("webp", TRUE, FALSE, FALSE),
    AnAsset("orig", FALSE, FALSE, FALSE), AnAsset("raw", FALSE, FALSE, FALSE),
    [AnAsset("webp", FALSE, FALSE, FALSE) EXCEPT !.binding = TRUE]}
=============================================================================
