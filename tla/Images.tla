-------------------------------- MODULE Images --------------------------------
(***************************************************************************)
(* The images of a page: what transformer/class-media-offloader.php,          *)
(* class-media-optimizer.php and class-bg-lazyloader.php make of each <img>   *)
(* and inline background, in that order, and the scripts that put the real    *)
(* image in the place of a placeholder as the visitor comes near it.          *)
(***************************************************************************)
EXTENDS Naturals, Sequences, FiniteSets

CONSTANTS ImageKinds,     \* the images pages are made of
          MaxLost         \* bound on the images whose request fails

\* An <img> or an inline background, of this site or another; its form (a data: source is
\* left alone); its loading attribute; at most 100 pixels wide or high.
ImageKind == [tag : {"img", "bg"}, own : BOOLEAN, form : {"raster", "vector", "data"},
              loading : {"none", "lazy", "eager"}, tiny : BOOLEAN]

ASSUME ImageAssumption == ImageKinds \subseteq ImageKind /\ MaxLost \in Nat

Media == [offload : BOOLEAN, optimize : BOOLEAN, blur : BOOLEAN, backgrounds : BOOLEAN]

VARIABLES
    images,      \* of the origin's page, in document order
    media,       \* the stages that are on and kept: the offload, the optimizer (with its
                 \* placeholders or not), the lazy backgrounds
    measured,    \* the image the edge measured as the largest, 0 when there is none
    inlineRuns,  \* the policy of the page lets inline code run
    shows,       \* per image, in the browser
    lost

imageVars == <<images, media, measured, inlineRuns, shows, lost>>

Spots == 1..Len(images)
Earliest(S) == CHOOSE i \in S : \A j \in S : i <= j

-----------------------------------------------------------------------------
(***************************************************************************)
(* MediaOffloader::transform, rewrite_source                                *)
(***************************************************************************)
Offloaded(i) == media.offload /\ images[i].own /\ images[i].form # "data"

\* What the page fetches for image i: its original bytes, a derivative, or the origin's file.
Target(i) ==
    CASE ~Offloaded(i) -> "origin"
      [] Offloaded(i) /\ images[i].form = "vector" -> "bytes"
      [] Offloaded(i) /\ images[i].form # "vector" -> "derivative"

-----------------------------------------------------------------------------
(***************************************************************************)
(* MediaOptimizer::transform                                               *)
(***************************************************************************)
Imgs == {i \in Spots : media.optimize /\ images[i].tag = "img" /\ images[i].form # "data"}
Backgrounds == {i \in Spots : images[i].tag = "bg" /\ images[i].form # "data"}

\* The first <img> that is neither lazy nor tiny, when nothing was measured.
Guessed == {i \in Imgs : measured = 0 /\ images[i].loading # "lazy" /\ ~images[i].tiny}

\* Fetched at high priority, and without a placeholder.
Urgent(i) == (i = measured /\ i \in Imgs) \/ (i \in Guessed /\ i = Earliest(Guessed))

Lazy(i) == i \in Imgs /\ ~Urgent(i) /\ images[i].loading # "eager"

\* A placeholder of 24 pixels in the place of the image.
Blurred(i) ==
    /\ i \in Imgs /\ ~Urgent(i)
    /\ media.blur /\ Offloaded(i) /\ images[i].form = "raster" /\ ~images[i].tiny

\* lcp_fetch_url: the derivative of a background, whatever its form.
PreloadOfBackground(i) == IF media.offload /\ images[i].own THEN "derivative" ELSE "origin"

\* The image preloaded for the measured or guessed one, and by which address.
Preloads ==
    CASE measured \in Imgs -> {<<measured, Target(measured)>>}
      [] measured \in Backgrounds -> {<<measured, PreloadOfBackground(measured)>>}
      [] Guessed # {} -> {<<Earliest(Guessed), Target(Earliest(Guessed))>>}
      [] OTHER -> {}

-----------------------------------------------------------------------------
(***************************************************************************)
(* BgLazyLoader::transform                                                 *)
(***************************************************************************)
\* All but the first background wait; the measured one does not, as long as its address is
\* still the one that was measured.
Waits(i) ==
    /\ media.backgrounds /\ i \in Backgrounds /\ i # Earliest(Backgrounds)
    /\ ~(i = measured /\ ~Offloaded(i))

-----------------------------------------------------------------------------
(***************************************************************************)
(* The browser                                                             *)
(***************************************************************************)
Show(i, state) ==
    /\ shows' = [shows EXCEPT ![i] = state]
    /\ UNCHANGED <<images, media, measured, inlineRuns>>

\* The visitor comes near, and the observer asks for the real image.
Approach(i) ==
    /\ inlineRuns /\ shows[i] = "placeholder"
    /\ Show(i, "loading") /\ UNCHANGED lost

Arrives(i) ==
    /\ shows[i] = "loading"
    /\ Show(i, "image") /\ UNCHANGED lost

\* im.onerror: the origin's file for an <img>, the address as it is for a background.
Fails(i) ==
    /\ shows[i] = "loading" /\ lost < MaxLost /\ lost' = lost + 1
    /\ Show(i, IF images[i].tag = "img" THEN "original" ELSE "image")

-----------------------------------------------------------------------------
ImageInit(page, settings, policy) ==
    /\ images = page
    /\ media = settings /\ inlineRuns = policy
    /\ measured \in {0} \cup {i \in 1..Len(page) : page[i].form # "data"}
    /\ shows = [i \in Spots |-> IF Blurred(i) \/ Waits(i) THEN "placeholder" ELSE "page"]
    /\ lost = 0

ImageNext == \E i \in Spots : Approach(i) \/ Arrives(i) \/ Fails(i)

\* A request is answered or fails.
ImageFairness == WF_imageVars(\E i \in Spots : Arrives(i) \/ Fails(i))

-----------------------------------------------------------------------------
\* The image that was measured as the largest is fetched first: an <img> at high priority,
\* neither lazy nor behind a placeholder and preloaded by the very address it will ask for;
\* a background that keeps its address does not wait. No second <img> is urgent.
MeasuredImageFirst ==
    /\ measured \in Imgs => /\ Urgent(measured) /\ ~Lazy(measured)
                            /\ shows[measured] = "page"
                            /\ <<measured, Target(measured)>> \in Preloads
    /\ measured \in Backgrounds /\ ~Offloaded(measured) => shows[measured] = "page"
    /\ Cardinality({i \in Spots : Urgent(i)}) <= 1

\* An image whose placeholder the visitor comes near is shown, from the CDN or the origin.
ImagesShown == <>[](\A i \in Spots : shows[i] \in {"page", "placeholder", "image", "original"})
================================================================================
