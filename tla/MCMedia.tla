------------------------------- MODULE MCMedia --------------------------------
(* Instances of Media for TLC: the configurations say which. *)
EXTENDS Media

AnAsset(format, vector, big, library) ==
    [format |-> format, vector |-> vector, big |-> big, library |-> library, binding |-> FALSE]

\* A photo of the theme, one of the upload library, a big one, an icon, a font,
\* a style sheet; the first of them also where the Images binding is configured.
AllAssets == {
    AnAsset("webp", FALSE, FALSE, FALSE), AnAsset("webp", FALSE, FALSE, TRUE),
    AnAsset("webp", FALSE, TRUE, FALSE), AnAsset("webp", TRUE, FALSE, FALSE),
    AnAsset("orig", FALSE, FALSE, FALSE), AnAsset("raw", FALSE, FALSE, FALSE),
    [AnAsset("webp", FALSE, FALSE, FALSE) EXCEPT !.binding = TRUE]}
=============================================================================
