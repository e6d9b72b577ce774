--------------------------- MODULE MCExtension ---------------------------
(* The extension's popup on small instances.                                 *)
EXTENDS Extension

CONSTANTS s1, s2, o1, o2

\* One secret names an origin, the other none.
MCUrls == (s1 :> {o1}) @@ (s2 :> {})
==========================================================================
