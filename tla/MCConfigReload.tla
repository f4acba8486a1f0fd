--------------------------- MODULE MCConfigReload ---------------------------
(* A small instance of ConfigReload for TLC. *)
EXTENDS ConfigReload

CONSTANTS k1, k2, main, a1, a2, words, noWords

Src(k, d) == [key |-> k, def |-> d]

Doc(w, kw, srcs, g) == [watch |-> w, keywords |-> kw, sources |-> srcs, geo |-> g]

\* One source; the same changed and a second one, listed twice; other keywords
\* with a source that cannot start; watching off.
One     == Doc(TRUE, words, <<Src(k1, 1)>>, TRUE)
Two     == Doc(TRUE, words, <<Src(k1, 2), Src(k2, 1), Src(k2, 2)>>, FALSE)
Other   == Doc(TRUE, noWords, <<Src(k2, 1), Src(k1, 3)>>, TRUE)
Off     == Doc(FALSE, noWords, <<Src(k1, 1)>>, FALSE)

MCConfigs     == {One, Two, Other, Off}
MCUnstartable == {Src(k1, 3)}
MCAdmins      == {a1, a2}
MCCallers     == {main, a1, a2}
MCKeys        == {k1, k2}
=============================================================================
