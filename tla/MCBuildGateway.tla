--------------------------- MODULE MCBuildGateway ---------------------------
(* Model-checking instance of BuildGateway. *)
EXTENDS BuildGateway, TLC
CONSTANTS b1, b2, p1, p2
BuildsOne == {b1}
BuildsTwo == {b1, b2}
ProvidersOne == {p1}
ProvidersTwo == {p1, p2}
AnyReporter == Providers \cup {NoProvider}
=============================================================================
