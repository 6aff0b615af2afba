------------------------- MODULE MC_LocalIndexing -------------------------
EXTENDS LocalIndexing, TLC

CONSTANTS c1, c2

\* One handler submits, the other serves the rest.
OneSubmitter == c1 :> {"submit"} @@ c2 :> {"pause", "resume", "cancel", "status"}
=============================================================================
