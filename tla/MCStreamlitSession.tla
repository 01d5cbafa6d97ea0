------------------------- MODULE MCStreamlitSession -------------------------
EXTENDS StreamlitSession

CONSTANTS s1, s2

MCSessions == {s1, s2}

\* Two settings that differ in the backend and in nothing else.
MCRequests == [path : {"tree"}, backend : Backends, patch_gap : {FALSE}]
=============================================================================
