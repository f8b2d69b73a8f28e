------------------------------ MODULE MCFFFile ------------------------------
(* TLC instances of FFFile. *)
EXTENDS FFFile

\* GetModeBits: r, r+, w, w+, a, a+
MCModes == {{"R"}, {"R", "W"}, {"R", "W", "C", "T"}, {"R", "W", "A", "C"}}
MCFreeSets == {{2, 3, 5}, {2, 4}}
NotAstray == astray = {}
=============================================================================
