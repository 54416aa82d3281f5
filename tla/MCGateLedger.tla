----------------------------- MODULE MCGateLedger -----------------------------
(* Two gates and one evidence file, which a call that maps two checks names  *)
(* twice and a summary of two gates reads for both.                          *)
EXTENDS GateLedger, TLC

CONSTANTS G0, G2, k1, k2, f1, c1, c2, w1, w2

MCGates == {G0, G2}
MCRequires == [g \in MCGates |-> IF g = G0 THEN {k1} ELSE {k1, k2}]
MCAllowsNA == {G2}
MCFiles == {f1}
MCContents == {c1, c2}
MCWriters == {w1, w2}

\* Contents and writers are interchangeable.
MCSymmetry ==
  Permutations(MCContents) \cup Permutations(MCWriters)
=============================================================================
