-------------------------- MODULE MCBackendAdoption --------------------------
(* One backend with two required checks, two evidence files, two callers.   *)
EXTENDS BackendAdoption, TLC

CONSTANTS k1, k2, f1, f2, w1, w2

MCChecks == {k1, k2}
MCFiles == {f1, f2}
MCWriters == {w1, w2}
=============================================================================
