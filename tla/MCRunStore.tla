------------------------------ MODULE MCRunStore ------------------------------
(* A small run store for TLC: two artifacts, one passing and one failing     *)
(* acceptance result.                                                        *)
EXTENDS RunStore

CONSTANTS a1, a2, good, bad

MCArtifacts == {a1, a2}
MCResults == {good, bad}
MCPassing == {good}
=============================================================================
