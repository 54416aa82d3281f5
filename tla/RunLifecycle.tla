----------------------------- MODULE RunLifecycle -----------------------------
(***************************************************************************)
(* What one run promises to whoever looks at its manifest, whatever the    *)
(* store does underneath.  It is planned, it may run, it ends once and     *)
(* stays ended; the physics is judged only after the execution succeeded,  *)
(* and a judgement may be revised but not withdrawn.                       *)
(***************************************************************************)

VARIABLES
  execution,    \* "absent" until the run exists, then its execution status
  acceptance    \* its acceptance status

vars == <<execution, acceptance>>

Init == execution = "absent" /\ acceptance = "pending"

\* The status of the execution moves from one of `sources` to `target`.
Move(sources, target) ==
  /\ execution \in sources
  /\ execution' = target
  /\ UNCHANGED acceptance

Create == Move({"absent"}, "planned")
Run    == Move({"planned"}, "running")
End    == \E outcome \in {"succeeded", "failed"} : Move({"running"}, outcome)
Cancel == Move({"planned", "running"}, "cancelled")

Judge ==
  /\ execution = "succeeded"
  /\ acceptance' \in {"accepted", "rejected"}
  /\ UNCHANGED execution

Next == Create \/ Run \/ End \/ Cancel \/ Judge

Spec == Init /\ [][Next]_vars
=============================================================================
