----------------------------- MODULE AdoptionGate -----------------------------
(***************************************************************************)
(* What the adoption gate of one backend promises to callers that take     *)
(* turns (docs/architecture/adapter-contract.md): it is created blocked,   *)
(* recording a check changes that check and takes the decision back, and a *)
(* decision is made of all the checks that are recorded at that moment.    *)
(***************************************************************************)
CONSTANT Checks    \* the required checks of the backend

VARIABLES
  decision,   \* "absent" until the record exists, then its status
  outcome     \* outcome[k]: the status of check k

vars == <<decision, outcome>>

Outcomes == {"pass", "fail", "blocked"}

Unrecorded == [k \in Checks |-> "blocked"]

Decide(results) ==
  IF \A k \in Checks : results[k] = "pass" THEN "pass"
  ELSE IF \E k \in Checks : results[k] = "fail" THEN "fail"
  ELSE "blocked"

Init == decision = "absent" /\ outcome = Unrecorded

Initialize ==
  /\ decision = "absent"
  /\ decision' = "blocked"
  /\ UNCHANGED outcome

Record ==
  /\ decision # "absent"
  /\ \E k \in Checks, result \in Outcomes :
       outcome' = [outcome EXCEPT ![k] = result]
  /\ decision' = "blocked"

Evaluate ==
  /\ decision # "absent"
  /\ decision' = Decide(outcome)
  /\ UNCHANGED outcome

Next == Initialize \/ Record \/ Evaluate

Spec == Init /\ [][Next]_vars
=============================================================================
