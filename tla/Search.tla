-------------------------------- MODULE Search --------------------------------
(***************************************************************************)
(* The search for a design (optimization/search.py): suggest_candidate     *)
(* reads the history of trials and answers with a point to evaluate or     *)
(* with the reason why there is none.  It keeps nothing: whoever asks      *)
(* records the trial, runs the solver and records the outcome, and may add *)
(* trials of another kind, which is what the validation reserve is for.    *)
(*                                                                         *)
(* Points stand for the parameters in normalized coordinates.  The Latin   *)
(* hypercube and the contraction around the incumbent are a nonempty pool  *)
(* of points, the Gaussian process a choice from it.                       *)
(***************************************************************************)
EXTENDS Naturals, Sequences

CONSTANTS
  Points,   \* the points inside of the bounds
  Centre,   \* the middle of them
  Causes,   \* the failure classes
  Budget,   \* evaluation_budget
  Reserve   \* promotion_rule.validation_reserve

ASSUME CentreAssumption == Centre \in Points
\* What _configuration asks of the specification.
ASSUME ConfigurationAssumption ==
  Budget \in 2 .. 512 /\ Reserve \in 1 .. (Budget - 1)

VARIABLES
  trials, \* the history, in the order of created_at
  answer  \* the last answer, as long as nobody has acted on it

searchVars == <<trials, answer>>

Unanswered == [action |-> "none", point |-> Centre]
Trial == [point : Points, status : {"running", "succeeded", "failed", "inconsistent"},
          cause : Causes \cup {"none"}, suggested : BOOLEAN]

SearchInit == trials = <<>> /\ answer = Unanswered

-----------------------------------------------------------------------------
(* suggest_candidate.                                                      *)

Tried(history) == {history[i].point : i \in DOMAIN history}
Some(history, status) == \E i \in DOMAIN history : history[i].status = status

\* Mutant: the slots of the validation reserve are searched as well.
SlotsOfBudget(history) == Budget - Len(history)

\* search_slots_remaining, never below zero.
Slots(history) ==
  IF Len(history) + Reserve < Budget THEN Budget - Reserve - Len(history) ELSE 0

RepeatedFailure(history) ==
  /\ Len(history) >= 3
  /\ \E cause \in Causes : \A i \in Len(history) - 2 .. Len(history) :
       history[i].status = "failed" /\ history[i].cause = cause

\* Points that are not too near to one that was tried, whatever became of it.
Available(history, pool) == pool \ Tried(history)

\* As long as nothing has succeeded the centre is in the pool; it comes first if
\* nothing was tried.
Candidates(history, pool) ==
  LET offered == IF Some(history, "succeeded") THEN pool ELSE pool \cup {Centre}
  IN IF history = <<>> THEN {Centre} ELSE Available(history, offered)

\* The order in which the reasons not to suggest anything are looked for.
Suggestions(history, pool) ==
  IF Some(history, "inconsistent") \/ Len(history) > Budget
    THEN {[action |-> "refuse", point |-> Centre]}
  ELSE IF Some(history, "running")
    THEN {[action |-> "wait_for_pending", point |-> Centre]}
  ELSE IF Slots(history) = 0
    THEN {[action |-> "stop_search_preserve_validation", point |-> Centre]}
  ELSE IF RepeatedFailure(history)
    THEN {[action |-> "diagnose_repeated_failure", point |-> Centre]}
  ELSE IF Candidates(history, pool) = {}
    THEN {[action |-> "candidate_pool_exhausted", point |-> Centre]}
  ELSE {[action |-> "evaluate_candidate", point |-> p] : p \in Candidates(history, pool)}

-----------------------------------------------------------------------------
(* The caller.                                                             *)

Ask ==
  /\ answer = Unanswered
  /\ \E pool \in SUBSET Points \ {{}} : answer' \in Suggestions(trials, pool)
  /\ UNCHANGED trials

\* The suggested trial is recorded before it runs; any other answer is noted.
Act ==
  /\ answer # Unanswered
  /\ trials' = IF answer.action = "evaluate_candidate"
                 THEN Append(trials, [point |-> answer.point, status |-> "running",
                                      cause |-> "none", suggested |-> TRUE])
                 ELSE trials
  /\ answer' = Unanswered

\* A trial that nobody has suggested, for a validation, of any point.  The search
\* is made for one solver worker.
Validation ==
  /\ Len(trials) < Budget /\ answer = Unanswered /\ ~Some(trials, "running")
  /\ \E p \in Points : trials' = Append(trials,
       [point |-> p, status |-> "running", cause |-> "none", suggested |-> FALSE])
  /\ UNCHANGED answer

\* The solver ends; "inconsistent" is a record that does not fit the contract, as
\* a failure without its class.
Finished ==
  /\ \E i \in DOMAIN trials :
       /\ trials[i].status = "running"
       /\ \/ \E s \in {"succeeded", "inconsistent"} : trials' = [trials EXCEPT ![i].status = s]
          \/ \E c \in Causes :
               trials' = [trials EXCEPT ![i].status = "failed", ![i].cause = c]
  /\ UNCHANGED answer

SearchNext == Ask \/ Act \/ Validation \/ Finished

SearchSpec == SearchInit /\ [][SearchNext]_searchVars

-----------------------------------------------------------------------------
(* Properties.                                                             *)

\* A search that does what it is told is frugal, though each answer is computed
\* from the history alone: no suggestion repeats a point that was tried before,
\* successful or not; suggestions leave the validation reserve unspent; a search
\* never has two solvers under way on suggestions, and no suggestion follows three
\* failures of one class in a row.
SearchIsFrugal ==
  \A i \in DOMAIN trials : trials[i].suggested =>
    /\ i <= Budget - Reserve
    /\ \A j \in 1 .. (i - 1) :
         trials[j].point # trials[i].point
         /\ ~(trials[j].suggested /\ trials[j].status = "running")
    /\ ~RepeatedFailure(SubSeq(trials, 1, i - 1))
=============================================================================
