---------------------------- MODULE BackendAdoption ----------------------------
(***************************************************************************)
(* The adoption gate of one backend, adoption.py: a record of its required *)
(* checks and the decision over them in verification/adoption/TARGET.json, *)
(* and the calls of `photonic gate adoption` that create, read, update and *)
(* evaluate it.  Every target has a file of its own; one is modelled.      *)
(*                                                                         *)
(* Calls come from any process.  A call reads and writes the record once;  *)
(* it looks at every evidence file on its own, and each look is a step, as *)
(* files may vanish or come back at any time; what is left to look at is a *)
(* set, so the order of the list is any order.  A call that raises, or     *)
(* ends with its process, between two steps leaves no trace (Stop); so     *)
(* does a dry run, which stops before its write.                           *)
(***************************************************************************)
EXTENDS Naturals, FiniteSets

CONSTANTS
  Checks,      \* the required checks of the backend
  Files,       \* the paths of evidence files
  Writers,     \* the processes that make calls
  MaxEdits,    \* bound: evidence files that come or go
  MaxCalls     \* bound: calls

ASSUME AdoptionBounds == MaxEdits \in Nat /\ MaxCalls \in Nat
ASSUME ChecksAssumption == Checks # {}

VARIABLES
  present,     \* the evidence files that are there and readable
  record,      \* TARGET.json
  calls,       \* calls[w]: the call under way in process w
  since,       \* history: since[w]: the files that were there since it began
  ever,        \* history: the files that were ever there
  overlapped,  \* history: two calls have been under way at once
  edits,       \* bound counter
  begun        \* bound counter

vars == <<present, record, calls, since, ever, overlapped, edits, begun>>

-----------------------------------------------------------------------------
(* The record.                                                             *)

Outcomes == {"pass", "fail", "blocked"}
Decided == {"pass", "fail"}

Result == [status : Outcomes, evidence : SUBSET Files]
Gate == [status : Outcomes, checks : [Checks -> Result],
         revision : Nat \ {0}]

NoRecord == [status |-> "absent"]

NewGate ==
  [status |-> "blocked", revision |-> 1,
   checks |-> [k \in Checks |-> [status |-> "blocked", evidence |-> {}]]]

\* evaluate_backend_adoption_gate
Decide(checks) ==
  IF \A k \in Checks : checks[k].status = "pass" THEN "pass"
  ELSE IF \E k \in Checks : checks[k].status = "fail" THEN "fail"
  ELSE "blocked"

\* What the validator of a gate record asks of a decision and its checks.
Fits(gate) ==
  /\ gate.status = "pass" =>
       \A k \in Checks : gate.checks[k].status = "pass" /\ gate.checks[k].evidence # {}
  /\ gate.status = "fail" => \E k \in Checks : gate.checks[k].status = "fail"

\* Mutant: only the evidence of passed checks is looked at.
PassedEvidence(gate) ==
  UNION {gate.checks[k].evidence : k \in {j \in Checks : gate.checks[j].status = "pass"}}

\* The evidence `load` looks at: that of every check that passed or failed.
StoredEvidence(gate) ==
  UNION {gate.checks[k].evidence : k \in {j \in Checks : gate.checks[j].status \in Decided}}

-----------------------------------------------------------------------------
(* The calls.                                                              *)

Ops == {"initialize", "inspect", "record", "evaluate"}

\* `check` and `result` are the arguments of record; `todo` are the files still
\* to be looked at; `gate` is what the call has loaded.
NoCall == [op |-> "none", step |-> "idle", check |-> "none",
           result |-> [status |-> "blocked", evidence |-> {}],
           todo |-> {}, gate |-> NoRecord]

Working(w) == calls[w].step # "idle"

Init ==
  /\ present \in SUBSET Files
  /\ record = NoRecord
  /\ calls = [w \in Writers |-> NoCall]
  /\ since = [w \in Writers |-> {}]
  /\ ever = present
  /\ overlapped = FALSE
  /\ edits = 0 /\ begun = 0

Goes(w, call) ==
  /\ calls' = [calls EXCEPT ![w] = call]
  /\ UNCHANGED <<present, since, ever, overlapped, edits, begun>>

Begin(w, call) ==
  /\ ~ Working(w) /\ begun < MaxCalls
  /\ calls' = [calls EXCEPT ![w] = call]
  /\ since' = [since EXCEPT ![w] = present]
  /\ overlapped' = (overlapped \/ \E v \in Writers : Working(v))
  /\ begun' = begun + 1
  /\ UNCHANGED <<present, record, ever, edits>>

\* A call is refused, or ends with its process.
Stop(w) ==
  /\ Working(w)
  /\ Goes(w, NoCall)
  /\ UNCHANGED record

\* initialize refuses a target whose file is there ...
BeginInitialize(w) ==
  Begin(w, [NoCall EXCEPT !.op = "initialize", !.step = "exists"])

Exists(w) ==
  /\ calls[w].step = "exists"
  /\ Goes(w, IF record = NoRecord THEN [calls[w] EXCEPT !.step = "create"] ELSE NoCall)
  /\ UNCHANGED record

\* Mutant: the new record replaces what is there.
CreateReplacing(w) ==
  /\ calls[w].step = "create"
  /\ record' = NewGate
  /\ Goes(w, NoCall)

\* ... and creates it with a link that fails if it is there by then.
Create(w) ==
  /\ calls[w].step = "create"
  /\ record' = IF record = NoRecord THEN NewGate ELSE record
  /\ Goes(w, NoCall)

BeginInspect(w) ==
  Begin(w, [NoCall EXCEPT !.op = "inspect", !.step = "load"])

BeginEvaluate(w) ==
  Begin(w, [NoCall EXCEPT !.op = "evaluate", !.step = "load"])

\* record wants evidence for a decided check, and looks at it first.
BeginRecord(w, check, result) ==
  /\ result.status \in Decided => result.evidence # {}
  /\ Begin(w, [NoCall EXCEPT !.op = "record", !.check = check, !.result = result,
                             !.todo = result.evidence,
                             !.step = IF result.evidence = {} THEN "load" ELSE "own"])

\* Mutant: the evidence of a blocked check is taken over unseen.
OwnDecidedEvidence(w, file) ==
  LET rest == calls[w].todo \ {file}
      next == [calls[w] EXCEPT !.todo = rest, !.step = IF rest = {} THEN "load" ELSE "own"]
  IN  /\ calls[w].step = "own" /\ file \in calls[w].todo
      /\ Goes(w, IF file \in present \/ calls[w].result.status = "blocked"
                   THEN next ELSE NoCall)
      /\ UNCHANGED record

OwnEvidence(w, file) ==
  LET rest == calls[w].todo \ {file}
      next == [calls[w] EXCEPT !.todo = rest, !.step = IF rest = {} THEN "load" ELSE "own"]
  IN  /\ calls[w].step = "own" /\ file \in calls[w].todo
      /\ Goes(w, IF file \in present THEN next ELSE NoCall)
      /\ UNCHANGED record

\* load: the record, and then the evidence of its decided checks.
Load(w) ==
  LET todo == StoredEvidence(record)
  IN  /\ calls[w].step = "load"
      /\ Goes(w, IF record = NoRecord THEN NoCall
                 ELSE [calls[w] EXCEPT !.gate = record, !.todo = todo,
                                       !.step = IF todo = {} THEN "loaded" ELSE "stored"])
      /\ UNCHANGED record

LookAtStored(w, file) ==
  LET rest == calls[w].todo \ {file}
      next == [calls[w] EXCEPT !.todo = rest,
                               !.step = IF rest = {} THEN "loaded" ELSE "stored"]
  IN  /\ calls[w].step = "stored" /\ file \in calls[w].todo
      /\ Goes(w, IF file \in present THEN next ELSE NoCall)
      /\ UNCHANGED record

\* Mutant: the decision stays until the next evaluation.
RecordedKeepingDecision(gate, check, result) ==
  [gate EXCEPT !.revision = @ + 1, !.checks[check] = result]

\* record_backend_adoption_check
Recorded(gate, check, result) ==
  [gate EXCEPT !.revision = @ + 1, !.checks[check] = result, !.status = "blocked"]

Evaluated(gate) ==
  [gate EXCEPT !.revision = @ + 1, !.status = Decide(gate.checks)]

\* The updated record replaces the file, unless its validator refuses it.
Write(w) ==
  LET call == calls[w]
      updated == IF call.op = "record" THEN Recorded(call.gate, call.check, call.result)
                 ELSE Evaluated(call.gate)
  IN  /\ call.step = "loaded" /\ call.op \in {"record", "evaluate"}
      /\ record' = IF Fits(updated) THEN updated ELSE record
      /\ Goes(w, NoCall)

\* inspect returns what it has loaded.
Answer(w) ==
  /\ calls[w].step = "loaded" /\ calls[w].op = "inspect"
  /\ Goes(w, NoCall)
  /\ UNCHANGED record

\* An evidence file comes or goes.
Edit(file) ==
  /\ edits < MaxEdits
  /\ present' = IF file \in present THEN present \ {file} ELSE present \cup {file}
  /\ since' = [w \in Writers |-> IF Working(w) THEN since[w] \cup present' ELSE since[w]]
  /\ ever' = ever \cup present'
  /\ edits' = edits + 1
  /\ UNCHANGED <<record, calls, overlapped, begun>>

CallStep(w) ==
  \/ BeginInitialize(w)
  \/ BeginInspect(w)
  \/ BeginEvaluate(w)
  \/ \E check \in Checks, result \in Result : BeginRecord(w, check, result)
  \/ Exists(w)
  \/ Create(w)
  \/ \E file \in calls[w].todo : OwnEvidence(w, file)
  \/ Load(w)
  \/ \E file \in calls[w].todo : LookAtStored(w, file)
  \/ Write(w)
  \/ Answer(w)
  \/ Stop(w)

Next ==
  \/ \E w \in Writers : CallStep(w)
  \/ \E file \in Files : Edit(file)

Spec == Init /\ [][Next]_vars

-----------------------------------------------------------------------------
(* Properties.                                                             *)

CallState ==
  [op : Ops \cup {"none"},
   step : {"idle", "exists", "create", "own", "load", "stored", "loaded"},
   check : Checks \cup {"none"}, result : Result, todo : SUBSET Files,
   gate : Gate \cup {NoRecord}]

\* The type invariant, with what the validator of the record asks for.
TypeOK ==
  /\ present \subseteq Files
  /\ record = NoRecord \/ (record \in Gate /\ Fits(record))
  /\ calls \in [Writers -> CallState]
  /\ \A w \in Writers :
       /\ calls[w].op = "record" => calls[w].check \in Checks
       /\ calls[w].step \in {"stored", "loaded"} => calls[w].gate \in Gate
       /\ calls[w].step = "loaded" => calls[w].todo = {}
  /\ since \in [Writers -> SUBSET Files]
  /\ ever \subseteq Files
  /\ overlapped \in BOOLEAN
  /\ edits \in 0 .. MaxEdits /\ begun \in 0 .. MaxCalls

TheGate == INSTANCE AdoptionGate WITH
  decision <- record.status,
  outcome <- IF record = NoRecord THEN [k \in Checks |-> "blocked"]
             ELSE [k \in Checks |-> record.checks[k].status]

\* As long as callers have taken turns ("serialize callers until a tested lock
\* or generation/CAS mechanism is added"), the file is an AdoptionGate: calls
\* that were refused, stopped, or found a file missing included.
TurnsImplementGate ==
  TheGate!Init /\ [][~ overlapped => [TheGate!Next]_(TheGate!vars)]_vars

\* Whoever overlaps with whom: an update that is about to be written, and an
\* inspection that is about to answer, have each seen every file their decided
\* checks rest on, at some time since they began.
LoadedEvidenceWasSeen ==
  \A w \in Writers : calls[w].step = "loaded" =>
    /\ \A k \in Checks : calls[w].gate.checks[k].status \in Decided =>
         calls[w].gate.checks[k].evidence \subseteq since[w]
    /\ calls[w].op = "record" => calls[w].result.evidence \subseteq since[w]

\* All evidence in the record was there once, that of blocked checks, which no
\* call looks at again, included.
RecordedEvidenceExisted ==
  record # NoRecord => \A k \in Checks : record.checks[k].evidence \subseteq ever

\* "Initialization must never reset existing evidence": a record that was
\* updated is never back in its first revision, however many initializations
\* race with each other and with the update.
NeverReset ==
  [][record \notin {NoRecord, NewGate} => record' \notin {NoRecord, NewGate}]_vars
=============================================================================
