------------------------ MODULE BackendAdoptionProofs ------------------------
(***************************************************************************)
(* What BackendAdoption guarantees for every set of checks, evidence files *)
(* and callers, and for every bound.                                       *)
(***************************************************************************)
EXTENDS BackendAdoption, TLAPS

-----------------------------------------------------------------------------
(* The record and its updates.                                             *)

LEMMA NewGateType ==
  /\ NewGate \in Gate /\ Fits(NewGate)
  /\ \A k \in Checks : NewGate.checks[k].evidence = {}
  /\ StoredEvidence(NewGate) = {}
<1>1. [status |-> "blocked", evidence |-> {}] \in Result
  BY DEF Result, Outcomes
<1>2. NewGate \in Gate
  BY <1>1 DEF NewGate, Gate, Outcomes
<1>3. Fits(NewGate)
  BY DEF NewGate, Fits
<1>4. \A k \in Checks : NewGate.checks[k].evidence = {} /\ NewGate.checks[k].status = "blocked"
  BY DEF NewGate
<1>5. StoredEvidence(NewGate) = {}
  BY <1>4 DEF StoredEvidence, Decided
<1>6. QED
  BY <1>2, <1>3, <1>4, <1>5

LEMMA NoRecordIsNoGate == NoRecord \notin Gate
BY DEF NoRecord, Gate, Outcomes

LEMMA RecordedType ==
  ASSUME NEW gate \in Gate, NEW check \in Checks, NEW result \in Result
  PROVE  LET updated == Recorded(gate, check, result)
         IN  /\ updated \in Gate /\ Fits(updated)
             /\ updated.status = "blocked"
             /\ updated.checks = [gate.checks EXCEPT ![check] = result]
             /\ updated.revision = gate.revision + 1
<1> DEFINE updated == Recorded(gate, check, result)
<1>1. gate.checks \in [Checks -> Result] /\ gate.revision \in Nat \ {0}
  BY DEF Gate
<1>2. [gate.checks EXCEPT ![check] = result] \in [Checks -> Result]
  BY <1>1
<1>3. gate.revision + 1 \in Nat \ {0}
  BY <1>1
<1>4. updated = [gate EXCEPT !.revision = gate.revision + 1,
                             !.checks = [gate.checks EXCEPT ![check] = result],
                             !.status = "blocked"]
  BY DEF Recorded
<1>5. /\ updated \in Gate /\ updated.status = "blocked"
      /\ updated.checks = [gate.checks EXCEPT ![check] = result]
      /\ updated.revision = gate.revision + 1
  <2> HIDE DEF updated
  <2> QED  BY <1>2, <1>4, <1>3 DEF Gate, Outcomes
<1>6. Fits(updated)
  BY <1>5 DEF Fits
<1>7. QED
  BY <1>5, <1>6

LEMMA EvaluatedType ==
  ASSUME NEW gate \in Gate
  PROVE  LET updated == Evaluated(gate)
         IN  /\ updated \in Gate
             /\ updated.status = Decide(gate.checks)
             /\ updated.checks = gate.checks
             /\ updated.revision = gate.revision + 1
<1> DEFINE updated == Evaluated(gate)
<1>1. gate.checks \in [Checks -> Result] /\ gate.revision \in Nat \ {0}
  BY DEF Gate
<1>2. Decide(gate.checks) \in Outcomes
  BY DEF Decide, Outcomes
<1>3. gate.revision + 1 \in Nat \ {0}
  BY <1>1
<1>4. updated = [gate EXCEPT !.revision = gate.revision + 1,
                             !.status = Decide(gate.checks)]
  BY DEF Evaluated
<1>5. /\ updated \in Gate /\ updated.status = Decide(gate.checks)
      /\ updated.checks = gate.checks
      /\ updated.revision = gate.revision + 1
  <2> HIDE DEF updated
  <2> QED  BY <1>2, <1>4, <1>3 DEF Gate
<1>6. QED
  BY <1>5

\* The stored evidence is that of each decided check.
LEMMA StoredEvidenceOf ==
  ASSUME NEW gate \in Gate
  PROVE  /\ StoredEvidence(gate) \in SUBSET Files
         /\ \A k \in Checks : gate.checks[k].status \in Decided =>
              gate.checks[k].evidence \subseteq StoredEvidence(gate)
<1>1. gate.checks \in [Checks -> Result]
  BY DEF Gate
<1>2. \A k \in Checks : gate.checks[k].evidence \in SUBSET Files
  BY <1>1 DEF Result
<1>3. QED
  BY <1>2 DEF StoredEvidence

-----------------------------------------------------------------------------
(* The calls.                                                              *)

LEMMA NoCallType == NoCall \in CallState
<1>1. [status |-> "blocked", evidence |-> {}] \in Result
  BY DEF Result, Outcomes
<1>2. QED
  BY <1>1 DEF NoCall, CallState

LEMMA PlainBegin ==
  ASSUME NEW op \in Ops \ {"record"}, NEW step \in {"exists", "load"}
  PROVE  LET call == [NoCall EXCEPT !.op = op, !.step = step]
         IN  /\ call \in CallState
             /\ call.op = op /\ call.step = step
<1>1. [status |-> "blocked", evidence |-> {}] \in Result
  BY DEF Result, Outcomes
<1>2. QED
  BY <1>1 DEF NoCall, CallState, Ops

-----------------------------------------------------------------------------
(* The invariant: types, and what each call knows of the evidence.         *)

EvidenceIn(gate, files) == \A k \in Checks : gate.checks[k].evidence \subseteq files

\* What a call has seen by the time it is at its step.
Knows(w) ==
  LET call == calls[w]
  IN  /\ Working(w) => present \subseteq since[w]
      /\ call.step = "own" =>
           call.op = "record" /\ call.result.evidence \ call.todo \subseteq since[w]
      /\ call.step \in {"load", "stored", "loaded"} /\ call.op = "record" =>
           call.result.evidence \subseteq since[w]
      /\ call.step = "stored" => StoredEvidence(call.gate) \ call.todo \subseteq since[w]
      /\ call.step = "loaded" => StoredEvidence(call.gate) \subseteq since[w]
      /\ call.step \in {"stored", "loaded"} => EvidenceIn(call.gate, ever)
      /\ since[w] \subseteq ever

EvidenceInv ==
  /\ present \subseteq ever
  /\ record # NoRecord => EvidenceIn(record, ever)
  /\ \A w \in Writers : Knows(w)

Invariant == TypeOK /\ EvidenceInv

LEMMA InvariantInitially == Init => Invariant
<1> SUFFICES ASSUME Init PROVE Invariant
  OBVIOUS
<1>1. \A w \in Writers : calls[w] = NoCall /\ since[w] = {}
  BY DEF Init
<1>2. NoCall.op = "none" /\ NoCall.step = "idle"
  BY DEF NoCall
<1>3. TypeOK
  <2>1. calls \in [Writers -> CallState] /\ since \in [Writers -> SUBSET Files]
    BY NoCallType DEF Init
  <2>2. 0 \in 0 .. MaxEdits /\ 0 \in 0 .. MaxCalls
    BY AdoptionBounds
  <2>3. QED
    BY <1>1, <1>2, <2>1, <2>2 DEF Init, TypeOK
<1>4. EvidenceInv
  BY <1>1, <1>2 DEF Init, EvidenceInv, Knows, Working
<1>5. QED
  BY <1>3, <1>4 DEF Invariant

\* A step of one call that leaves files and history alone.
LEMMA StepOfOne ==
  ASSUME Invariant, NEW w \in Writers, NEW call \in CallState, Goes(w, call),
         call.op = "record" => call.check \in Checks,
         call.step \in {"stored", "loaded"} => call.gate \in Gate,
         call.step = "loaded" => call.todo = {},
         record' = NoRecord \/ (record' \in Gate /\ Fits(record')),
         record' # NoRecord => EvidenceIn(record', ever),
         call.step # "idle" => Working(w),
         call.step = "own" =>
           call.op = "record" /\ call.result.evidence \ call.todo \subseteq since[w],
         call.step \in {"load", "stored", "loaded"} /\ call.op = "record" =>
           call.result.evidence \subseteq since[w],
         call.step = "stored" => StoredEvidence(call.gate) \ call.todo \subseteq since[w],
         call.step = "loaded" => StoredEvidence(call.gate) \subseteq since[w],
         call.step \in {"stored", "loaded"} => EvidenceIn(call.gate, ever)
  PROVE  Invariant'
<1>1. /\ calls' = [calls EXCEPT ![w] = call]
      /\ UNCHANGED <<present, since, ever, overlapped, edits, begun>>
  BY DEF Goes
<1>2. calls \in [Writers -> CallState]
  BY DEF Invariant, TypeOK
<1>3. calls'[w] = call /\ \A v \in Writers \ {w} : calls'[v] = calls[v]
  BY <1>1, <1>2
<1>4. calls' \in [Writers -> CallState]
  BY <1>1, <1>2
<1>5. TypeOK'
  BY <1>1, <1>3, <1>4 DEF Invariant, TypeOK
<1>6. Knows(w)'
  BY <1>1, <1>3 DEF Invariant, EvidenceInv, Knows, Working, EvidenceIn
<1>7. \A v \in Writers \ {w} : Knows(v)'
  BY <1>1, <1>3 DEF Invariant, EvidenceInv, Knows, Working, EvidenceIn
<1>8. EvidenceInv'
  BY <1>1, <1>6, <1>7 DEF Invariant, EvidenceInv, EvidenceIn
<1>9. QED
  BY <1>5, <1>8 DEF Invariant

LEMMA StepOfBegin ==
  ASSUME Invariant, NEW w \in Writers, NEW call \in CallState, Begin(w, call),
         call.op = "record" => call.check \in Checks,
         call.step \notin {"stored", "loaded"},
         call.step = "own" => call.op = "record" /\ call.todo = call.result.evidence,
         call.step = "load" /\ call.op = "record" => call.result.evidence = {}
  PROVE  Invariant'
<1>1. /\ calls' = [calls EXCEPT ![w] = call]
      /\ since' = [since EXCEPT ![w] = present]
      /\ overlapped' = (overlapped \/ \E v \in Writers : Working(v))
      /\ begun' = begun + 1 /\ begun < MaxCalls
      /\ UNCHANGED <<present, record, ever, edits>>
  BY DEF Begin
<1>2. calls \in [Writers -> CallState] /\ since \in [Writers -> SUBSET Files]
  BY DEF Invariant, TypeOK
<1>3. /\ calls'[w] = call /\ \A v \in Writers \ {w} : calls'[v] = calls[v]
      /\ since'[w] = present /\ \A v \in Writers \ {w} : since'[v] = since[v]
  BY <1>1, <1>2
<1>4. present \subseteq Files
  BY DEF Invariant, TypeOK
<1>5. calls' \in [Writers -> CallState] /\ since' \in [Writers -> SUBSET Files]
  BY <1>1, <1>2, <1>4
<1>6. begun' \in 0 .. MaxCalls
  BY <1>1, AdoptionBounds DEF Invariant, TypeOK
<1>7. overlapped \in BOOLEAN
  BY DEF Invariant, TypeOK
<1>8. overlapped' \in BOOLEAN
  BY <1>1, <1>7, Zenon
<1>9. \A v \in Writers : /\ calls'[v].op = "record" => calls'[v].check \in Checks
                         /\ calls'[v].step \in {"stored", "loaded"} => calls'[v].gate \in Gate
                         /\ calls'[v].step = "loaded" => calls'[v].todo = {}
  BY <1>3 DEF Invariant, TypeOK
<1>10. TypeOK'
  BY <1>1, <1>5, <1>6, <1>8, <1>9 DEF Invariant, TypeOK
<1>11. Knows(w)'
  BY <1>1, <1>3 DEF Invariant, EvidenceInv, Knows, Working, EvidenceIn
<1>12. \A v \in Writers \ {w} : Knows(v)'
  BY <1>1, <1>3 DEF Invariant, EvidenceInv, Knows, Working, EvidenceIn
<1>13. EvidenceInv'
  BY <1>1, <1>11, <1>12 DEF Invariant, EvidenceInv, EvidenceIn
<1>14. QED
  BY <1>10, <1>13 DEF Invariant

\* A file that comes is part of what was seen; a file that goes is not forgotten.
LEMMA StepOfEdit ==
  ASSUME Invariant, NEW file \in Files, Edit(file)
  PROVE  Invariant'
<1>1. /\ present' = IF file \in present THEN present \ {file} ELSE present \cup {file}
      /\ since' = [w \in Writers |-> IF Working(w) THEN since[w] \cup present' ELSE since[w]]
      /\ ever' = ever \cup present'
      /\ edits < MaxEdits /\ edits' = edits + 1
      /\ UNCHANGED <<record, calls, overlapped, begun>>
  BY DEF Edit
<1>2. present' \subseteq Files
  BY <1>1 DEF Invariant, TypeOK
<1>3. since' \in [Writers -> SUBSET Files]
  BY <1>1, <1>2 DEF Invariant, TypeOK
<1>4. edits' \in 0 .. MaxEdits
  BY <1>1, AdoptionBounds DEF Invariant, TypeOK
<1>5. TypeOK'
  BY <1>1, <1>2, <1>3, <1>4 DEF Invariant, TypeOK
<1>6. ASSUME NEW w \in Writers
      PROVE  since[w] \subseteq since'[w] /\ since'[w] \subseteq since[w] \cup present'
             /\ (Working(w) => present' \subseteq since'[w])
  BY <1>1
<1>7. ASSUME NEW gate, EvidenceIn(gate, ever)
      PROVE  EvidenceIn(gate, ever')
  BY <1>1, <1>7 DEF EvidenceIn
<1>8. ASSUME NEW w \in Writers
      PROVE  Knows(w)'
  <2>1. Knows(w)
    BY DEF Invariant, EvidenceInv
  <2>2. EvidenceIn(calls[w].gate, ever) => EvidenceIn(calls[w].gate, ever')
    BY <1>7
  <2>3. EvidenceIn(calls[w].gate, ever)' <=> EvidenceIn(calls[w].gate, ever')
    BY <1>1 DEF EvidenceIn
  <2>4. QED
    BY <1>1, <1>6, <2>1, <2>2, <2>3 DEF Knows, Working
<1>9. record # NoRecord => EvidenceIn(record, ever)'
  BY <1>1, <1>7 DEF Invariant, EvidenceInv, EvidenceIn
<1>10. EvidenceInv'
  BY <1>1, <1>8, <1>9 DEF Invariant, EvidenceInv
<1>11. QED
  BY <1>5, <1>10 DEF Invariant

\* What is known of a call before its step.
LEMMA CallFacts ==
  ASSUME Invariant, NEW w \in Writers
  PROVE  /\ calls[w] \in CallState /\ Knows(w)
         /\ calls[w].todo \in SUBSET Files
         /\ calls[w].op = "record" => calls[w].check \in Checks
         /\ calls[w].step \in {"stored", "loaded"} => calls[w].gate \in Gate
         /\ record = NoRecord \/ (record \in Gate /\ Fits(record))
         /\ record # NoRecord => EvidenceIn(record, ever)
         /\ since[w] \subseteq ever
BY DEF Invariant, TypeOK, EvidenceInv, CallState, Knows

\* A call that ends leaves the record as it is.
LEMMA StepOfStop ==
  ASSUME Invariant, NEW w \in Writers, Goes(w, NoCall), UNCHANGED record
  PROVE  Invariant'
<1>1. record = NoRecord \/ (record \in Gate /\ Fits(record))
  BY DEF Invariant, TypeOK
<1>2. record # NoRecord => EvidenceIn(record, ever)
  BY DEF Invariant, EvidenceInv
<1>3. NoCall.step = "idle" /\ NoCall.op = "none"
  BY DEF NoCall
<1>4. QED
  BY <1>1, <1>2, <1>3, NoCallType, StepOfOne

LEMMA StepOfExists ==
  ASSUME Invariant, NEW w \in Writers, Exists(w)
  PROVE  Invariant'
<1> DEFINE next == [calls[w] EXCEPT !.step = "create"]
<1>1. CASE record # NoRecord
  BY <1>1, StepOfStop DEF Exists
<1>2. CASE record = NoRecord
  <2>1. next \in CallState /\ next.op = calls[w].op /\ next.check = calls[w].check
        /\ next.step = "create"
    BY CallFacts DEF CallState
  <2>2. Goes(w, next) /\ record' = NoRecord /\ Working(w)
    BY <1>2 DEF Exists, Working
  <2> HIDE DEF next
  <2>3. QED
    BY <2>1, <2>2, CallFacts, StepOfOne
<1>3. QED
  BY <1>1, <1>2

LEMMA StepOfCreate ==
  ASSUME Invariant, NEW w \in Writers, Create(w)
  PROVE  Invariant'
<1>1. NoCall.step = "idle" /\ NoCall.op = "none"
  BY DEF NoCall
<1>2. record' = NoRecord \/ (record' \in Gate /\ Fits(record'))
  BY NewGateType, CallFacts DEF Create
<1>3. EvidenceIn(NewGate, ever)
  BY NewGateType DEF EvidenceIn
<1>4. record' # NoRecord => EvidenceIn(record', ever)
  BY <1>3, CallFacts DEF Create
<1>5. QED
  BY <1>1, <1>2, <1>4, NoCallType, StepOfOne DEF Create

LEMMA StepOfOwnEvidence ==
  ASSUME Invariant, NEW w \in Writers, NEW file \in calls[w].todo, OwnEvidence(w, file)
  PROVE  Invariant'
<1> DEFINE rest == calls[w].todo \ {file}
           step == IF rest = {} THEN "load" ELSE "own"
           next == [calls[w] EXCEPT !.todo = rest, !.step = step]
<1>1. calls[w].step = "own" /\ UNCHANGED record
  BY DEF OwnEvidence
<1>2. CASE file \notin present
  BY <1>2, StepOfStop DEF OwnEvidence
<1>3. CASE file \in present
  <2>1. Goes(w, next)
    BY <1>3 DEF OwnEvidence
  <2>2. rest \in SUBSET Files /\ step \in {"own", "load"}
    BY CallFacts
  <2>3. /\ next \in CallState
        /\ next.op = calls[w].op /\ next.check = calls[w].check
        /\ next.result = calls[w].result /\ next.gate = calls[w].gate
        /\ next.todo = rest /\ next.step = step
    <3> HIDE DEF rest, step
    <3> QED  BY <2>2, CallFacts DEF CallState
  <2>4. Working(w) /\ file \in since[w]
    BY <1>1, <1>3, CallFacts DEF Knows, Working
  <2>5. /\ calls[w].op = "record"
        /\ calls[w].result.evidence \ calls[w].todo \subseteq since[w]
    BY <1>1, CallFacts DEF Knows
  <2>6. calls[w].result.evidence \ rest \subseteq since[w]
    BY <2>4, <2>5
  <2>7. step = "load" => rest = {}
    OBVIOUS
  <2>8. record' = NoRecord \/ (record' \in Gate /\ Fits(record'))
    BY <1>1, CallFacts
  <2>9. record' # NoRecord => EvidenceIn(record', ever)
    BY <1>1, CallFacts
  <2>10. step = "load" => calls[w].result.evidence \subseteq since[w]
    BY <2>6, <2>7
  <2> HIDE DEF next, step, rest
  <2>11. QED
    BY <2>1, <2>2, <2>3, <2>4, <2>5, <2>6, <2>8, <2>9, <2>10, CallFacts, StepOfOne
<1>4. QED
  BY <1>2, <1>3

LEMMA StepOfLoad ==
  ASSUME Invariant, NEW w \in Writers, Load(w)
  PROVE  Invariant'
<1> DEFINE todo == StoredEvidence(record)
           step == IF todo = {} THEN "loaded" ELSE "stored"
           next == [calls[w] EXCEPT !.gate = record, !.todo = todo, !.step = step]
<1>1. calls[w].step = "load" /\ UNCHANGED record
  BY DEF Load
<1>2. CASE record = NoRecord
  BY <1>2, StepOfStop DEF Load
<1>3. CASE record # NoRecord
  <2>1. Goes(w, next)
    BY <1>3 DEF Load
  <2>2. record \in Gate /\ Fits(record) /\ EvidenceIn(record, ever)
    BY <1>3, CallFacts
  <2>3. todo \in SUBSET Files /\ step \in {"stored", "loaded"}
    BY <2>2, StoredEvidenceOf
  <2>4. /\ next \in CallState
        /\ next.op = calls[w].op /\ next.check = calls[w].check
        /\ next.result = calls[w].result /\ next.gate = record
        /\ next.todo = todo /\ next.step = step
    <3> HIDE DEF todo, step
    <3> QED  BY <2>2, <2>3, CallFacts DEF CallState
  <2>5. Working(w)
    BY <1>1 DEF Working
  <2>6. calls[w].op = "record" => calls[w].result.evidence \subseteq since[w]
    BY <1>1, CallFacts DEF Knows
  <2>7. step = "loaded" => todo = {}
    OBVIOUS
  <2>8. step = "stored" => StoredEvidence(record) \ todo \subseteq since[w]
    OBVIOUS
  <2>9. step = "loaded" => StoredEvidence(record) \subseteq since[w]
    BY <2>7
  <2> HIDE DEF next, step, todo
  <2>10. QED
    BY <1>1, <2>1, <2>2, <2>3, <2>4, <2>5, <2>6, <2>7, <2>8, <2>9, CallFacts, StepOfOne
<1>4. QED
  BY <1>2, <1>3

LEMMA StepOfLookAtStored ==
  ASSUME Invariant, NEW w \in Writers, NEW file \in calls[w].todo, LookAtStored(w, file)
  PROVE  Invariant'
<1> DEFINE rest == calls[w].todo \ {file}
           step == IF rest = {} THEN "loaded" ELSE "stored"
           next == [calls[w] EXCEPT !.todo = rest, !.step = step]
<1>1. calls[w].step = "stored" /\ UNCHANGED record
  BY DEF LookAtStored
<1>2. CASE file \notin present
  BY <1>2, StepOfStop DEF LookAtStored
<1>3. CASE file \in present
  <2>1. Goes(w, next)
    BY <1>3 DEF LookAtStored
  <2>2. rest \in SUBSET Files /\ step \in {"stored", "loaded"}
    BY CallFacts
  <2>3. /\ next \in CallState
        /\ next.op = calls[w].op /\ next.check = calls[w].check
        /\ next.result = calls[w].result /\ next.gate = calls[w].gate
        /\ next.todo = rest /\ next.step = step
    <3> HIDE DEF rest, step
    <3> QED  BY <2>2, CallFacts DEF CallState
  <2>4. Working(w) /\ file \in since[w]
    BY <1>1, <1>3, CallFacts DEF Knows, Working
  <2>5. /\ StoredEvidence(calls[w].gate) \ calls[w].todo \subseteq since[w]
        /\ EvidenceIn(calls[w].gate, ever) /\ calls[w].gate \in Gate
        /\ calls[w].op = "record" => calls[w].result.evidence \subseteq since[w]
    BY <1>1, CallFacts DEF Knows
  <2>6. StoredEvidence(calls[w].gate) \ rest \subseteq since[w]
    BY <2>4, <2>5
  <2>7. step = "loaded" => rest = {}
    OBVIOUS
  <2>8. step = "loaded" => StoredEvidence(calls[w].gate) \subseteq since[w]
    BY <2>6, <2>7
  <2> HIDE DEF next, step, rest
  <2>9. QED
    BY <1>1, <2>1, <2>2, <2>3, <2>4, <2>5, <2>6, <2>7, <2>8, CallFacts, StepOfOne
<1>4. QED
  BY <1>2, <1>3

\* The record a call is about to write.
Updated(w) ==
  IF calls[w].op = "record" THEN Recorded(calls[w].gate, calls[w].check, calls[w].result)
  ELSE Evaluated(calls[w].gate)

LEMMA WriteIs ==
  ASSUME NEW w \in Writers, Write(w)
  PROVE  /\ calls[w].step = "loaded" /\ calls[w].op \in {"record", "evaluate"}
         /\ record' = IF Fits(Updated(w)) THEN Updated(w) ELSE record
         /\ Goes(w, NoCall)
BY DEF Write, Updated

LEMMA UpdatedType ==
  ASSUME Invariant, NEW w \in Writers, calls[w].step = "loaded"
  PROVE  /\ calls[w].gate \in Gate
         /\ Updated(w) \in Gate /\ Updated(w).revision = calls[w].gate.revision + 1
         /\ EvidenceIn(Updated(w), ever)
<1>1. calls[w] \in CallState /\ calls[w].gate \in Gate /\ EvidenceIn(calls[w].gate, ever)
  BY CallFacts DEF Knows
<1>2. calls[w].result \in Result
  BY <1>1 DEF CallState
<1>3. calls[w].gate.checks \in [Checks -> Result]
  BY <1>1 DEF Gate
<1>4. CASE calls[w].op = "record"
  <2>1. calls[w].check \in Checks /\ calls[w].result.evidence \subseteq ever
    BY <1>4, CallFacts DEF Knows
  <2>2. /\ Updated(w) \in Gate /\ Updated(w).revision = calls[w].gate.revision + 1
        /\ Updated(w).checks = [calls[w].gate.checks EXCEPT ![calls[w].check] = calls[w].result]
    BY <1>1, <1>2, <1>4, <2>1, RecordedType DEF Updated
  <2>3. QED
    BY <1>1, <1>3, <2>1, <2>2 DEF EvidenceIn
<1>5. CASE calls[w].op # "record"
  BY <1>1, <1>5, EvaluatedType DEF Updated, EvidenceIn
<1>6. QED
  BY <1>1, <1>4, <1>5

LEMMA StepOfWrite ==
  ASSUME Invariant, NEW w \in Writers, Write(w)
  PROVE  Invariant'
<1>1. NoCall.step = "idle" /\ NoCall.op = "none"
  BY DEF NoCall
<1>2. record' = NoRecord \/ (record' \in Gate /\ Fits(record'))
  BY WriteIs, UpdatedType, CallFacts
<1>3. record' # NoRecord => EvidenceIn(record', ever)
  BY WriteIs, UpdatedType, CallFacts
<1>4. QED
  BY <1>1, <1>2, <1>3, WriteIs, NoCallType, StepOfOne

LEMMA StepOfBeginRecord ==
  ASSUME Invariant, NEW w \in Writers, NEW check \in Checks, NEW result \in Result,
         BeginRecord(w, check, result)
  PROVE  Invariant'
<1> DEFINE step == IF result.evidence = {} THEN "load" ELSE "own"
           call == [NoCall EXCEPT !.op = "record", !.check = check, !.result = result,
                                  !.todo = result.evidence, !.step = step]
<1>1. Begin(w, call)
  BY DEF BeginRecord
<1>2. step \in {"load", "own"} /\ (step = "load" => result.evidence = {})
  OBVIOUS
<1>3. /\ call \in CallState
      /\ call.op = "record" /\ call.check = check /\ call.result = result
      /\ call.todo = result.evidence /\ call.step = step
  <2>1. result.evidence \in SUBSET Files
    BY DEF Result
  <2> HIDE DEF step
  <2> QED  BY <1>2, <2>1, NoCallType DEF NoCall, CallState, Ops
<1> HIDE DEF call, step
<1>4. QED
  BY <1>1, <1>2, <1>3, StepOfBegin

LEMMA StepOfPlainBegin ==
  ASSUME Invariant, NEW w \in Writers,
         BeginInitialize(w) \/ BeginInspect(w) \/ BeginEvaluate(w)
  PROVE  Invariant'
<1>1. PICK op \in Ops \ {"record"}, step \in {"exists", "load"} :
        Begin(w, [NoCall EXCEPT !.op = op, !.step = step])
  BY DEF BeginInitialize, BeginInspect, BeginEvaluate, Ops
<1> DEFINE call == [NoCall EXCEPT !.op = op, !.step = step]
<1>2. call \in CallState /\ call.op = op /\ call.step = step
  BY PlainBegin
<1> HIDE DEF call
<1>3. Begin(w, call)
  BY <1>1 DEF call
<1>4. QED
  BY <1>2, <1>3, StepOfBegin

LEMMA InvariantStep == Invariant /\ [Next]_vars => Invariant'
<1> SUFFICES ASSUME Invariant, [Next]_vars PROVE Invariant'
  OBVIOUS
<1>1. CASE UNCHANGED vars
  BY <1>1 DEF vars, Invariant, TypeOK, EvidenceInv, Knows, Working, EvidenceIn
<1>2. ASSUME NEW w \in Writers, CallStep(w)
      PROVE  Invariant'
  <2>1. CASE BeginInitialize(w) \/ BeginInspect(w) \/ BeginEvaluate(w)
    BY <2>1, StepOfPlainBegin
  <2>2. CASE \E check \in Checks, result \in Result : BeginRecord(w, check, result)
    BY <2>2, StepOfBeginRecord
  <2>3. CASE Exists(w)
    BY <2>3, StepOfExists
  <2>4. CASE Create(w)
    BY <2>4, StepOfCreate
  <2>5. CASE \E file \in calls[w].todo : OwnEvidence(w, file)
    BY <2>5, StepOfOwnEvidence
  <2>6. CASE Load(w)
    BY <2>6, StepOfLoad
  <2>7. CASE \E file \in calls[w].todo : LookAtStored(w, file)
    BY <2>7, StepOfLookAtStored
  <2>8. CASE Write(w)
    BY <2>8, StepOfWrite
  <2>9. CASE Answer(w)
    BY <2>9, StepOfStop DEF Answer
  <2>10. CASE Stop(w)
    BY <2>10, StepOfStop DEF Stop
  <2>11. QED
    BY <1>2, <2>1, <2>2, <2>3, <2>4, <2>5, <2>6, <2>7, <2>8, <2>9, <2>10 DEF CallStep
<1>3. ASSUME NEW file \in Files, Edit(file)
      PROVE  Invariant'
  BY <1>3, StepOfEdit
<1>4. QED
  BY <1>1, <1>2, <1>3 DEF Next

LEMMA Invariants == Spec => []Invariant
BY InvariantInitially, InvariantStep, PTL DEF Spec

\* The types hold, and what is on disk is always what its own validator
\* accepts: a record that passes has all its checks passed, with evidence.
THEOREM AdoptionTypeCorrect == Spec => []TypeOK
<1>1. Invariant => TypeOK
  BY DEF Invariant
<1>2. QED
  BY <1>1, Invariants, PTL

\* Nothing is recorded as evidence, for a blocked check either, that was never
\* there, whoever overlaps with whom.
THEOREM EvidenceExisted == Spec => []RecordedEvidenceExisted
<1>1. Invariant => RecordedEvidenceExisted
  BY DEF Invariant, EvidenceInv, EvidenceIn, RecordedEvidenceExisted
<1>2. QED
  BY <1>1, Invariants, PTL

\* A call that has loaded the record has seen every file its decided checks
\* rest on, and that of the check it records, since it began.
THEOREM EvidenceSeen == Spec => []LoadedEvidenceWasSeen
<1>1. Invariant => LoadedEvidenceWasSeen
  <2> SUFFICES ASSUME Invariant, NEW w \in Writers, calls[w].step = "loaded"
               PROVE  /\ \A k \in Checks : calls[w].gate.checks[k].status \in Decided =>
                           calls[w].gate.checks[k].evidence \subseteq since[w]
                      /\ calls[w].op = "record" => calls[w].result.evidence \subseteq since[w]
    BY DEF LoadedEvidenceWasSeen
  <2>1. /\ StoredEvidence(calls[w].gate) \subseteq since[w] /\ calls[w].gate \in Gate
        /\ calls[w].op = "record" => calls[w].result.evidence \subseteq since[w]
    BY CallFacts DEF Knows
  <2>2. QED
    BY <2>1, StoredEvidenceOf
<1>2. QED
  BY <1>1, Invariants, PTL

-----------------------------------------------------------------------------
(* What happens to the record.                                             *)

\* Only Create and Write touch the record.
LEMMA RecordChanges ==
  ASSUME Invariant, [Next]_vars
  PROVE  \/ UNCHANGED record
         \/ \E w \in Writers : Create(w) \/ Write(w)
<1>1. CASE UNCHANGED vars
  BY <1>1 DEF vars
<1>2. ASSUME NEW w \in Writers, CallStep(w)
      PROVE  UNCHANGED record \/ Create(w) \/ Write(w)
  BY <1>2
  DEF CallStep, BeginInitialize, BeginInspect, BeginEvaluate, BeginRecord, Begin, Exists,
      OwnEvidence, Load, LookAtStored, Answer, Stop
<1>3. ASSUME NEW file \in Files, Edit(file)
      PROVE  UNCHANGED record
  BY <1>3 DEF Edit
<1>4. QED
  BY <1>1, <1>2, <1>3 DEF Next

\* A record that was updated is never back in its first revision, whatever
\* initializations race with the update: Create never replaces a record, and a
\* revision that was loaded is one lower than the one that is written.
THEOREM InitializeNeverResets == Spec => NeverReset
<1>1. ASSUME Invariant, [Next]_vars, record \notin {NoRecord, NewGate}
      PROVE  record' \notin {NoRecord, NewGate}
  <2>1. CASE UNCHANGED record
    BY <1>1, <2>1
  <2>2. ASSUME NEW w \in Writers, Create(w)
        PROVE  record' = record
    BY <1>1, <2>2 DEF Create
  <2>3. ASSUME NEW w \in Writers, Write(w), record' # record
        PROVE  record' \notin {NoRecord, NewGate}
    <3>1. record' = Updated(w) /\ calls[w].step = "loaded"
      BY <2>3, WriteIs
    <3>2. /\ Updated(w) \in Gate /\ calls[w].gate \in Gate
          /\ Updated(w).revision = calls[w].gate.revision + 1
      BY <1>1, <3>1, UpdatedType
    <3>3. calls[w].gate.revision \in Nat \ {0}
      BY <3>2 DEF Gate
    <3>4. NewGate.revision = 1
      BY DEF NewGate
    <3>5. Updated(w) # NewGate
      BY <3>2, <3>3, <3>4
    <3>6. QED
      BY <3>1, <3>2, <3>5, NoRecordIsNoGate
  <2>4. QED
    BY <1>1, <2>1, <2>2, <2>3, RecordChanges
<1>2. QED
  BY <1>1, Invariants, PTL DEF Spec, NeverReset

-----------------------------------------------------------------------------
(* Callers that take turns.                                                *)

\* While nobody has overlapped, one call at most is under way, and what it
\* has found or loaded is what is on disk.
Turns ==
  ~ overlapped =>
    /\ \A v, w \in Writers : Working(v) /\ Working(w) => v = w
    /\ \A w \in Writers :
         /\ calls[w].step = "create" => record = NoRecord
         /\ calls[w].step \in {"stored", "loaded"} => calls[w].gate = record

\* A call that goes on, or ends, with what it is about to use still on disk.
LEMMA TurnsGo ==
  ASSUME Invariant, Turns, NEW w \in Writers, NEW call, Goes(w, call), Working(w),
         call.step = "create" => record' = NoRecord,
         call.step \in {"stored", "loaded"} => call.gate = record'
  PROVE  Turns'
<1> SUFFICES ASSUME ~ overlapped'
             PROVE  /\ \A u, v \in Writers : Working(u)' /\ Working(v)' => u = v
                    /\ \A v \in Writers :
                         /\ calls'[v].step = "create" => record' = NoRecord
                         /\ calls'[v].step \in {"stored", "loaded"} => calls'[v].gate = record'
  BY DEF Turns
<1>1. calls' = [calls EXCEPT ![w] = call] /\ ~ overlapped
  BY DEF Goes
<1>2. calls'[w] = call /\ \A v \in Writers \ {w} : calls'[v] = calls[v]
  BY <1>1 DEF Invariant, TypeOK
<1>3. \A v \in Writers \ {w} : calls[v].step = "idle"
  BY <1>1 DEF Turns, Working
<1>4. QED
  BY <1>2, <1>3 DEF Working

LEMMA TurnsBegin ==
  ASSUME Invariant, Turns, NEW w \in Writers, NEW call, Begin(w, call),
         call.step \notin {"create", "stored", "loaded"}
  PROVE  Turns'
<1> SUFFICES ASSUME ~ overlapped'
             PROVE  /\ \A u, v \in Writers : Working(u)' /\ Working(v)' => u = v
                    /\ \A v \in Writers :
                         /\ calls'[v].step = "create" => record' = NoRecord
                         /\ calls'[v].step \in {"stored", "loaded"} => calls'[v].gate = record'
  BY DEF Turns
<1>1. calls' = [calls EXCEPT ![w] = call]
  BY DEF Begin
<1>2. calls'[w] = call /\ \A v \in Writers \ {w} : calls'[v] = calls[v]
  BY <1>1 DEF Invariant, TypeOK
<1>3. \A v \in Writers : calls[v].step = "idle"
  BY DEF Begin, Working
<1>4. QED
  BY <1>2, <1>3 DEF Working

LEMMA TurnsStep == Invariant /\ Turns /\ [Next]_vars => Turns'
<1> SUFFICES ASSUME Invariant, Turns, [Next]_vars PROVE Turns'
  OBVIOUS
<1> USE DEF Working
<1>0. NoCall.step = "idle"
  BY DEF NoCall
<1>1. CASE UNCHANGED vars
  BY <1>1 DEF vars, Turns
<1>2. ASSUME NEW w \in Writers, CallStep(w)
      PROVE  Turns'
  <2>1. CASE BeginInitialize(w) \/ BeginInspect(w) \/ BeginEvaluate(w)
    <3>1. PICK op \in Ops \ {"record"}, step \in {"exists", "load"} :
            Begin(w, [NoCall EXCEPT !.op = op, !.step = step])
      BY <2>1 DEF BeginInitialize, BeginInspect, BeginEvaluate, Ops
    <3>2. [NoCall EXCEPT !.op = op, !.step = step].step = step
      BY PlainBegin
    <3>3. QED
      BY <3>1, <3>2, TurnsBegin
  <2>2. ASSUME NEW check \in Checks, NEW result \in Result, BeginRecord(w, check, result)
        PROVE  Turns'
    <3> DEFINE step == IF result.evidence = {} THEN "load" ELSE "own"
               call == [NoCall EXCEPT !.op = "record", !.check = check, !.result = result,
                                      !.todo = result.evidence, !.step = step]
    <3>1. Begin(w, call)
      BY <2>2 DEF BeginRecord
    <3>2. call.step = step
      BY DEF NoCall
    <3>3. step \notin {"create", "stored", "loaded"}
      OBVIOUS
    <3> HIDE DEF call, step
    <3>4. QED
      BY <3>1, <3>2, <3>3, TurnsBegin
  <2>3. CASE Exists(w)
    <3> DEFINE next == IF record = NoRecord THEN [calls[w] EXCEPT !.step = "create"] ELSE NoCall
    <3>1. Goes(w, next) /\ record' = record /\ calls[w].step = "exists"
      BY <2>3 DEF Exists
    <3>2. next.step = "create" => record = NoRecord
      BY <1>0
    <3>3. next.step \notin {"stored", "loaded"}
      BY <1>0, CallFacts DEF CallState
    <3> HIDE DEF next
    <3>4. QED
      BY <3>1, <3>2, <3>3, TurnsGo
  <2>4. CASE Create(w)
    BY <1>0, <2>4, TurnsGo DEF Create
  <2>5. ASSUME NEW file \in calls[w].todo, OwnEvidence(w, file)
        PROVE  Turns'
    <3> DEFINE rest == calls[w].todo \ {file}
               step == IF rest = {} THEN "load" ELSE "own"
               next == IF file \in present THEN [calls[w] EXCEPT !.todo = rest, !.step = step]
                       ELSE NoCall
    <3>1. Goes(w, next) /\ record' = record /\ calls[w].step = "own"
      BY <2>5 DEF OwnEvidence
    <3>2. next.step \notin {"create", "stored", "loaded"}
      BY <1>0, CallFacts DEF CallState
    <3> HIDE DEF next
    <3>3. QED
      BY <3>1, <3>2, TurnsGo
  <2>6. CASE Load(w)
    <3> DEFINE todo == StoredEvidence(record)
               step == IF todo = {} THEN "loaded" ELSE "stored"
               next == IF record = NoRecord THEN NoCall
                       ELSE [calls[w] EXCEPT !.gate = record, !.todo = todo, !.step = step]
    <3>1. Goes(w, next) /\ record' = record /\ calls[w].step = "load"
      BY <2>6 DEF Load
    <3>2. next.step # "create" /\ (next.step \in {"stored", "loaded"} => next.gate = record)
      <4> HIDE DEF todo
      <4> QED  BY <1>0, CallFacts DEF CallState
    <3> HIDE DEF next
    <3>3. QED
      BY <3>1, <3>2, TurnsGo
  <2>7. ASSUME NEW file \in calls[w].todo, LookAtStored(w, file)
        PROVE  Turns'
    <3> DEFINE rest == calls[w].todo \ {file}
               step == IF rest = {} THEN "loaded" ELSE "stored"
               next == IF file \in present THEN [calls[w] EXCEPT !.todo = rest, !.step = step]
                       ELSE NoCall
    <3>1. Goes(w, next) /\ record' = record /\ overlapped' = overlapped
          /\ calls[w].step = "stored"
      BY <2>7 DEF LookAtStored, Goes
    <3>2. next.step # "create" /\ (next.step \in {"stored", "loaded"} => next.gate = calls[w].gate)
      BY <1>0, CallFacts DEF CallState
    <3> HIDE DEF next
    <3>3. CASE ~ overlapped
      BY <3>1, <3>2, <3>3, TurnsGo DEF Turns
    <3>4. QED
      BY <3>1, <3>3 DEF Turns
  <2>8. CASE Write(w)
    BY <1>0, <2>8, WriteIs, TurnsGo
  <2>9. CASE Answer(w) \/ Stop(w)
    BY <1>0, <2>9, TurnsGo DEF Answer, Stop
  <2>10. QED
    BY <1>2, <2>1, <2>2, <2>3, <2>4, <2>5, <2>6, <2>7, <2>8, <2>9 DEF CallStep
<1>3. ASSUME NEW file \in Files, Edit(file)
      PROVE  Turns'
  BY <1>3 DEF Edit, Turns
<1>4. QED
  BY <1>1, <1>2, <1>3 DEF Next

LEMMA GateInitially == Init => TheGate!Init
BY DEF Init, TheGate!Init, TheGate!Unrecorded, NoRecord

LEMMA GateStep ==
  Invariant /\ Turns /\ [Next]_vars => (~ overlapped => [TheGate!Next]_(TheGate!vars))
<1> SUFFICES ASSUME Invariant, Turns, [Next]_vars, ~ overlapped
             PROVE  [TheGate!Next]_(TheGate!vars)
  OBVIOUS
<1>1. CASE UNCHANGED record
  BY <1>1 DEF TheGate!vars
<1>2. ASSUME NEW w \in Writers, Create(w), record' # record
      PROVE  TheGate!Initialize
  <2>1. record = NoRecord /\ record' = NewGate
    BY <1>2 DEF Create
  <2>2. NewGate.status = "blocked" /\ NewGate # NoRecord
    BY NewGateType, NoRecordIsNoGate DEF NewGate
  <2>3. \A k \in Checks : NewGate.checks[k].status = "blocked"
    BY DEF NewGate
  <2>4. record.status = "absent"
    BY <2>1 DEF NoRecord
  <2>5. QED
    BY <2>1, <2>2, <2>3, <2>4 DEF TheGate!Initialize
<1>3. ASSUME NEW w \in Writers, Write(w), record' # record
      PROVE  TheGate!Record \/ TheGate!Evaluate
  <2>1. record' = Updated(w) /\ calls[w].step = "loaded" /\ calls[w].op \in {"record", "evaluate"}
    BY <1>3, WriteIs
  <2>2. calls[w].gate = record
    BY <2>1 DEF Turns
  <2>3. record \in Gate /\ Updated(w) \in Gate
    BY <2>1, <2>2, UpdatedType
  <2>4. record # NoRecord /\ record' # NoRecord /\ record.status # "absent"
    BY <2>1, <2>3, NoRecordIsNoGate DEF Gate, Outcomes
  <2>5. record.checks \in [Checks -> Result]
    BY <2>3 DEF Gate
  <2>6. CASE calls[w].op = "record"
    <3>1. calls[w].check \in Checks /\ calls[w].result \in Result
      BY <2>6, CallFacts DEF CallState
    <3>2. calls[w].result.status \in TheGate!Outcomes
      BY <3>1 DEF Result, Outcomes, TheGate!Outcomes
    <3>3. /\ record'.status = "blocked"
          /\ record'.checks = [record.checks EXCEPT ![calls[w].check] = calls[w].result]
      BY <2>1, <2>2, <2>3, <2>6, <3>1, RecordedType DEF Updated
    <3>4. [k \in Checks |-> record'.checks[k].status] =
            [[k \in Checks |-> record.checks[k].status] EXCEPT
               ![calls[w].check] = calls[w].result.status]
      BY <2>5, <3>1, <3>3
    <3>5. TheGate!Record
      BY <2>4, <3>1, <3>2, <3>3, <3>4 DEF TheGate!Record
    <3>6. QED
      BY <3>5
  <2>7. CASE calls[w].op = "evaluate"
    <3>1. record'.status = Decide(record.checks) /\ record'.checks = record.checks
      BY <2>1, <2>2, <2>3, <2>7, EvaluatedType DEF Updated
    <3>2. Decide(record.checks) = TheGate!Decide([k \in Checks |-> record.checks[k].status])
      BY DEF Decide, TheGate!Decide
    <3>3. TheGate!Evaluate
      BY <2>4, <3>1, <3>2 DEF TheGate!Evaluate
    <3>4. QED
      BY <3>3
  <2>8. QED
    BY <2>1, <2>6, <2>7
<1>4. QED
  BY <1>1, <1>2, <1>3, RecordChanges DEF TheGate!Next

\* As long as callers take turns the file is an AdoptionGate, however many calls
\* were refused, stopped or found evidence missing: what a call writes is made
\* of what is on disk, since nobody has written after it loaded.
THEOREM AdoptionGateTheorem == Spec => TurnsImplementGate
<1>1. Init => Turns
  BY DEF Init, Turns, Working, NoCall
<1>2. Spec => [](Invariant /\ Turns)
  BY <1>1, Invariants, TurnsStep, PTL DEF Spec
<1>3. QED
  BY <1>2, GateInitially, GateStep, PTL DEF Spec, TurnsImplementGate
=============================================================================
