---------------------------- MODULE RunStoreProofs ----------------------------
(***************************************************************************)
(* What RunStore guarantees for every set of artifacts and results and for *)
(* every bound.                                                            *)
(***************************************************************************)
EXTENDS RunStore, SequenceTheorems, FiniteSetTheorems, TLAPS

-----------------------------------------------------------------------------
(* The contents of the files.                                              *)

LEMMA TransitionsType ==
  \A s \in ExecutionStatus : EXECUTION_TRANSITIONS[s] \subseteq ExecutionStatus
BY DEF EXECUTION_TRANSITIONS, ExecutionStatus

LEMMA VerdictType ==
  \A batch : Verdict(batch) \in AcceptanceStatus
BY DEF Verdict, AcceptanceStatus

LEMMA NewManifestType == NewManifest \in Manifest
BY DEF NewManifest, Manifest, ExecutionStatus, AcceptanceStatus

LEMMA LinesType ==
  /\ Created \in Event /\ Torn \in Event
  /\ \A t \in ExecutionStatus : Line("execution_transition", t) \in Event
  /\ \A a \in Artifacts : Line("artifact_recorded", a) \in Event
  /\ Line("provenance_recorded", "none") \in Event
  /\ \A s \in AcceptanceStatus : Line("acceptance_recorded", s) \in Event
BY DEF Created, Torn, Line, Event

LEMMA NoPlanType == NoPlan \in Plan
BY BoundsAssumption, NewManifestType, LinesType DEF NoPlan, Plan

LEMMA AfterAppendType ==
  ASSUME events \in Seq(Event), NEW e \in Event
  PROVE  AfterAppend(e) \in Seq(Event)
BY DEF AfterAppend

-----------------------------------------------------------------------------
(* The type invariant.                                                     *)

\* An operation starts with a plan of the right type.
LEMMA DraftType ==
  ASSUME TypeOK, NEW op, op \in {"transition", "artifact", "provenance",
                                 "acceptance"}, NEW e \in Event
  PROVE  /\ Draft(op, e) \in Plan
         /\ Draft(op, e).op = op
BY DEF Draft, Plan, TypeOK

LEMMA StartType ==
  ASSUME TypeOK, NEW draft \in Plan, draft.op # "none", NEW first,
         first \in {"publish", "data", "run"}, Start(draft, first)
  PROVE  TypeOK'
<1>1. draft # NoPlan
  BY DEF NoPlan
<1>2. QED
  BY <1>1 DEF TypeOK, Start, disk, files, history

LEMMA TypeInitially == Init => TypeOK
<1> SUFFICES ASSUME Init PROVE TypeOK
  OBVIOUS
<1>1. /\ run \in Manifest /\ plan \in Plan
      /\ artifacts \in Seq(Artifacts) /\ events \in Seq(Event)
      /\ provenance \in 0 .. MaxProvenance /\ interrupts \in 0 .. MaxInterrupts
  BY BoundsAssumption, NewManifestType, NoPlanType DEF Init
<1>2. results \in SUBSET Results
  BY DEF Init
<1>3. checkpoint \in [run : Manifest, artifacts : Seq(Artifacts),
                     provenance : 0 .. MaxProvenance,
                     results : SUBSET Results, events : Seq(Event)]
  BY <1>1, <1>2 DEF Init, Hashes
<1>4. QED
  BY <1>1, <1>2, <1>3 DEF Init, TypeOK, AcceptanceStatus

\* The type invariant is not inductive alone: the id that record_artifact adds
\* to the manifest is taken from the event it is going to log.
PlannedArtifact == plan.op = "artifact" => plan.event.data \in Artifacts

LEMMA PlannedStep == TypeOK /\ PlannedArtifact /\ [Next]_vars => PlannedArtifact'
<1> SUFFICES ASSUME TypeOK, PlannedArtifact, [Next]_vars
             PROVE  PlannedArtifact'
  OBVIOUS
<1>1. CASE StageRun
  BY <1>1 DEF StageRun, Start, NoPlan, PlannedArtifact
<1>2. ASSUME NEW target \in ExecutionStatus, BeginTransition(target)
      PROVE  PlannedArtifact'
  BY <1>2 DEF BeginTransition, Start, Draft, PlannedArtifact
<1>3. ASSUME NEW a \in Artifacts, BeginArtifact(a)
      PROVE  PlannedArtifact'
  BY <1>3 DEF BeginArtifact, Start, Draft, Line, PlannedArtifact
<1>4. CASE BeginProvenance
  BY <1>4 DEF BeginProvenance, Start, Draft, PlannedArtifact
<1>5. ASSUME NEW batch \in SUBSET Results, BeginAcceptance(batch)
      PROVE  PlannedArtifact'
  BY <1>5 DEF BeginAcceptance, Start, Draft, PlannedArtifact
<1>6. CASE plan' = NoPlan
  BY <1>6 DEF NoPlan, PlannedArtifact
<1>7. CASE WriteArtifacts
  BY <1>7 DEF WriteArtifacts, TypeOK, Plan, PlannedArtifact
<1>8. CASE UNCHANGED plan
  BY <1>8 DEF PlannedArtifact
<1>9. QED
  BY <1>1, <1>2, <1>3, <1>4, <1>5, <1>6, <1>7, <1>8
  DEF Next, Begin, Write, Stop, PublishRun, WriteProvenance, WriteResults,
      WriteManifest, AppendEvent, WriteCheckpoint, Interrupt, TearEvent,
      AbandonCreate, vars

LEMMA TypeStep == TypeOK /\ PlannedArtifact /\ [Next]_vars => TypeOK'
<1> SUFFICES ASSUME TypeOK, PlannedArtifact, [Next]_vars
             PROVE  TypeOK'
  OBVIOUS
<1> USE BoundsAssumption
<1>1. CASE StageRun
  <2>1. [NoPlan EXCEPT !.op = "create"] \in Plan
    BY NoPlanType DEF NoPlan, Plan
  <2>2. [NoPlan EXCEPT !.op = "create"].op = "create"
    BY DEF NoPlan
  <2>3. QED
    BY <1>1, <2>1, <2>2, StartType DEF StageRun
<1>2. ASSUME NEW target \in ExecutionStatus, BeginTransition(target)
      PROVE  TypeOK'
  <2> DEFINE e == Line("execution_transition", target)
             d == Draft("transition", e)
             r == [run EXCEPT !.execution = target]
  <2>1. r \in Manifest
    BY DEF TypeOK, Manifest
  <2>2. d \in Plan /\ d.op = "transition"
    BY DraftType, LinesType
  <2> HIDE DEF d, r
  <2>3. [d EXCEPT !.run = r] \in Plan /\ [d EXCEPT !.run = r].op = "transition"
    BY <2>1, <2>2 DEF Plan
  <2>4. Start([d EXCEPT !.run = r], "run")
    BY <1>2 DEF BeginTransition, d, r
  <2>5. QED
    BY <2>3, <2>4, StartType
<1>3. ASSUME NEW a \in Artifacts, BeginArtifact(a)
      PROVE  TypeOK'
  <2> DEFINE d == Draft("artifact", Line("artifact_recorded", a))
             s == Append(artifacts, a)
  <2>1. s \in Seq(Artifacts)
    BY DEF TypeOK
  <2>2. d \in Plan /\ d.op = "artifact"
    BY DraftType, LinesType
  <2> HIDE DEF d, s
  <2>3. [d EXCEPT !.artifacts = s] \in Plan /\ [d EXCEPT !.artifacts = s].op = "artifact"
    BY <2>1, <2>2 DEF Plan
  <2>4. Start([d EXCEPT !.artifacts = s], "data")
    BY <1>3 DEF BeginArtifact, d, s
  <2>5. QED
    BY <2>3, <2>4, StartType
<1>4. CASE BeginProvenance
  <2> DEFINE d == Draft("provenance", Line("provenance_recorded", "none"))
             n == provenance + 1
  <2>1. n \in 0 .. MaxProvenance
    BY <1>4 DEF TypeOK, BeginProvenance
  <2>2. d \in Plan /\ d.op = "provenance"
    BY DraftType, LinesType
  <2> HIDE DEF d, n
  <2>3. [d EXCEPT !.provenance = n] \in Plan /\ [d EXCEPT !.provenance = n].op = "provenance"
    BY <2>1, <2>2 DEF Plan
  <2>4. Start([d EXCEPT !.provenance = n], "data")
    BY <1>4 DEF BeginProvenance, d, n
  <2>5. QED
    BY <2>3, <2>4, StartType
<1>5. ASSUME NEW batch \in SUBSET Results, BeginAcceptance(batch)
      PROVE  TypeOK'
  <2> DEFINE v == Verdict(batch)
             d == Draft("acceptance", Line("acceptance_recorded", v))
             r == [run EXCEPT !.acceptance = v]
  <2>0. v \in AcceptanceStatus
    BY VerdictType
  <2>1. r \in Manifest
    BY <2>0 DEF TypeOK, Manifest
  <2>2. d \in Plan /\ d.op = "acceptance"
    BY <2>0, DraftType, LinesType
  <2> HIDE DEF d, r, v
  <2> DEFINE p == [d EXCEPT !.results = batch, !.run = r]
  <2>3. p \in Plan /\ p.op = "acceptance"
    BY <2>1, <2>2 DEF Plan
  <2>4. Start(p, "data")
    BY <1>5 DEF BeginAcceptance, d, r, v
  <2>5. QED
    BY <2>3, <2>4, StartType
<1>6. CASE PublishRun
  <2>1. /\ run' \in Manifest /\ plan' \in Plan
        /\ artifacts' \in Seq(Artifacts) /\ events' \in Seq(Event)
        /\ provenance' \in 0 .. MaxProvenance
    BY <1>6, NewManifestType, NoPlanType, LinesType DEF PublishRun
  <2>2. results' \in SUBSET Results
    BY <1>6 DEF PublishRun
  <2>3. checkpoint' \in [run : Manifest, artifacts : Seq(Artifacts),
                        provenance : 0 .. MaxProvenance,
                        results : SUBSET Results, events : Seq(Event)]
    BY <1>6, <2>1, <2>2 DEF PublishRun, Hashes
  <2>4. QED
    BY <1>6, <2>1, <2>2, <2>3 DEF PublishRun, TypeOK, history
<1>7. CASE WriteArtifacts
  <2>1. plan.artifacts \in Seq(Artifacts) /\ plan.event \in Event /\ plan.op = "artifact"
    BY <1>7 DEF WriteArtifacts, TypeOK, Plan
  <2> DEFINE id == plan.event.data
             r == [run EXCEPT !.artifact_ids = Append(run.artifact_ids, id)]
  <2>2. CASE Contains(run.artifact_ids, id)
    BY <1>7, <2>1, <2>2 DEF WriteArtifacts, TypeOK, NoPlan, history
  <2>3. CASE ~ Contains(run.artifact_ids, id)
    <3>0. Append(run.artifact_ids, id) \in Seq(Artifacts)
      BY <2>1 DEF TypeOK, Manifest, PlannedArtifact
    <3>1. r \in Manifest
      BY <3>0 DEF TypeOK, Manifest
    <3> HIDE DEF r
    <3>2. [plan EXCEPT !.run = r] \in Plan /\ [plan EXCEPT !.run = r].op = "artifact"
      BY <2>1, <3>1 DEF TypeOK, Plan
    <3>3. plan' = [plan EXCEPT !.run = r] /\ pc' = "run" /\ artifacts' = plan.artifacts
      BY <1>7, <2>3 DEF WriteArtifacts, r
    <3>4. plan' # NoPlan
      BY <3>2, <3>3 DEF NoPlan
    <3>5. QED
      BY <1>7, <2>1, <3>2, <3>3, <3>4 DEF WriteArtifacts, TypeOK, history
  <2>4. QED
    BY <2>2, <2>3
<1>8. CASE WriteProvenance
  BY <1>8 DEF WriteProvenance, TypeOK, Plan, history
<1>9. CASE WriteResults
  BY <1>9, VerdictType DEF WriteResults, TypeOK, Plan
<1>10. CASE WriteManifest
  BY <1>10 DEF WriteManifest, TypeOK, Plan, history
<1>11. CASE AppendEvent
  <2>1. plan.event \in Event
    BY DEF TypeOK, Plan
  <2>2. AfterAppend(plan.event) \in Seq(Event)
    BY <2>1, AfterAppendType DEF TypeOK
  <2>3. QED
    BY <1>11, <2>2 DEF AppendEvent, TypeOK, history
<1>12. CASE WriteCheckpoint
  BY <1>12, NoPlanType DEF WriteCheckpoint, TypeOK, Hashes, files, history
<1>13. CASE Interrupt
  BY <1>13, NoPlanType DEF Interrupt, TypeOK, disk, files
<1>14. CASE TearEvent
  <2>1. AfterAppend(Torn) \in Seq(Event)
    BY AfterAppendType, LinesType DEF TypeOK
  <2>2. QED
    BY <1>14, <2>1, NoPlanType DEF TearEvent, TypeOK
<1>15. CASE AbandonCreate
  BY <1>15, NoPlanType DEF AbandonCreate, TypeOK, files, history
<1>16. CASE UNCHANGED vars
  BY <1>16 DEF vars, disk, files, history, TypeOK
<1>17. QED
  BY <1>1, <1>2, <1>3, <1>4, <1>5, <1>6, <1>7, <1>8, <1>9, <1>10, <1>11,
     <1>12, <1>13, <1>14, <1>15, <1>16
  DEF Next, Begin, Write, Stop

LEMMA Types == Spec => [](TypeOK /\ PlannedArtifact)
<1>1. Init => PlannedArtifact
  BY DEF Init, NoPlan, PlannedArtifact
<1>2. QED
  BY <1>1, TypeInitially, PlannedStep, TypeStep, PTL DEF Spec

\* Every file of the run holds what its parser accepts, whatever operations
\* run and wherever they are interrupted.
THEOREM TypeCorrect == Spec => []TypeOK
BY Types, PTL

-----------------------------------------------------------------------------
(* No trust in an old verdict.                                             *)

ReportedIsLast == results # {} => reported = Verdict(results)

LEMMA ReportedStep == ReportedIsLast /\ [Next]_vars => ReportedIsLast'
<1> SUFFICES ASSUME ReportedIsLast, [Next]_vars
             PROVE  ReportedIsLast'
  OBVIOUS
<1>1. CASE PublishRun
  BY <1>1 DEF PublishRun, ReportedIsLast
<1>2. CASE WriteResults
  BY <1>2 DEF WriteResults, ReportedIsLast, Verdict, Accepted
<1>3. CASE UNCHANGED <<results, reported>>
  BY <1>3 DEF ReportedIsLast, Verdict, Accepted
<1>4. QED
  BY <1>1, <1>2, <1>3
  DEF Next, Begin, Write, Stop, StageRun, BeginTransition, BeginArtifact,
      BeginProvenance, BeginAcceptance, Start, WriteArtifacts, WriteProvenance,
      WriteManifest, AppendEvent, WriteCheckpoint, Interrupt, TearEvent,
      AbandonCreate, vars, disk, files, history

\* Interrupted rejections included, the store never takes a run for trusted
\* on a judgement older than the results written last: what `recover` compares
\* across run.json and acceptance.json is enough for that.
THEOREM NoOldVerdict == Spec => []NoTrustInOldVerdict
<1>1. Init => ReportedIsLast
  BY DEF Init, ReportedIsLast
<1>2. ReportedIsLast => NoTrustInOldVerdict
  BY DEF ReportedIsLast, NoTrustInOldVerdict, Trusted, Recoverable,
         AcceptanceAgrees, Verdict, Accepted
<1>3. QED
  BY <1>1, <1>2, ReportedStep, PTL DEF Spec

-----------------------------------------------------------------------------
(* The plan of an operation and the files it was computed from.            *)

\* How much of an update is still to be written: an operation that stops here
\* leaves exactly this undone.
PlannedWrites ==
  /\ pc = "data" => plan.op \in {"artifact", "provenance", "acceptance"}
  /\ pc = "run" => plan.op \in {"transition", "artifact", "acceptance"}
  /\ pc = "data" /\ plan.op = "artifact" =>
       plan.artifacts = Append(artifacts, plan.event.data)
  /\ pc = "run" /\ plan.op = "acceptance" => results = plan.results

\* The manifest an operation is going to write differs from run.json in the
\* one field the operation is about.
PlannedManifest ==
  /\ pc = "run" /\ plan.op = "transition" =>
       \E target \in EXECUTION_TRANSITIONS[run.execution] :
         plan.run = [run EXCEPT !.execution = target]
  /\ pc = "run" /\ plan.op = "artifact" =>
       plan.run = [run EXCEPT !.artifact_ids =
                     Append(run.artifact_ids, plan.event.data)]
  /\ pc \in {"data", "run"} /\ plan.op = "acceptance" =>
       /\ run.execution = "succeeded"
       /\ plan.run = [run EXCEPT !.acceptance = Verdict(plan.results)]

\* A directory that is not there has no files, and only a creation makes it.
Unborn ==
  /\ directory = "absent" =>
       pc \in {"idle", "publish"} /\ run = NewManifest /\ artifacts = <<>>
  /\ pc = "publish" => directory = "absent"

PlanFits == PlannedWrites /\ PlannedManifest /\ Unborn

LEMMA PlanFitsInitially == Init => PlanFits
BY DEF Init, PlanFits, PlannedWrites, PlannedManifest, Unborn

LEMMA PlanFitsStep == TypeOK /\ PlanFits /\ [Next]_vars => PlanFits'
<1> SUFFICES ASSUME TypeOK, PlanFits, [Next]_vars
             PROVE  PlanFits'
  OBVIOUS
<1> USE DEF PlanFits, PlannedWrites, PlannedManifest, Unborn
<1>1. CASE StageRun
  BY <1>1 DEF StageRun, Start, disk, files
<1>2. ASSUME NEW target \in ExecutionStatus, BeginTransition(target)
      PROVE  PlanFits'
  <2>1. /\ plan'.op = "transition" /\ plan'.run = [run EXCEPT !.execution = target]
        /\ pc' = "run" /\ target \in EXECUTION_TRANSITIONS[run.execution]
        /\ UNCHANGED <<directory, run, artifacts>> /\ directory = "named"
    BY <1>2 DEF BeginTransition, Start, Draft, Ready, disk, files
  <2>2. QED
    BY <2>1
<1>3. ASSUME NEW a \in Artifacts, BeginArtifact(a)
      PROVE  PlanFits'
  <2>1. /\ plan'.op = "artifact" /\ plan'.artifacts = Append(artifacts, a)
        /\ plan'.event.data = a
        /\ pc' = "data" /\ directory = "named"
        /\ UNCHANGED <<directory, run, artifacts>>
    BY <1>3 DEF BeginArtifact, Start, Draft, Line, Ready, disk, files
  <2>2. QED
    BY <2>1
<1>4. CASE BeginProvenance
  <2>1. /\ plan'.op = "provenance" /\ pc' = "data" /\ directory = "named"
        /\ UNCHANGED <<directory, run, artifacts>>
    BY <1>4 DEF BeginProvenance, Start, Draft, Ready, disk, files
  <2>2. QED
    BY <2>1
<1>5. ASSUME NEW batch \in SUBSET Results, BeginAcceptance(batch)
      PROVE  PlanFits'
  <2>1. /\ plan'.op = "acceptance" /\ plan'.results = batch
        /\ plan'.run = [run EXCEPT !.acceptance = Verdict(batch)]
        /\ pc' = "data" /\ directory = "named" /\ run.execution = "succeeded"
        /\ UNCHANGED <<directory, run, artifacts>>
    BY <1>5 DEF BeginAcceptance, Start, Draft, Ready, disk, files
  <2>2. Verdict(batch)' = Verdict(batch)
    OBVIOUS
  <2>3. QED
    BY <2>1, <2>2
<1>6. CASE PublishRun
  BY <1>6 DEF PublishRun
<1>7. CASE WriteArtifacts
  <2> DEFINE r == [run EXCEPT !.artifact_ids = Append(run.artifact_ids, plan.event.data)]
  <2>1. \/ pc' = "event" /\ UNCHANGED plan
        \/ /\ pc' = "run" /\ plan' = [plan EXCEPT !.run = r]
    BY <1>7 DEF WriteArtifacts
  <2>2. directory = "named" /\ plan.op = "artifact" /\ plan \in Plan
    BY <1>7 DEF WriteArtifacts, TypeOK
  <2>3. UNCHANGED <<directory, run>>
    BY <1>7 DEF WriteArtifacts
  <2> HIDE DEF r
  <2>4. pc' = "run" => plan'.run = r /\ plan'.op = "artifact" /\ plan'.event = plan.event
    BY <2>1, <2>2 DEF Plan
  <2>5. QED
    BY <2>1, <2>2, <2>3, <2>4 DEF r
<1>8. CASE WriteProvenance
  BY <1>8 DEF WriteProvenance
<1>9. CASE WriteResults
  BY <1>9 DEF WriteResults
<1>10. CASE WriteManifest
  BY <1>10 DEF WriteManifest
<1>11. CASE AppendEvent
  BY <1>11 DEF AppendEvent
<1>12. CASE WriteCheckpoint
  BY <1>12 DEF WriteCheckpoint, files
<1>13. CASE Interrupt
  BY <1>13 DEF Interrupt, disk, files
<1>14. CASE TearEvent
  BY <1>14 DEF TearEvent
<1>15. CASE AbandonCreate
  BY <1>15 DEF AbandonCreate, files
<1>16. CASE UNCHANGED vars
  BY <1>16 DEF vars, disk, files, Verdict, Accepted
<1>17. QED
  BY <1>1, <1>2, <1>3, <1>4, <1>5, <1>6, <1>7, <1>8, <1>9, <1>10, <1>11,
     <1>12, <1>13, <1>14, <1>15, <1>16
  DEF Next, Begin, Write, Stop

LEMMA PlansFit == Spec => []PlanFits
BY Types, PlanFitsInitially, PlanFitsStep, PTL DEF Spec

-----------------------------------------------------------------------------
(* run.json implements the lifecycle of a run.                             *)

LEMMA LifecycleInitially == Init => Lifecycle!Init
BY DEF Init, NewManifest, Lifecycle!Init

\* A step that leaves the directory and run.json alone is a stutter.
LEMMA LifecycleStutters ==
  UNCHANGED <<directory, run>> => UNCHANGED Lifecycle!vars
BY DEF Lifecycle!vars

LEMMA LifecycleStep ==
  TypeOK /\ PlanFits /\ [Next]_vars => [Lifecycle!Next]_(Lifecycle!vars)
<1> SUFFICES ASSUME TypeOK, PlanFits, [Next]_vars
             PROVE  [Lifecycle!Next]_(Lifecycle!vars)
  OBVIOUS
<1>1. CASE PublishRun
  <2>1. /\ directory = "absent" /\ directory' = "named"
        /\ run = NewManifest /\ run' = NewManifest
    BY <1>1 DEF PublishRun, PlanFits, Unborn
  <2>2. Lifecycle!Create
    BY <2>1 DEF NewManifest, Lifecycle!Create, Lifecycle!Move
  <2>3. QED
    BY <2>2 DEF Lifecycle!Next
<1>2. CASE WriteManifest
  <2>1. /\ directory = "named" /\ UNCHANGED directory
        /\ run \in Manifest /\ run' = plan.run /\ pc = "run"
    BY <1>2 DEF WriteManifest, TypeOK, PlanFits, Unborn
  <2>2. CASE plan.op = "transition"
    <3>1. PICK target \in EXECUTION_TRANSITIONS[run.execution] :
            run' = [run EXCEPT !.execution = target]
      BY <2>1, <2>2 DEF PlanFits, PlannedManifest
    <3>2. /\ run'.execution = target /\ run'.acceptance = run.acceptance
          /\ run.execution \in ExecutionStatus
      BY <2>1, <3>1 DEF Manifest
    <3>3. \/ run.execution = "planned" /\ target \in {"running", "cancelled"}
          \/ run.execution = "running" /\ target \in {"succeeded", "failed", "cancelled"}
      BY <3>1, <3>2 DEF EXECUTION_TRANSITIONS, ExecutionStatus
    <3>4. Lifecycle!Run \/ Lifecycle!End \/ Lifecycle!Cancel
      BY <2>1, <3>2, <3>3
      DEF Lifecycle!Run, Lifecycle!End, Lifecycle!Cancel, Lifecycle!Move
    <3>5. QED
      BY <3>4 DEF Lifecycle!Next
  <2>3. CASE plan.op = "artifact"
    BY <2>1, <2>3 DEF PlanFits, PlannedManifest, Manifest, Lifecycle!vars
  <2>4. CASE plan.op = "acceptance"
    <3>1. /\ run.execution = "succeeded"
          /\ run' = [run EXCEPT !.acceptance = Verdict(plan.results)]
      BY <2>1, <2>4 DEF PlanFits, PlannedManifest
    <3>2. run'.execution = run.execution /\ run'.acceptance \in {"accepted", "rejected"}
      BY <2>1, <3>1 DEF Manifest, Verdict
    <3>3. Lifecycle!Judge
      BY <2>1, <3>1, <3>2 DEF Lifecycle!Judge
    <3>4. QED
      BY <3>3 DEF Lifecycle!Next
  <2>5. QED
    BY <2>1, <2>2, <2>3, <2>4 DEF PlanFits, PlannedWrites
<1>3. CASE UNCHANGED <<directory, run>>
  BY <1>3, LifecycleStutters
<1>4. QED
  BY <1>1, <1>2, <1>3
  DEF Next, Begin, Write, Stop, StageRun, BeginTransition, BeginArtifact,
      BeginProvenance, BeginAcceptance, Start, WriteArtifacts, WriteProvenance,
      WriteResults, AppendEvent, WriteCheckpoint, Interrupt, TearEvent,
      AbandonCreate, vars, disk, files

\* The store implements RunLifecycle: whatever is interrupted and whatever is
\* done to a run after an interruption, run.json never shows a forbidden move,
\* and a judgement stands only beside a succeeded execution.
THEOREM LifecycleTheorem == Spec => LifecycleImplemented
<1>1. QED
  BY Types, PlansFit, LifecycleInitially, LifecycleStep, PTL
  DEF Spec, LifecycleImplemented, Lifecycle!Spec

-----------------------------------------------------------------------------
(* A completed update is recoverable.                                      *)

\* While no update has been interrupted, the files disagree only by what the
\* operation under way still has to write.
SoundSoFar ==
  directory = "named" /\ interrupts = 0 /\ IsInjective(artifacts) =>
    /\ ValidEvents(events)
    /\ IF pc = "run" /\ plan.op = "artifact"
         THEN artifacts = Append(run.artifact_ids, plan.event.data)
         ELSE artifacts = run.artifact_ids
    /\ ~ (pc = "run" /\ plan.op = "acceptance") =>
         AcceptanceAgrees(run.acceptance, results)
    /\ pc = "idle" => checkpoint = Hashes

\* No operation plans a line that is not a line.
PlannedLine == plan.event.event # "torn"

LEMMA PlannedLineStep == TypeOK /\ PlannedLine /\ [Next]_vars => PlannedLine'
<1> SUFFICES ASSUME TypeOK, PlannedLine, [Next]_vars
             PROVE  PlannedLine'
  OBVIOUS
<1>1. CASE StageRun
  BY <1>1 DEF StageRun, Start, NoPlan, Created, Line, PlannedLine
<1>2. ASSUME NEW target \in ExecutionStatus, BeginTransition(target)
      PROVE  PlannedLine'
  BY <1>2 DEF BeginTransition, Start, Draft, Line, PlannedLine
<1>3. ASSUME NEW a \in Artifacts, BeginArtifact(a)
      PROVE  PlannedLine'
  BY <1>3 DEF BeginArtifact, Start, Draft, Line, PlannedLine
<1>4. CASE BeginProvenance
  BY <1>4 DEF BeginProvenance, Start, Draft, Line, PlannedLine
<1>5. ASSUME NEW batch \in SUBSET Results, BeginAcceptance(batch)
      PROVE  PlannedLine'
  BY <1>5 DEF BeginAcceptance, Start, Draft, Line, PlannedLine
<1>6. CASE plan' = NoPlan
  BY <1>6 DEF NoPlan, Created, Line, PlannedLine
<1>7. CASE WriteArtifacts
  BY <1>7 DEF WriteArtifacts, TypeOK, Plan, PlannedLine
<1>8. CASE UNCHANGED plan
  BY <1>8 DEF PlannedLine
<1>9. QED
  BY <1>1, <1>2, <1>3, <1>4, <1>5, <1>6, <1>7, <1>8
  DEF Next, Begin, Write, Stop, PublishRun, WriteProvenance,
      WriteResults, WriteManifest, AppendEvent, WriteCheckpoint, Interrupt,
      TearEvent, AbandonCreate, vars

LEMMA InjectiveAppend ==
  ASSUME NEW S, NEW s \in Seq(S), NEW a \in S, IsInjective(Append(s, a))
  PROVE  IsInjective(s) /\ ~ Contains(s, a)
<1>1. /\ DOMAIN s = 1 .. Len(s)
      /\ DOMAIN Append(s, a) = 1 .. Len(s) + 1
      /\ \A i \in 1 .. Len(s) : Append(s, a)[i] = s[i]
      /\ Append(s, a)[Len(s) + 1] = a
  OBVIOUS
<1>2. IsInjective(s)
  BY <1>1 DEF IsInjective
<1>3. ~ Contains(s, a)
  BY <1>1 DEF IsInjective, Contains
<1>4. QED
  BY <1>2, <1>3

LEMMA ValidAppend ==
  ASSUME events \in Seq(Event), ValidEvents(events), NEW e \in Event,
         e.event # "torn"
  PROVE  ValidEvents(AfterAppend(e))
<1>1. AfterAppend(e) = Append(events, e)
  BY DEF AfterAppend, ValidEvents
<1>2. e # Torn
  BY DEF Torn, Line
<1>3. ~ Contains(Append(events, e), Torn)
  BY <1>2 DEF ValidEvents, Contains
<1>4. QED
  BY <1>1, <1>3 DEF ValidEvents

LEMMA VerdictAgrees == \A batch : AcceptanceAgrees(Verdict(batch), batch)
BY DEF AcceptanceAgrees, Verdict, Accepted

LEMMA SoundInitially == Init => SoundSoFar
BY DEF Init, SoundSoFar

LEMMA SoundStep ==
  TypeOK /\ PlannedArtifact /\ PlannedLine /\ PlanFits /\ SoundSoFar /\ [Next]_vars
    => SoundSoFar'
<1> SUFFICES ASSUME TypeOK, PlannedArtifact, PlannedLine, PlanFits, SoundSoFar,
                    [Next]_vars,
                    directory' = "named", interrupts' = 0, IsInjective(artifacts')
             PROVE  /\ ValidEvents(events)'
                    /\ IF pc' = "run" /\ plan'.op = "artifact"
                         THEN artifacts' = Append(run'.artifact_ids, plan'.event.data)
                         ELSE artifacts' = run'.artifact_ids
                    /\ ~ (pc' = "run" /\ plan'.op = "acceptance") =>
                         AcceptanceAgrees(run.acceptance, results)'
                    /\ pc' = "idle" => (checkpoint = Hashes)'
  BY DEF SoundSoFar
<1>1. ASSUME NEW draft, NEW first, first \in {"publish", "data", "run"},
             Start(draft, first), first = "run" => draft.op = "transition"
      PROVE  /\ ValidEvents(events)'
             /\ IF pc' = "run" /\ plan'.op = "artifact"
                  THEN artifacts' = Append(run'.artifact_ids, plan'.event.data)
                  ELSE artifacts' = run'.artifact_ids
             /\ ~ (pc' = "run" /\ plan'.op = "acceptance") =>
                  AcceptanceAgrees(run.acceptance, results)'
             /\ pc' = "idle" => (checkpoint = Hashes)'
  <2>1. /\ pc = "idle" /\ pc' = first /\ plan' = draft
        /\ UNCHANGED <<directory, run, artifacts, results, events, interrupts>>
    BY <1>1 DEF Start, disk, files, history
  <2>2. /\ ValidEvents(events) /\ artifacts = run.artifact_ids
        /\ AcceptanceAgrees(run.acceptance, results)
    BY <2>1 DEF SoundSoFar
  <2>3. QED
    BY <1>1, <2>1, <2>2
       DEF ValidEvents, Contains, AcceptanceAgrees, Accepted
<1>2. CASE Begin
  <2>1. CASE StageRun
    BY <1>1, <2>1 DEF StageRun
  <2>2. ASSUME NEW target \in ExecutionStatus, BeginTransition(target)
        PROVE  Start([Draft("transition", Line("execution_transition", target))
                        EXCEPT !.run = [run EXCEPT !.execution = target]], "run")
    BY <2>2 DEF BeginTransition
  <2>3. \A e, r : [Draft("transition", e) EXCEPT !.run = r].op = "transition"
    BY DEF Draft
  <2>4. QED
    BY <1>1, <1>2, <2>1, <2>2, <2>3
    DEF Begin, BeginArtifact, BeginProvenance, BeginAcceptance
<1>3. CASE PublishRun
  <2>1. Created # Torn
    BY DEF Created, Torn, Line
  <2>2. events' = <<Created>> /\ run' = NewManifest /\ artifacts' = <<>> /\ results' = {}
        /\ checkpoint' = Hashes' /\ pc' = "idle"
    BY <1>3 DEF PublishRun
  <2>3. ValidEvents(events)'
    BY <2>1, <2>2 DEF ValidEvents, Contains
  <2>4. QED
    BY <2>2, <2>3 DEF NewManifest, AcceptanceAgrees
<1>4. CASE WriteArtifacts
  <2>1. /\ pc = "data" /\ plan.op = "artifact" /\ artifacts' = plan.artifacts
        /\ UNCHANGED <<directory, run, results, events, interrupts>>
    BY <1>4 DEF WriteArtifacts, history
  <2>2. artifacts' = Append(artifacts, plan.event.data)
    BY <2>1 DEF PlanFits, PlannedWrites
  <2>3. artifacts \in Seq(Artifacts) /\ plan.event.data \in Artifacts
    BY <2>1 DEF TypeOK, PlannedArtifact
  <2>4. IsInjective(artifacts) /\ ~ Contains(artifacts, plan.event.data)
    BY <2>2, <2>3, InjectiveAppend
  <2>5. /\ ValidEvents(events) /\ artifacts = run.artifact_ids
        /\ AcceptanceAgrees(run.acceptance, results)
    BY <2>1, <2>4 DEF SoundSoFar
  <2> DEFINE r == [run EXCEPT !.artifact_ids = Append(run.artifact_ids, plan.event.data)]
  <2>6. pc' = "run" /\ plan' = [plan EXCEPT !.run = r]
    BY <1>4, <2>4, <2>5 DEF WriteArtifacts
  <2> HIDE DEF r
  <2>7. plan'.op = "artifact" /\ plan'.event = plan.event
    BY <2>1, <2>6 DEF TypeOK, Plan
  <2>8. QED
    BY <2>1, <2>2, <2>5, <2>6, <2>7
       DEF ValidEvents, Contains, AcceptanceAgrees, Accepted
<1>5. CASE WriteProvenance
  BY <1>5 DEF WriteProvenance, SoundSoFar, history, ValidEvents, Contains,
              AcceptanceAgrees, Accepted
<1>6. CASE WriteResults
  BY <1>6 DEF WriteResults, SoundSoFar, ValidEvents, Contains
<1>7. CASE WriteManifest
  <2>1. /\ pc = "run" /\ pc' = "event" /\ run' = plan.run
        /\ UNCHANGED <<directory, artifacts, results, events, plan, interrupts>>
    BY <1>7 DEF WriteManifest, history
  <2>2. ValidEvents(events)' /\ run \in Manifest
    BY <2>1 DEF SoundSoFar, TypeOK, ValidEvents, Contains
  <2>3. CASE plan.op = "transition"
    <3>1. PICK target : run' = [run EXCEPT !.execution = target]
      BY <2>1, <2>3 DEF PlanFits, PlannedManifest
    <3>2. run'.artifact_ids = run.artifact_ids /\ run'.acceptance = run.acceptance
      BY <2>2, <3>1 DEF Manifest
    <3>3. QED
      BY <2>1, <2>2, <2>3, <3>2 DEF SoundSoFar, AcceptanceAgrees, Accepted
  <2>4. CASE plan.op = "artifact"
    <3>1. run' = [run EXCEPT !.artifact_ids = Append(run.artifact_ids, plan.event.data)]
      BY <2>1, <2>4 DEF PlanFits, PlannedManifest
    <3>2. /\ run'.artifact_ids = Append(run.artifact_ids, plan.event.data)
          /\ run'.acceptance = run.acceptance
      BY <2>2, <3>1 DEF Manifest
    <3>3. QED
      BY <2>1, <2>2, <2>4, <3>2 DEF SoundSoFar, AcceptanceAgrees, Accepted
  <2>5. CASE plan.op = "acceptance"
    <3>1. /\ run' = [run EXCEPT !.acceptance = Verdict(plan.results)]
          /\ results = plan.results
      BY <2>1, <2>5 DEF PlanFits, PlannedManifest, PlannedWrites
    <3>2. /\ run'.artifact_ids = run.artifact_ids
          /\ run'.acceptance = Verdict(results)
      BY <2>2, <3>1 DEF Manifest
    <3>3. AcceptanceAgrees(run.acceptance, results)'
      BY <2>1, <3>2, VerdictAgrees DEF AcceptanceAgrees, Accepted
    <3>4. QED
      BY <2>1, <2>2, <2>5, <3>2, <3>3 DEF SoundSoFar
  <2>6. QED
    BY <2>1, <2>3, <2>4, <2>5 DEF PlanFits, PlannedWrites
<1>8. CASE AppendEvent
  <2>1. /\ pc = "event" /\ pc' = "checkpoint" /\ events' = AfterAppend(plan.event)
        /\ UNCHANGED <<directory, run, artifacts, results, interrupts>>
    BY <1>8 DEF AppendEvent, history
  <2>2. /\ ValidEvents(events) /\ artifacts = run.artifact_ids
        /\ AcceptanceAgrees(run.acceptance, results)
    BY <2>1 DEF SoundSoFar
  <2>3. plan.event \in Event /\ events \in Seq(Event)
    BY DEF TypeOK, Plan
  <2>4. ValidEvents(AfterAppend(plan.event))
    BY <2>2, <2>3, ValidAppend DEF PlannedLine
  <2>5. QED
    BY <2>1, <2>2, <2>4 DEF ValidEvents, Contains, AcceptanceAgrees, Accepted
<1>9. CASE WriteCheckpoint
  BY <1>9 DEF WriteCheckpoint, SoundSoFar, Hashes, files, history, ValidEvents,
              Contains, AcceptanceAgrees, Accepted
<1>10. CASE Interrupt \/ TearEvent
  BY <1>10 DEF Interrupt, TearEvent, TypeOK
<1>11. CASE AbandonCreate
  BY <1>11 DEF AbandonCreate, PlanFits, Unborn
<1>12. CASE UNCHANGED vars
  BY <1>12 DEF vars, disk, files, history, SoundSoFar, Hashes, ValidEvents,
               Contains, AcceptanceAgrees, Accepted
<1>13. QED
  BY <1>2, <1>3, <1>4, <1>5, <1>6, <1>7, <1>8, <1>9, <1>10, <1>11, <1>12
  DEF Next, Write, Stop

\* For every set of artifacts and results, and however long the history: an
\* update that ran to its end leaves a run that `recover` accepts.
THEOREM CompletedUpdates == Spec => []CompletedUpdateIsRecoverable
<1>1. Init => PlannedLine
  BY DEF Init, NoPlan, Created, Line, PlannedLine
<1>2. SoundSoFar => CompletedUpdateIsRecoverable
  BY DEF SoundSoFar, CompletedUpdateIsRecoverable, Recoverable, ArtifactsAgree
<1>3. QED
  BY <1>1, <1>2, Types, PlansFit, PlannedLineStep, SoundInitially, SoundStep, PTL
  DEF Spec

-----------------------------------------------------------------------------
(* A torn record_artifact.                                                 *)

\* The entries of artifacts.json that no operation is going to add to run.json.
Unlisted ==
  Len(artifacts) - Len(run.artifact_ids)
    - (IF pc = "run" /\ plan.op = "artifact" THEN 1 ELSE 0)

TornOrWhole == directory = "named" => Unlisted >= 0

\* A step either leaves the difference as it is, or strands one entry more: an
\* interrupted record_artifact, or one whose id run.json has already.
LEMMA UnlistedStep ==
  TypeOK /\ PlannedArtifact /\ PlanFits /\ directory = "named" /\ [Next]_vars =>
    Unlisted \in Int /\ (Unlisted' = Unlisted \/ Unlisted' = Unlisted + 1) /\ directory' = "named"
<1> SUFFICES ASSUME TypeOK, PlannedArtifact, PlanFits, directory = "named", [Next]_vars
             PROVE  /\ Unlisted \in Int /\ (Unlisted' = Unlisted \/ Unlisted' = Unlisted + 1)
                    /\ directory' = "named"
  OBVIOUS
<1>0. Len(artifacts) \in Nat /\ Len(run.artifact_ids) \in Nat /\ Unlisted \in Int
  BY DEF TypeOK, Manifest, Unlisted
<1>1. ASSUME NEW draft, NEW first, first \in {"publish", "data", "run"},
             Start(draft, first), first = "run" => draft.op = "transition"
      PROVE  Unlisted' = Unlisted /\ directory' = "named"
  BY <1>1, <1>0 DEF Start, disk, files, Unlisted
<1>2. CASE Begin
  <2>1. \A e, r : [Draft("transition", e) EXCEPT !.run = r].op = "transition"
    BY DEF Draft
  <2>2. Unlisted' = Unlisted /\ directory' = "named"
    BY <1>1, <1>2, <2>1
    DEF Begin, StageRun, BeginTransition, BeginArtifact, BeginProvenance, BeginAcceptance
  <2>3. QED
    BY <1>0, <2>2
<1>3. CASE WriteArtifacts
  <2>1. /\ pc = "data" /\ plan.op = "artifact"
        /\ UNCHANGED <<directory, run>>
        /\ pc' \in {"event", "run"}
    BY <1>3 DEF WriteArtifacts
  <2>2. artifacts' = Append(artifacts, plan.event.data)
    BY <1>3, <2>1 DEF WriteArtifacts, PlanFits, PlannedWrites
  <2>3. Len(artifacts') = Len(artifacts) + 1
    BY <2>2 DEF TypeOK
  <2>4. QED
    BY <1>0, <2>1, <2>3 DEF Unlisted
<1>4. CASE WriteResults
  BY <1>4, <1>0 DEF WriteResults, Unlisted
<1>5. CASE WriteManifest
  <2>1. /\ pc = "run" /\ pc' = "event" /\ run' = plan.run
        /\ UNCHANGED <<directory, artifacts, plan>>
        /\ plan.op \in {"transition", "artifact", "acceptance"}
    BY <1>5 DEF WriteManifest, PlanFits, PlannedWrites
  <2>2. CASE plan.op = "artifact"
    <3>1. run' = [run EXCEPT !.artifact_ids = Append(run.artifact_ids, plan.event.data)]
      BY <2>1, <2>2 DEF PlanFits, PlannedManifest
    <3>2. run \in Manifest /\ run.artifact_ids \in Seq(Artifacts)
      BY DEF TypeOK, Manifest
    <3>3. run'.artifact_ids = Append(run.artifact_ids, plan.event.data)
      BY <3>1, <3>2 DEF Manifest
    <3>4. Len(run'.artifact_ids) = Len(run.artifact_ids) + 1
      BY <3>2, <3>3
    <3>5. QED
      BY <1>0, <2>1, <2>2, <3>4 DEF Unlisted
  <2>3. CASE plan.op # "artifact"
    <3>1. run'.artifact_ids = run.artifact_ids
      BY <2>1, <2>3 DEF PlanFits, PlannedManifest, TypeOK, Manifest
    <3>2. QED
      BY <1>0, <2>1, <2>3, <3>1 DEF Unlisted
  <2>4. QED
    BY <2>2, <2>3
<1>6. CASE Interrupt
  BY <1>6, <1>0 DEF Interrupt, disk, files, Unlisted
<1>7. CASE /\ UNCHANGED <<directory, run, artifacts>>
           /\ pc # "run" /\ pc' # "run"
  BY <1>7, <1>0 DEF Unlisted
<1>8. CASE UNCHANGED vars
  BY <1>8, <1>0 DEF vars, disk, files, Unlisted
<1>9. QED
  BY <1>2, <1>3, <1>4, <1>5, <1>6, <1>7, <1>8
  DEF Next, Write, Stop, PublishRun, WriteProvenance, AppendEvent,
      WriteCheckpoint, TearEvent, AbandonCreate, files, PlanFits, Unborn

LEMMA TornOrWholeStep ==
  TypeOK /\ PlannedArtifact /\ PlanFits /\ TornOrWhole /\ [Next]_vars => TornOrWhole'
<1> SUFFICES ASSUME TypeOK, PlannedArtifact, PlanFits, TornOrWhole, [Next]_vars,
                    directory' = "named"
             PROVE  Unlisted' >= 0
  BY DEF TornOrWhole
<1>1. CASE directory = "named"
  BY <1>1, UnlistedStep DEF TornOrWhole
<1>2. CASE directory = "absent"
  <2>1. PublishRun
    BY <1>2
    DEF Next, Begin, Write, Stop, StageRun, BeginTransition, BeginArtifact,
        BeginProvenance, BeginAcceptance, Start, WriteArtifacts,
        WriteProvenance, WriteResults, WriteManifest, AppendEvent,
        WriteCheckpoint, Interrupt, TearEvent, AbandonCreate, vars, disk, files
  <2>2. artifacts' = <<>> /\ run'.artifact_ids = <<>> /\ pc' = "idle"
    BY <2>1 DEF PublishRun, NewManifest
  <2>3. QED
    BY <2>2 DEF Unlisted
<1>3. QED
  BY <1>1, <1>2 DEF TypeOK

\* Stranded entries stay stranded.
Stranded == directory = "named" /\ Unlisted > 0

\* A record_artifact that stopped between artifacts.json and run.json is beyond
\* repair: nothing the store does makes the run recoverable again.
THEOREM TearIsPermanent == Spec => ArtifactTearIsPermanent
<1> DEFINE Differ == pc = "idle" /\ Len(artifacts) # Len(run.artifact_ids)
           Inv == TypeOK /\ PlannedArtifact /\ PlanFits /\ TornOrWhole
<1>1. Init => TornOrWhole
  BY DEF Init, TornOrWhole
<1>2. Spec => []Inv
  BY <1>1, Types, PlansFit, TornOrWholeStep, PTL DEF Spec
<1>3. Inv /\ Differ => Stranded
  <2> SUFFICES ASSUME Inv, Differ PROVE Stranded
    OBVIOUS
  <2>1. CASE directory = "named"
    BY <2>1 DEF Stranded, TornOrWhole, Unlisted, TypeOK, Manifest
  <2>2. CASE directory = "absent"
    BY <2>2 DEF PlanFits, Unborn, NewManifest
  <2>3. QED
    BY <2>1, <2>2 DEF TypeOK
<1>4. Inv /\ Stranded /\ [Next]_vars => Stranded'
  BY UnlistedStep DEF Stranded
<1>5. Inv /\ Stranded => ~ Recoverable
  <2> SUFFICES ASSUME TypeOK, Stranded, Recoverable PROVE FALSE
    OBVIOUS
  <2>1. artifacts = run.artifact_ids
    BY DEF Recoverable, ArtifactsAgree
  <2>2. QED
    BY <2>1 DEF Stranded, Unlisted, TypeOK
<1>6. QED
  BY <1>2, <1>3, <1>4, <1>5, PTL DEF Spec, ArtifactTearIsPermanent
-----------------------------------------------------------------------------
(* The log explains the files.                                             *)

\* A line of another name changes nothing of what the log says.
LEMMA OtherLine ==
  ASSUME NEW log \in Seq(Event), NEW e \in Event, NEW name, e.event # name
  PROVE  /\ Logged(Append(log, e), name) = Logged(log, name)
         /\ \A i \in Logged(log, name) : Append(log, e)[i] = log[i]
<1>1. /\ DOMAIN log = 1 .. Len(log) /\ DOMAIN Append(log, e) = 1 .. Len(log) + 1
      /\ \A i \in 1 .. Len(log) : Append(log, e)[i] = log[i]
      /\ Append(log, e)[Len(log) + 1] = e
  OBVIOUS
<1>2. QED
  BY <1>1 DEF Logged

\* A line of the name is one more, and the last one.
LEMMA NewLine ==
  ASSUME NEW log \in Seq(Event), NEW e \in Event
  PROVE  /\ Logged(Append(log, e), e.event) = Logged(log, e.event) \cup {Len(log) + 1}
         /\ Append(log, e)[Len(log) + 1] = e
         /\ \A i \in Logged(log, e.event) :
              i \in 1 .. Len(log) /\ Append(log, e)[i] = log[i]
<1>1. /\ DOMAIN log = 1 .. Len(log) /\ DOMAIN Append(log, e) = 1 .. Len(log) + 1
      /\ \A i \in 1 .. Len(log) : Append(log, e)[i] = log[i]
      /\ Append(log, e)[Len(log) + 1] = e
  OBVIOUS
<1>2. QED
  BY <1>1 DEF Logged

LEMMA LastOfOther ==
  ASSUME NEW log \in Seq(Event), NEW e \in Event, NEW name, e.event # name,
         NEW value, NEW initial, LastLogged(log, name, value, initial)
  PROVE  LastLogged(Append(log, e), name, value, initial)
BY OtherLine DEF LastLogged

LEMMA LastOfNew ==
  ASSUME NEW log \in Seq(Event), NEW e \in Event, NEW initial
  PROVE  LastLogged(Append(log, e), e.event, e.data, initial)
<1>1. Len(log) + 1 \in Logged(Append(log, e), e.event)
      /\ e.data = Append(log, e)[Len(log) + 1].data
  BY NewLine
<1>2. \A j \in Logged(Append(log, e), e.event) : j <= Len(log) + 1
  BY NewLine
<1>3. QED
  BY <1>1, <1>2 DEF LastLogged

LEMMA OrderOfOther ==
  ASSUME NEW log \in Seq(Event), NEW e \in Event, NEW name, e.event # name,
         NEW values, LoggedInOrder(log, name, values)
  PROVE  LoggedInOrder(Append(log, e), name, values)
<1>1. /\ Logged(Append(log, e), name) = Logged(log, name)
      /\ \A i \in Logged(log, name) : Append(log, e)[i] = log[i]
  BY OtherLine
<1>2. PICK at \in [DOMAIN values -> Logged(log, name)] :
        /\ \A j, k \in DOMAIN values : j < k => at[j] < at[k]
        /\ \A i \in Logged(log, name) : \E k \in DOMAIN values : at[k] = i
        /\ \A k \in DOMAIN values : values[k] = log[at[k]].data
  BY DEF LoggedInOrder
<1>3. \A k \in DOMAIN values : at[k] \in Logged(log, name)
  BY <1>2
<1>4. at \in [DOMAIN values -> Logged(Append(log, e), name)]
  BY <1>1, <1>2
<1>5. \A i \in Logged(Append(log, e), name) : \E k \in DOMAIN values : at[k] = i
  BY <1>1, <1>2, Zenon
<1>6. \A k \in DOMAIN values : values[k] = Append(log, e)[at[k]].data
  BY <1>1, <1>2, <1>3, Zenon
<1>7. QED
  BY <1>2, <1>4, <1>5, <1>6, Zenon DEF LoggedInOrder

LEMMA OrderOfNew ==
  ASSUME NEW log \in Seq(Event), NEW e \in Event, NEW S, NEW values \in Seq(S), e.data \in S,
         LoggedInOrder(log, e.event, values)
  PROVE  LoggedInOrder(Append(log, e), e.event, Append(values, e.data))
<1> DEFINE n == Len(values)
           longer == Append(log, e)
           more == Append(values, e.data)
<1>1. /\ n \in Nat /\ DOMAIN values = 1 .. n /\ DOMAIN more = 1 .. n + 1
      /\ more[n + 1] = e.data /\ \A k \in 1 .. n : more[k] = values[k]
  OBVIOUS
<1>2. /\ Logged(longer, e.event) = Logged(log, e.event) \cup {Len(log) + 1}
      /\ longer[Len(log) + 1] = e
      /\ \A i \in Logged(log, e.event) : i \in 1 .. Len(log) /\ longer[i] = log[i]
  BY NewLine
<1> HIDE DEF n, longer, more
<1>3. PICK at \in [1 .. n -> Logged(log, e.event)] :
        /\ \A j, k \in 1 .. n : j < k => at[j] < at[k]
        /\ \A i \in Logged(log, e.event) : \E k \in 1 .. n : at[k] = i
        /\ \A k \in 1 .. n : values[k] = log[at[k]].data
  <2>1. DOMAIN values = 1 .. n
    BY <1>1
  <2>2. QED
    BY <2>1, Zenon DEF LoggedInOrder
<1> DEFINE to == [k \in 1 .. n + 1 |-> IF k = n + 1 THEN Len(log) + 1 ELSE at[k]]
<1>4. /\ to[n + 1] = Len(log) + 1
      /\ \A k \in 1 .. n : to[k] = at[k] /\ at[k] \in 1 .. Len(log)
                           /\ at[k] \in Logged(log, e.event)
  BY <1>1, <1>2, <1>3
<1>5. to \in [1 .. n + 1 -> Logged(longer, e.event)]
  BY <1>1, <1>2, <1>3
<1> HIDE DEF to
<1>6. \A k \in 1 .. n + 1 : k \in 1 .. n \/ k = n + 1
  BY <1>1
<1>7. \A j, k \in 1 .. n + 1 : j < k => to[j] < to[k]
  <2> SUFFICES ASSUME NEW j \in 1 .. n + 1, NEW k \in 1 .. n + 1, j < k
               PROVE  to[j] < to[k]
    OBVIOUS
  <2>1. j \in 1 .. n
    BY <1>1
  <2>2. CASE k = n + 1
    BY <1>4, <2>1, <2>2
  <2>3. CASE k \in 1 .. n
    BY <1>3, <1>4, <2>1, <2>3
  <2>4. QED
    BY <1>6, <2>2, <2>3
<1>8. \A i \in Logged(longer, e.event) : \E k \in 1 .. n + 1 : to[k] = i
  <2> SUFFICES ASSUME NEW i \in Logged(longer, e.event)
               PROVE  \E k \in 1 .. n + 1 : to[k] = i
    OBVIOUS
  <2>1. CASE i = Len(log) + 1
    BY <1>1, <1>4, <2>1
  <2>2. CASE i \in Logged(log, e.event)
    <3>1. PICK k \in 1 .. n : at[k] = i
      BY <1>3, <2>2
    <3>2. k \in 1 .. n + 1 /\ to[k] = i
      BY <1>1, <1>4, <3>1
    <3>3. QED
      BY <3>2
  <2>3. QED
    BY <1>2, <2>1, <2>2
<1>9. \A k \in 1 .. n + 1 : more[k] = longer[to[k]].data
  <2> SUFFICES ASSUME NEW k \in 1 .. n + 1 PROVE more[k] = longer[to[k]].data
    OBVIOUS
  <2>1. CASE k \in 1 .. n
    <3>1. to[k] = at[k] /\ longer[at[k]] = log[at[k]]
      BY <1>2, <1>4, <2>1, Zenon
    <3>2. more[k] = values[k] /\ values[k] = log[at[k]].data
      BY <1>1, <1>3, <2>1, Zenon
    <3>3. QED
      BY <3>1, <3>2, Zenon
  <2>2. CASE k = n + 1
    BY <1>1, <1>2, <1>4, <2>2
  <2>3. QED
    BY <1>6, <2>1, <2>2
<1>10. LoggedInOrder(longer, e.event, more)
  <2>1. DOMAIN more = 1 .. n + 1
    BY <1>1
  <2>2. /\ to \in [DOMAIN more -> Logged(longer, e.event)]
        /\ \A j, k \in DOMAIN more : j < k => to[j] < to[k]
        /\ \A i \in Logged(longer, e.event) : \E k \in DOMAIN more : to[k] = i
        /\ \A k \in DOMAIN more : more[k] = longer[to[k]].data
    <3>1. to \in [DOMAIN more -> Logged(longer, e.event)]
      BY <2>1, <1>5, Zenon
    <3>2. \A j, k \in DOMAIN more : j < k => to[j] < to[k]
      BY <2>1, <1>7, Zenon
    <3>3. \A i \in Logged(longer, e.event) : \E k \in DOMAIN more : to[k] = i
      BY <2>1, <1>8, Zenon
    <3>4. \A k \in DOMAIN more : more[k] = longer[to[k]].data
      BY <2>1, <1>9, Zenon
    <3>5. QED
      BY <3>1, <3>2, <3>3, <3>4
  <2>3. QED
    BY <2>2, Zenon DEF LoggedInOrder
<1>11. QED
  BY <1>10 DEF longer, more

LEMMA CountOfNew ==
  ASSUME NEW log \in Seq(Event), NEW e \in Event
  PROVE  /\ Cardinality(Logged(log, e.event)) \in Nat
         /\ Cardinality(Logged(Append(log, e), e.event))
              = Cardinality(Logged(log, e.event)) + 1
<1>1. /\ Logged(Append(log, e), e.event) = Logged(log, e.event) \cup {Len(log) + 1}
      /\ Len(log) + 1 \notin Logged(log, e.event)
      /\ Logged(log, e.event) \subseteq 1 .. Len(log)
  BY NewLine
<1>2. Len(log) \in Nat /\ IsFiniteSet(1 .. Len(log))
  BY FS_Interval
<1>3. IsFiniteSet(Logged(log, e.event))
  BY <1>1, <1>2, FS_Subset
<1>4. QED
  BY <1>1, <1>3, FS_AddElement, FS_CardinalityType

-----------------------------------------------------------------------------
\* The log, the line of an operation under way included, and what that operation
\* will have made of the files.
Log == IF pc \in {"data", "run", "event"} THEN Append(events, plan.event) ELSE events
ExecutionDue ==
  IF pc = "run" /\ plan.op = "transition" THEN plan.run.execution ELSE run.execution
AcceptanceDue ==
  IF pc \in {"data", "run"} /\ plan.op = "acceptance" THEN plan.run.acceptance
  ELSE run.acceptance
ArtifactsDue ==
  IF pc = "data" /\ plan.op = "artifact" THEN plan.artifacts ELSE artifacts
ProvenanceDue ==
  IF pc = "data" /\ plan.op = "provenance" THEN plan.provenance ELSE provenance

ExplainedWhenDone ==
  directory = "named" /\ interrupts = 0 =>
    /\ ~ Contains(events, Torn)
    /\ Explains(Log, ExecutionDue, AcceptanceDue, ArtifactsDue, ProvenanceDue)

\* The log of a new run explains it.
LEMMA CreatedExplains ==
  Explains(<<Created>>, "planned", "pending", <<>>, 0) /\ ~ Contains(<<Created>>, Torn)
<1> DEFINE names == {"execution_transition", "acceptance_recorded",
                     "artifact_recorded", "provenance_recorded"}
<1>1. \A name \in names : Logged(<<Created>>, name) = {}
  BY DEF Logged, Created, Line
<1>2. Cardinality({}) = 0
  BY FS_EmptySet
<1>3. LoggedInOrder(<<Created>>, "artifact_recorded", <<>>)
  <2>1. [i \in {} |-> 0] \in [DOMAIN <<>> -> Logged(<<Created>>, "artifact_recorded")]
    OBVIOUS
  <2>2. QED
    BY <1>1, <2>1 DEF LoggedInOrder
<1>4. ~ Contains(<<Created>>, Torn)
  BY DEF Contains, Created, Torn, Line
<1>5. QED
  BY <1>1, <1>2, <1>3, <1>4 DEF Explains, LastLogged

\* What each line adds to what the log explains.
LEMMA LineExplains ==
  ASSUME NEW log \in Seq(Event), NEW execution, NEW acceptance,
         NEW ids \in Seq(Artifacts), NEW records,
         Explains(log, execution, acceptance, ids, records)
  PROVE  /\ \A t \in ExecutionStatus :
              Explains(Append(log, Line("execution_transition", t)), t, acceptance, ids, records)
         /\ \A s \in AcceptanceStatus :
              Explains(Append(log, Line("acceptance_recorded", s)), execution, s, ids, records)
         /\ \A a \in Artifacts :
              Explains(Append(log, Line("artifact_recorded", a)),
                       execution, acceptance, Append(ids, a), records)
         /\ Explains(Append(log, Line("provenance_recorded", "none")),
                     execution, acceptance, ids, records + 1)
<1>1. /\ LastLogged(log, "execution_transition", execution, "planned")
      /\ LastLogged(log, "acceptance_recorded", acceptance, "pending")
      /\ LoggedInOrder(log, "artifact_recorded", ids)
      /\ records = Cardinality(Logged(log, "provenance_recorded"))
  BY DEF Explains
<1>2. ASSUME NEW t \in ExecutionStatus
      PROVE  Explains(Append(log, Line("execution_transition", t)), t, acceptance, ids, records)
  <2> DEFINE e == Line("execution_transition", t)
  <2>1. e \in Event /\ e.event = "execution_transition" /\ e.data = t
    BY LinesType DEF Line
  <2> HIDE DEF e
  <2>2. LastLogged(Append(log, e), "execution_transition", t, "planned")
    BY <2>1, LastOfNew
  <2>3. LastLogged(Append(log, e), "acceptance_recorded", acceptance, "pending")
    BY <1>1, <2>1, LastOfOther
  <2>4. LoggedInOrder(Append(log, e), "artifact_recorded", ids)
    BY <1>1, <2>1, OrderOfOther
  <2>5. records = Cardinality(Logged(Append(log, e), "provenance_recorded"))
    BY <1>1, <2>1, OtherLine
  <2>6. QED
    BY <2>2, <2>3, <2>4, <2>5 DEF Explains, e
<1>3. ASSUME NEW s \in AcceptanceStatus
      PROVE  Explains(Append(log, Line("acceptance_recorded", s)), execution, s, ids, records)
  <2> DEFINE e == Line("acceptance_recorded", s)
  <2>1. e \in Event /\ e.event = "acceptance_recorded" /\ e.data = s
    BY LinesType DEF Line
  <2> HIDE DEF e
  <2>2. LastLogged(Append(log, e), "execution_transition", execution, "planned")
    BY <1>1, <2>1, LastOfOther
  <2>3. LastLogged(Append(log, e), "acceptance_recorded", s, "pending")
    BY <2>1, LastOfNew
  <2>4. LoggedInOrder(Append(log, e), "artifact_recorded", ids)
    BY <1>1, <2>1, OrderOfOther
  <2>5. records = Cardinality(Logged(Append(log, e), "provenance_recorded"))
    BY <1>1, <2>1, OtherLine
  <2>6. QED
    BY <2>2, <2>3, <2>4, <2>5 DEF Explains, e
<1>4. ASSUME NEW a \in Artifacts
      PROVE  Explains(Append(log, Line("artifact_recorded", a)),
                      execution, acceptance, Append(ids, a), records)
  <2> DEFINE e == Line("artifact_recorded", a)
  <2>1. e \in Event /\ e.event = "artifact_recorded" /\ e.data = a
    BY LinesType DEF Line
  <2> HIDE DEF e
  <2>2. LastLogged(Append(log, e), "execution_transition", execution, "planned")
    BY <1>1, <2>1, LastOfOther
  <2>3. LastLogged(Append(log, e), "acceptance_recorded", acceptance, "pending")
    BY <1>1, <2>1, LastOfOther
  <2>4. LoggedInOrder(Append(log, e), "artifact_recorded", Append(ids, a))
    <3>1. LoggedInOrder(log, e.event, ids) /\ e.data \in Artifacts
      BY <1>1, <2>1
    <3>2. LoggedInOrder(Append(log, e), e.event, Append(ids, e.data))
      BY <2>1, <3>1, OrderOfNew
    <3>3. QED
      BY <2>1, <3>2
  <2>5. records = Cardinality(Logged(Append(log, e), "provenance_recorded"))
    BY <1>1, <2>1, OtherLine
  <2>6. QED
    BY <2>2, <2>3, <2>4, <2>5 DEF Explains, e
<1>5. Explains(Append(log, Line("provenance_recorded", "none")),
               execution, acceptance, ids, records + 1)
  <2> DEFINE e == Line("provenance_recorded", "none")
  <2>1. e \in Event /\ e.event = "provenance_recorded"
    BY LinesType DEF Line
  <2> HIDE DEF e
  <2>2. LastLogged(Append(log, e), "execution_transition", execution, "planned")
    BY <1>1, <2>1, LastOfOther
  <2>3. LastLogged(Append(log, e), "acceptance_recorded", acceptance, "pending")
    BY <1>1, <2>1, LastOfOther
  <2>4. LoggedInOrder(Append(log, e), "artifact_recorded", ids)
    BY <1>1, <2>1, OrderOfOther
  <2>5. records + 1 = Cardinality(Logged(Append(log, e), "provenance_recorded"))
    BY <1>1, <2>1, CountOfNew
  <2>6. QED
    BY <2>2, <2>3, <2>4, <2>5 DEF Explains, e
<1>6. QED
  BY <1>2, <1>3, <1>4, <1>5

-----------------------------------------------------------------------------
\* A step that changes neither the log nor what the files are due to be.
LEMMA SameDue ==
  ASSUME ExplainedWhenDone, directory' = directory, interrupts' = interrupts,
         UNCHANGED events, directory = "named" /\ interrupts = 0 =>
           UNCHANGED <<Log, ExecutionDue, AcceptanceDue, ArtifactsDue, ProvenanceDue>>
  PROVE  ExplainedWhenDone'
BY DEF ExplainedWhenDone

\* What an operation has planned is what its line will explain.
LEMMA BeginExplains ==
  ASSUME TypeOK, ExplainedWhenDone, PlanFits, Begin
  PROVE  ExplainedWhenDone'
<1>1. /\ pc = "idle" /\ UNCHANGED <<directory, interrupts, events, run, artifacts, provenance>>
  BY DEF Begin, StageRun, BeginTransition, BeginArtifact, BeginProvenance, BeginAcceptance,
         Start, disk, files, history
<1>2. /\ events \in Seq(Event) /\ run \in Manifest /\ artifacts \in Seq(Artifacts)
  BY DEF TypeOK
<1>3. SUFFICES ASSUME directory = "named", interrupts = 0
               PROVE  Explains(Log, ExecutionDue, AcceptanceDue, ArtifactsDue, ProvenanceDue)'
  BY <1>1 DEF ExplainedWhenDone
<1>4. Explains(events, run.execution, run.acceptance, artifacts, provenance)
  BY <1>1, <1>3 DEF ExplainedWhenDone, Log, ExecutionDue, AcceptanceDue, ArtifactsDue, ProvenanceDue
<1>5. /\ \A t \in ExecutionStatus :
           Explains(Append(events, Line("execution_transition", t)),
                    t, run.acceptance, artifacts, provenance)
      /\ \A s \in AcceptanceStatus :
           Explains(Append(events, Line("acceptance_recorded", s)),
                    run.execution, s, artifacts, provenance)
      /\ \A a \in Artifacts :
           Explains(Append(events, Line("artifact_recorded", a)),
                    run.execution, run.acceptance, Append(artifacts, a), provenance)
      /\ Explains(Append(events, Line("provenance_recorded", "none")),
                  run.execution, run.acceptance, artifacts, provenance + 1)
  BY <1>2, <1>4, LineExplains
<1>6. ~ StageRun
  BY <1>3 DEF StageRun
<1>7. ASSUME NEW target \in ExecutionStatus, BeginTransition(target)
      PROVE  Explains(Log, ExecutionDue, AcceptanceDue, ArtifactsDue, ProvenanceDue)'
  <2>1. /\ pc' = "run" /\ plan'.op = "transition"
        /\ plan'.event = Line("execution_transition", target)
        /\ plan'.run = [run EXCEPT !.execution = target]
    BY <1>7 DEF BeginTransition, Start, Draft
  <2>2. plan'.run.execution = target
    BY <1>2, <2>1 DEF Manifest
  <2>3. /\ Log' = Append(events, Line("execution_transition", target))
        /\ ExecutionDue' = target /\ AcceptanceDue' = run.acceptance
        /\ ArtifactsDue' = artifacts /\ ProvenanceDue' = provenance
    BY <1>1, <2>1, <2>2 DEF Log, ExecutionDue, AcceptanceDue, ArtifactsDue, ProvenanceDue
  <2>4. QED
    BY <1>5, <2>3
<1>8. ASSUME NEW a \in Artifacts, BeginArtifact(a)
      PROVE  Explains(Log, ExecutionDue, AcceptanceDue, ArtifactsDue, ProvenanceDue)'
  <2>1. /\ pc' = "data" /\ plan'.op = "artifact"
        /\ plan'.event = Line("artifact_recorded", a)
        /\ plan'.artifacts = Append(artifacts, a)
    BY <1>8 DEF BeginArtifact, Start, Draft
  <2>2. /\ Log' = Append(events, Line("artifact_recorded", a))
        /\ ExecutionDue' = run.execution /\ AcceptanceDue' = run.acceptance
        /\ ArtifactsDue' = Append(artifacts, a) /\ ProvenanceDue' = provenance
    BY <1>1, <2>1 DEF Log, ExecutionDue, AcceptanceDue, ArtifactsDue, ProvenanceDue
  <2>3. QED
    BY <1>5, <2>2
<1>9. ASSUME BeginProvenance
      PROVE  Explains(Log, ExecutionDue, AcceptanceDue, ArtifactsDue, ProvenanceDue)'
  <2>1. /\ pc' = "data" /\ plan'.op = "provenance"
        /\ plan'.event = Line("provenance_recorded", "none")
        /\ plan'.provenance = provenance + 1
    BY <1>9 DEF BeginProvenance, Start, Draft
  <2>2. /\ Log' = Append(events, Line("provenance_recorded", "none"))
        /\ ExecutionDue' = run.execution /\ AcceptanceDue' = run.acceptance
        /\ ArtifactsDue' = artifacts /\ ProvenanceDue' = provenance + 1
    BY <1>1, <2>1 DEF Log, ExecutionDue, AcceptanceDue, ArtifactsDue, ProvenanceDue
  <2>3. QED
    BY <1>5, <2>2
<1>10. ASSUME NEW batch \in SUBSET Results, BeginAcceptance(batch)
       PROVE  Explains(Log, ExecutionDue, AcceptanceDue, ArtifactsDue, ProvenanceDue)'
  <2>1. /\ pc' = "data" /\ plan'.op = "acceptance"
        /\ plan'.event = Line("acceptance_recorded", Verdict(batch))
        /\ plan'.run = [run EXCEPT !.acceptance = Verdict(batch)]
    BY <1>10 DEF BeginAcceptance, Start, Draft
  <2>2. plan'.run.acceptance = Verdict(batch) /\ Verdict(batch) \in AcceptanceStatus
    BY <1>2, <2>1, VerdictType DEF Manifest
  <2>3. /\ Log' = Append(events, Line("acceptance_recorded", Verdict(batch)))
        /\ ExecutionDue' = run.execution /\ AcceptanceDue' = Verdict(batch)
        /\ ArtifactsDue' = artifacts /\ ProvenanceDue' = provenance
    BY <1>1, <2>1, <2>2 DEF Log, ExecutionDue, AcceptanceDue, ArtifactsDue, ProvenanceDue
  <2>4. QED
    BY <1>5, <2>2, <2>3
<1>11. QED
  BY <1>6, <1>7, <1>8, <1>9, <1>10 DEF Begin

LEMMA ExplainedStep ==
  TypeOK /\ PlannedLine /\ PlanFits /\ ExplainedWhenDone /\ [Next]_vars => ExplainedWhenDone'
<1> SUFFICES ASSUME TypeOK, PlannedLine, PlanFits, ExplainedWhenDone, [Next]_vars
             PROVE  ExplainedWhenDone'
  OBVIOUS
<1> USE DEF Log, ExecutionDue, AcceptanceDue, ArtifactsDue, ProvenanceDue
<1>1. CASE Begin
  BY <1>1, BeginExplains
<1>2. CASE PublishRun
  <2>1. /\ events' = <<Created>> /\ run' = NewManifest /\ artifacts' = <<>>
        /\ provenance' = 0 /\ pc' = "idle"
    BY <1>2 DEF PublishRun
  <2>2. QED
    BY <2>1, CreatedExplains DEF ExplainedWhenDone, NewManifest
<1>3. CASE WriteArtifacts
  <2>1. /\ pc = "data" /\ plan.op = "artifact" /\ artifacts' = plan.artifacts
        /\ pc' \in {"event", "run"} /\ plan'.op = plan.op /\ plan'.event = plan.event
        /\ UNCHANGED <<directory, interrupts, run, provenance, events>>
    BY <1>3 DEF WriteArtifacts, TypeOK, Plan, history
  <2>2. UNCHANGED <<Log, ExecutionDue, AcceptanceDue, ArtifactsDue, ProvenanceDue>>
    BY <2>1
  <2>3. QED
    BY <2>1, <2>2, SameDue
<1>4. CASE WriteProvenance
  <2>1. /\ UNCHANGED <<Log, ExecutionDue, AcceptanceDue, ArtifactsDue, ProvenanceDue>>
        /\ UNCHANGED <<directory, interrupts, events>>
    BY <1>4 DEF WriteProvenance, history
  <2>2. QED
    BY <2>1, SameDue
<1>5. CASE WriteResults
  <2>1. /\ UNCHANGED <<Log, ExecutionDue, AcceptanceDue, ArtifactsDue, ProvenanceDue>>
        /\ UNCHANGED <<directory, interrupts, events>>
    BY <1>5 DEF WriteResults
  <2>2. QED
    BY <2>1, SameDue
<1>6. CASE WriteManifest
  <2>1. /\ pc = "run" /\ pc' = "event" /\ run' = plan.run
        /\ UNCHANGED <<directory, interrupts, events, artifacts, provenance, plan>>
    BY <1>6 DEF WriteManifest, history
  <2>2. /\ plan.op # "transition" => plan.run.execution = run.execution
        /\ plan.op # "acceptance" => plan.run.acceptance = run.acceptance
    <3>1. plan.op \in {"transition", "artifact", "acceptance"}
      BY <2>1 DEF PlanFits, PlannedWrites
    <3>2. run \in Manifest
      BY DEF TypeOK
    <3>3. CASE plan.op = "transition"
      BY <2>1, <3>2, <3>3 DEF PlanFits, PlannedManifest, Manifest
    <3>4. CASE plan.op = "artifact"
      BY <2>1, <3>2, <3>4 DEF PlanFits, PlannedManifest, Manifest
    <3>5. CASE plan.op = "acceptance"
      BY <2>1, <3>2, <3>5 DEF PlanFits, PlannedManifest, Manifest
    <3>6. QED
      BY <3>1, <3>3, <3>4, <3>5
  <2>3. UNCHANGED <<Log, ExecutionDue, AcceptanceDue, ArtifactsDue, ProvenanceDue>>
    BY <2>1, <2>2
  <2>4. QED
    BY <2>1, <2>3, SameDue
<1>7. CASE AppendEvent
  <2>1. /\ pc = "event" /\ pc' = "checkpoint" /\ events' = AfterAppend(plan.event)
        /\ UNCHANGED <<directory, interrupts, run, artifacts, provenance>>
    BY <1>7 DEF AppendEvent, history
  <2>2. SUFFICES ASSUME directory = "named", interrupts = 0
                 PROVE  /\ ~ Contains(events', Torn)
                        /\ Explains(events', run.execution, run.acceptance, artifacts, provenance)
    BY <2>1 DEF ExplainedWhenDone
  <2>3. /\ ~ Contains(events, Torn)
        /\ Explains(Append(events, plan.event), run.execution, run.acceptance,
                    artifacts, provenance)
    BY <2>1, <2>2 DEF ExplainedWhenDone
  <2>4. events' = Append(events, plan.event)
    BY <2>1, <2>3 DEF AfterAppend
  <2>5. ~ Contains(events', Torn)
    <3>1. plan.event # Torn /\ events \in Seq(Event) /\ plan.event \in Event
      BY DEF PlannedLine, Torn, Line, TypeOK, Plan
    <3>2. QED
      BY <2>3, <2>4, <3>1 DEF Contains
  <2>6. QED
    BY <2>3, <2>4, <2>5
<1>8. CASE WriteCheckpoint
  <2>1. /\ UNCHANGED <<Log, ExecutionDue, AcceptanceDue, ArtifactsDue, ProvenanceDue>>
        /\ UNCHANGED <<directory, interrupts, events>>
    BY <1>8 DEF WriteCheckpoint, files, history
  <2>2. QED
    BY <2>1, SameDue
<1>9. CASE Interrupt \/ TearEvent
  <2>1. interrupts' # 0
    BY <1>9 DEF Interrupt, TearEvent, TypeOK
  <2>2. QED
    BY <2>1 DEF ExplainedWhenDone
<1>10. CASE AbandonCreate
  BY <1>10 DEF AbandonCreate, PlanFits, Unborn, ExplainedWhenDone
<1>11. CASE UNCHANGED vars
  <2>1. /\ UNCHANGED <<Log, ExecutionDue, AcceptanceDue, ArtifactsDue, ProvenanceDue>>
        /\ UNCHANGED <<directory, interrupts, events>>
    BY <1>11 DEF vars, disk, files, history
  <2>2. QED
    BY <2>1, SameDue
<1>12. QED
  BY <1>1, <1>2, <1>3, <1>4, <1>5, <1>6, <1>7, <1>8, <1>9, <1>10, <1>11
  DEF Next, Write, Stop

\* Between updates none of which was interrupted, the log explains every other
\* file: each change is logged, each logged change was made, in that order.
THEOREM LogIsComplete == Spec => []UninterruptedLogIsComplete
<1>1. Init => PlannedLine /\ ExplainedWhenDone
  BY DEF Init, NoPlan, Created, Line, PlannedLine, ExplainedWhenDone
<1>2. ExplainedWhenDone => UninterruptedLogIsComplete
  BY DEF ExplainedWhenDone, UninterruptedLogIsComplete, LogExplainsFiles, Log,
         ExecutionDue, AcceptanceDue, ArtifactsDue, ProvenanceDue
<1>3. QED
  BY <1>1, <1>2, Types, PlansFit, PlannedLineStep, ExplainedStep, PTL DEF Spec

-----------------------------------------------------------------------------
\* Judging again heals what interrupted judgements have left: at the checkpoint
\* the results are those of the judgement, and run.json has their verdict.
JudgedAgain ==
  pc \in {"event", "checkpoint"} /\ plan.op = "acceptance" =>
    results = plan.results /\ run.acceptance = Verdict(plan.results)

LEMMA JudgedAgainStep == TypeOK /\ PlanFits /\ JudgedAgain /\ [Next]_vars => JudgedAgain'
<1> SUFFICES ASSUME TypeOK, PlanFits, JudgedAgain, [Next]_vars PROVE JudgedAgain'
  OBVIOUS
<1>1. CASE Begin
  BY <1>1 DEF Begin, StageRun, BeginTransition, BeginArtifact, BeginProvenance,
              BeginAcceptance, Start, JudgedAgain
<1>2. CASE WriteManifest
  <2>1. /\ pc = "run" /\ run' = plan.run /\ UNCHANGED <<plan, results>>
    BY <1>2 DEF WriteManifest
  <2>2. SUFFICES ASSUME plan.op = "acceptance"
                 PROVE  results = plan.results /\ plan.run.acceptance = Verdict(plan.results)
    BY <2>1 DEF JudgedAgain, Verdict, Accepted
  <2>3. run \in Manifest /\ plan.run = [run EXCEPT !.acceptance = Verdict(plan.results)]
    BY <2>1, <2>2 DEF TypeOK, PlanFits, PlannedManifest
  <2>4. QED
    BY <2>1, <2>2, <2>3 DEF PlanFits, PlannedWrites, Manifest
<1>3. CASE WriteArtifacts
  <2>1. plan'.op = "artifact"
    BY <1>3 DEF WriteArtifacts, TypeOK, Plan
  <2>2. QED
    BY <2>1 DEF JudgedAgain
<1>4. CASE WriteProvenance
  BY <1>4 DEF WriteProvenance, JudgedAgain
<1>5. CASE WriteResults
  BY <1>5 DEF WriteResults, JudgedAgain
<1>6. CASE AppendEvent
  BY <1>6 DEF AppendEvent, JudgedAgain, Verdict, Accepted
<1>7. CASE pc' = "idle"
  BY <1>7 DEF JudgedAgain
<1>8. CASE UNCHANGED vars
  BY <1>8 DEF vars, disk, files, JudgedAgain, Verdict, Accepted
<1>9. QED
  BY <1>1, <1>2, <1>3, <1>4, <1>5, <1>6, <1>7, <1>8
  DEF Next, Write, Stop, PublishRun, WriteCheckpoint, Interrupt, TearEvent, AbandonCreate

\* The checkpoint of any record_acceptance makes the run recoverable, whatever
\* interrupted updates left in run.json and acceptance.json before it.
THEOREM JudgingHeals == Spec => RejudgingHeals
<1>1. Init => JudgedAgain
  BY DEF Init, JudgedAgain
<1>2. TypeOK /\ PlanFits /\ JudgedAgain /\ [Next]_vars =>
        [WriteCheckpoint /\ plan.op = "acceptance" /\ ValidEvents(events)
           /\ ArtifactsAgree(run.artifact_ids, artifacts) => Recoverable']_vars
  <2> SUFFICES ASSUME PlanFits, JudgedAgain, WriteCheckpoint, plan.op = "acceptance",
                      ValidEvents(events), ArtifactsAgree(run.artifact_ids, artifacts), TypeOK
               PROVE  Recoverable'
    OBVIOUS
  <2>1. /\ pc = "checkpoint" /\ checkpoint' = Hashes
        /\ UNCHANGED <<directory, run, artifacts, provenance, results, events>>
    BY DEF WriteCheckpoint, files
  <2>2. directory = "named" /\ Hashes' = Hashes
    BY <2>1 DEF PlanFits, Unborn, TypeOK, Hashes
  <2>3. results = plan.results /\ run.acceptance = Verdict(plan.results)
    BY <2>1 DEF JudgedAgain
  <2>4. AcceptanceAgrees(run.acceptance, results)
    BY <2>3, VerdictAgrees
  <2>5. QED
    BY <2>1, <2>2, <2>4
       DEF Recoverable, ValidEvents, ArtifactsAgree, AcceptanceAgrees, Accepted,
           Contains, IsInjective
<1>3. QED
  BY <1>1, <1>2, Types, PlansFit, JudgedAgainStep, PTL DEF Spec, RejudgingHeals
=============================================================================
