------------------------------- MODULE RunStore -------------------------------
(***************************************************************************)
(* The run store of runtime/store.py: one run directory, the single writer *)
(* that updates it file by file, and what `recover` makes of the files.    *)
(*                                                                         *)
(* A file write is atomic (a temporary file that replaces the target); an  *)
(* update is several of them, and the writer may stop between any two: an  *)
(* exception from a write, or the end of the process.  The store keeps no  *)
(* memory of its own between operations, so both leave the same state.     *)
(* The SHA-256 of a file is modelled by its content: two contents have the *)
(* same hash exactly when they are equal.  inputs.json never changes after *)
(* creation and is left out, as are the time stamps.                       *)
(***************************************************************************)
EXTENDS Naturals, Sequences, FiniteSets, SequencesExt

CONSTANTS
  Artifacts,       \* the stable ids of artifact records
  Results,         \* the acceptance results a caller may report
  Passing,         \* those of them with passed = true
  MaxArtifacts,    \* bound: entries of artifacts.json
  MaxProvenance,   \* bound: entries of provenance.json
  MaxEvents,       \* bound: lines of events.jsonl
  MaxInterrupts    \* bound: updates that stop before their checkpoint

ASSUME PassingAssumption == Passing \subseteq Results
ASSUME BoundsAssumption ==
  /\ MaxArtifacts \in Nat /\ MaxProvenance \in Nat
  /\ MaxEvents \in Nat /\ MaxInterrupts \in Nat

VARIABLES
  directory,     \* "absent" or "named": the run directory under runs/
  leftover,      \* a staging directory of an interrupted creation exists
  run,           \* run.json: the manifest
  artifacts,     \* artifacts.json: the stable ids, in order
  provenance,    \* provenance.json: the number of records
  results,       \* acceptance.json: the results last written
  events,        \* events.jsonl: its lines
  checkpoint,    \* checkpoint.json: the hashed contents of the other files
  pc,            \* the write the store does next, or "idle"
  plan,          \* what the operation under way has computed and will write
  interrupts,    \* history: the updates that stopped before their checkpoint
  reported       \* history: the verdict of the results last written

files == <<run, artifacts, provenance, results, events>>
disk == <<directory, leftover, files, checkpoint>>
history == <<interrupts, reported>>
vars == <<disk, pc, plan, history>>

-----------------------------------------------------------------------------
(* The contents of the files.                                              *)

ExecutionStatus == {"planned", "running", "succeeded", "failed", "cancelled"}
AcceptanceStatus == {"pending", "accepted", "rejected"}

\* Mutant: a failed run may be started again.
RestartableTransitions ==
  [s \in ExecutionStatus |->
     CASE s \in {"planned", "failed"} -> {"running", "cancelled"}
       [] s = "running" -> {"succeeded", "failed", "cancelled"}
       [] OTHER         -> {}]

EXECUTION_TRANSITIONS ==
  [s \in ExecutionStatus |->
     CASE s = "planned" -> {"running", "cancelled"}
       [] s = "running" -> {"succeeded", "failed", "cancelled"}
       [] OTHER         -> {}]

Manifest == [execution : ExecutionStatus,
             acceptance : AcceptanceStatus,
             artifact_ids : Seq(Artifacts)]

NewManifest == [execution |-> "planned", acceptance |-> "pending",
                artifact_ids |-> <<>>]

\* A line of events.jsonl: the name of the event and what its data says.
Line(name, data) == [event |-> name, data |-> data]

Event == [event : {"run_created", "execution_transition", "artifact_recorded",
                   "provenance_recorded", "acceptance_recorded", "torn"},
          data : ExecutionStatus \cup AcceptanceStatus \cup Artifacts \cup {"none"}]

Created == Line("run_created", "none")

\* A line of which only a proper prefix reached the disk.  The next line is
\* appended to the same, invalid, line.
Torn == Line("torn", "none")

AfterAppend(e) ==
  IF Contains(events, Torn) THEN events ELSE Append(events, e)

\* `accepted = bool(results) and all(result.passed for result in results)`
Accepted(batch) == batch # {} /\ batch \subseteq Passing

Verdict(batch) == IF Accepted(batch) THEN "accepted" ELSE "rejected"

-----------------------------------------------------------------------------
(* What `recover` decides.                                                 *)

Hashes == [run |-> run, artifacts |-> artifacts, provenance |-> provenance,
           results |-> results, events |-> events]

\* Mutant: `accepted` is not compared with the results.
UncheckedAcceptance(status, batch) ==
  /\ status = "pending" => batch = {}
  /\ status = "rejected" => ~ Accepted(batch)

\* The cross-file rules of _validate_structured_state for an acceptance
\* status and the results that stand beside it.
AcceptanceAgrees(status, batch) ==
  /\ status = "pending" => batch = {}
  /\ status = "accepted" => Accepted(batch)
  /\ status = "rejected" => ~ Accepted(batch)

ArtifactsAgree(ids, records) == IsInjective(records) /\ ids = records

ValidEvents(lines) ==
  lines # <<>> /\ ~ Contains(lines, Torn)

Recoverable ==
  /\ directory = "named"
  /\ checkpoint = Hashes
  /\ ValidEvents(events)
  /\ ArtifactsAgree(run.artifact_ids, artifacts)
  /\ AcceptanceAgrees(run.acceptance, results)

\* latest_trusted_run and ProjectRunView.trusted ask for all three.
Trusted ==
  Recoverable /\ run.execution = "succeeded" /\ run.acceptance = "accepted"

-----------------------------------------------------------------------------
(* The operations: what each computes from the files it loads ...          *)

\* The files as an operation found them, to be edited into what it writes.
Draft(op, event) ==
  [op |-> op, event |-> event, run |-> run, artifacts |-> artifacts,
   provenance |-> provenance, results |-> results]

NoPlan ==
  [op |-> "none", event |-> Created, run |-> NewManifest, artifacts |-> <<>>,
   provenance |-> 0, results |-> {}]

Init ==
  /\ directory = "absent" /\ leftover = FALSE
  /\ run = NewManifest /\ artifacts = <<>> /\ provenance = 0
  /\ results = {} /\ events = <<>> /\ checkpoint = Hashes
  /\ pc = "idle" /\ plan = NoPlan
  /\ interrupts = 0 /\ reported = "pending"

Start(draft, first) ==
  /\ pc = "idle" /\ pc' = first
  /\ plan' = draft
  /\ UNCHANGED <<disk, history>>

Ready == directory = "named" /\ Len(events) < MaxEvents

\* create: every file is written into a staging directory nobody else uses.
StageRun ==
  /\ directory = "absent"
  /\ Start([NoPlan EXCEPT !.op = "create"], "publish")

\* transition_execution
BeginTransition(target) ==
  /\ Ready
  /\ target \in EXECUTION_TRANSITIONS[run.execution]
  /\ Start([Draft("transition", Line("execution_transition", target))
              EXCEPT !.run = [run EXCEPT !.execution = target]],
           "run")

\* record_artifact, for an artifact whose file exists and has its hash.
BeginArtifact(a) ==
  /\ Ready /\ Len(artifacts) < MaxArtifacts
  /\ Start([Draft("artifact", Line("artifact_recorded", a))
              EXCEPT !.artifacts = Append(artifacts, a)],
           "data")

\* record_provenance
BeginProvenance ==
  /\ Ready /\ provenance < MaxProvenance
  /\ Start([Draft("provenance", Line("provenance_recorded", "none"))
              EXCEPT !.provenance = provenance + 1],
           "data")

\* Mutant: the event carries the status the manifest had before.
BeginStaleAcceptance(batch) ==
  /\ Ready /\ run.execution = "succeeded"
  /\ Start([Draft("acceptance", Line("acceptance_recorded", run.acceptance))
              EXCEPT !.results = batch,
                     !.run = [run EXCEPT !.acceptance = Verdict(batch)]],
           "data")

\* record_acceptance
BeginAcceptance(batch) ==
  /\ Ready /\ run.execution = "succeeded"
  /\ Start([Draft("acceptance", Line("acceptance_recorded", Verdict(batch)))
              EXCEPT !.results = batch,
                     !.run = [run EXCEPT !.acceptance = Verdict(batch)]],
           "data")

-----------------------------------------------------------------------------
(* ... and the writes, in the order of the code: the list file, run.json,  *)
(* the event, the checkpoint.                                              *)

PublishRun ==
  /\ pc = "publish"
  /\ directory' = "named"
  /\ run' = NewManifest /\ artifacts' = <<>> /\ provenance' = 0
  /\ results' = {} /\ events' = <<Created>> /\ checkpoint' = Hashes'
  /\ pc' = "idle" /\ plan' = NoPlan
  /\ UNCHANGED <<leftover, history>>

\* Mutant: the id is not added to the manifest.
WriteArtifactsOnly ==
  /\ pc = "data" /\ plan.op = "artifact"
  /\ artifacts' = plan.artifacts
  /\ pc' = "event"
  /\ UNCHANGED <<directory, leftover, run, provenance, results, events,
                 checkpoint, plan, history>>

\* Mutant: the ids of the manifest are derived from artifacts.json.
WriteArtifactsAndDeriveIds ==
  /\ pc = "data" /\ plan.op = "artifact"
  /\ artifacts' = plan.artifacts
  /\ pc' = "run"
  /\ plan' = [plan EXCEPT !.run = [run EXCEPT !.artifact_ids = plan.artifacts]]
  /\ UNCHANGED <<directory, leftover, run, provenance, results, events,
                 checkpoint, history>>

\* record_artifact loads the manifest only after artifacts.json is written,
\* and skips run.json when the id is already there.
WriteArtifacts ==
  /\ pc = "data" /\ plan.op = "artifact"
  /\ artifacts' = plan.artifacts
  /\ LET id == plan.event.data
     IN  IF Contains(run.artifact_ids, id)
           THEN pc' = "event" /\ UNCHANGED plan
           ELSE /\ pc' = "run"
                /\ plan' = [plan EXCEPT !.run =
                     [run EXCEPT !.artifact_ids = Append(run.artifact_ids, id)]]
  /\ UNCHANGED <<directory, leftover, run, provenance, results, events,
                 checkpoint, history>>

WriteProvenance ==
  /\ pc = "data" /\ plan.op = "provenance"
  /\ provenance' = plan.provenance
  /\ pc' = "event"
  /\ UNCHANGED <<directory, leftover, run, artifacts, results, events,
                 checkpoint, plan, history>>

\* Mutant: a run that was judged before keeps its manifest.
WriteFirstResults ==
  /\ pc = "data" /\ plan.op = "acceptance"
  /\ results' = plan.results
  /\ reported' = Verdict(plan.results)
  /\ pc' = IF run.acceptance = "pending" THEN "run" ELSE "event"
  /\ UNCHANGED <<directory, leftover, run, artifacts, provenance, events,
                 checkpoint, plan, interrupts>>

WriteResults ==
  /\ pc = "data" /\ plan.op = "acceptance"
  /\ results' = plan.results
  /\ reported' = Verdict(plan.results)
  /\ pc' = "run"
  /\ UNCHANGED <<directory, leftover, run, artifacts, provenance, events,
                 checkpoint, plan, interrupts>>

WriteManifest ==
  /\ pc = "run"
  /\ run' = plan.run
  /\ pc' = "event"
  /\ UNCHANGED <<directory, leftover, artifacts, provenance, results, events,
                 checkpoint, plan, history>>

AppendEvent ==
  /\ pc = "event"
  /\ events' = AfterAppend(plan.event)
  /\ pc' = "checkpoint"
  /\ UNCHANGED <<directory, leftover, run, artifacts, provenance, results,
                 checkpoint, plan, history>>

WriteCheckpoint ==
  /\ pc = "checkpoint"
  /\ checkpoint' = Hashes
  /\ pc' = "idle" /\ plan' = NoPlan
  /\ UNCHANGED <<directory, leftover, files, history>>

\* An update stops before its next write.
Interrupt ==
  /\ pc \in {"data", "run", "event", "checkpoint"}
  /\ interrupts < MaxInterrupts
  /\ pc' = "idle" /\ plan' = NoPlan
  /\ interrupts' = interrupts + 1
  /\ UNCHANGED <<disk, reported>>

\* The write of the event line stops half way.
TearEvent ==
  /\ pc = "event"
  /\ interrupts < MaxInterrupts
  /\ events' = AfterAppend(Torn)
  /\ pc' = "idle" /\ plan' = NoPlan
  /\ interrupts' = interrupts + 1
  /\ UNCHANGED <<directory, leftover, run, artifacts, provenance, results,
                 checkpoint, reported>>

\* create: an exception removes the staging directory, the end of the
\* process does not.
AbandonCreate ==
  /\ pc = "publish"
  /\ leftover' \in {leftover, TRUE}
  /\ pc' = "idle" /\ plan' = NoPlan
  /\ UNCHANGED <<directory, files, checkpoint, history>>

Begin ==
  \/ StageRun
  \/ \E target \in ExecutionStatus : BeginTransition(target)
  \/ \E a \in Artifacts : BeginArtifact(a)
  \/ BeginProvenance
  \/ \E batch \in SUBSET Results : BeginAcceptance(batch)

Write ==
  \/ PublishRun
  \/ WriteArtifacts
  \/ WriteProvenance
  \/ WriteResults
  \/ WriteManifest
  \/ AppendEvent
  \/ WriteCheckpoint

Stop == Interrupt \/ TearEvent \/ AbandonCreate

Next == Begin \/ Write \/ Stop

Spec == Init /\ [][Next]_vars

-----------------------------------------------------------------------------
(* Properties.                                                             *)

Plan == [op : {"none", "create", "transition", "artifact", "provenance",
               "acceptance"},
         event : Event, run : Manifest, artifacts : Seq(Artifacts),
         provenance : 0 .. MaxProvenance, results : SUBSET Results]

\* The type invariant: every file holds what its parser accepts, and the
\* store has a plan exactly while an operation is under way.
TypeOK ==
  /\ directory \in {"absent", "named"}
  /\ leftover \in BOOLEAN
  /\ run \in Manifest
  /\ artifacts \in Seq(Artifacts)
  /\ provenance \in 0 .. MaxProvenance
  /\ results \in SUBSET Results
  /\ events \in Seq(Event)
  /\ checkpoint \in [run : Manifest, artifacts : Seq(Artifacts),
                     provenance : 0 .. MaxProvenance,
                     results : SUBSET Results, events : Seq(Event)]
  /\ pc \in {"idle", "publish", "data", "run", "event", "checkpoint"}
  /\ plan \in Plan
  /\ pc = "idle" <=> plan = NoPlan
  /\ interrupts \in 0 .. MaxInterrupts
  /\ reported \in AcceptanceStatus

\* run.json, seen from outside at any moment, is a run of RunLifecycle: no
\* interruption and no later operation on what an interrupted one left takes
\* it through a forbidden move.
Lifecycle == INSTANCE RunLifecycle WITH
  execution <- IF directory = "absent" THEN "absent" ELSE run.execution,
  acceptance <- run.acceptance

LifecycleImplemented == Lifecycle!Spec

\* An update that ran to its end leaves a run that `recover` accepts, as long
\* as no update before it was interrupted and no artifact id was recorded
\* twice (record_artifact does not refuse the second time).
CompletedUpdateIsRecoverable ==
  pc = "idle" /\ directory = "named" /\ interrupts = 0 /\ IsInjective(artifacts)
    => Recoverable

\* The lines of a log with this name.
Logged(log, name) == {i \in DOMAIN log : log[i].event = name}

\* The last line of the log with this name says `value`; with no such line the
\* value is still the initial one.
LastLogged(log, name, value, initial) ==
  \/ Logged(log, name) = {} /\ value = initial
  \/ \E i \in Logged(log, name) :
       value = log[i].data /\ \A j \in Logged(log, name) : j <= i

\* The lines with this name, one after the other, say these values.
LoggedInOrder(log, name, values) ==
  \E at \in [DOMAIN values -> Logged(log, name)] :
    /\ \A j, k \in DOMAIN values : j < k => at[j] < at[k]
    /\ \A i \in Logged(log, name) : \E k \in DOMAIN values : at[k] = i
    /\ \A k \in DOMAIN values : values[k] = log[at[k]].data

Explains(log, execution, acceptance, ids, records) ==
  /\ LastLogged(log, "execution_transition", execution, "planned")
  /\ LastLogged(log, "acceptance_recorded", acceptance, "pending")
  /\ LoggedInOrder(log, "artifact_recorded", ids)
  /\ records = Cardinality(Logged(log, "provenance_recorded"))

\* The log alone explains every other file of the run.
LogExplainsFiles ==
  Explains(events, run.execution, run.acceptance, artifacts, provenance)

\* Between updates, and as long as none was interrupted, no file has a change
\* the log does not record and the log records none that was not made.
UninterruptedLogIsComplete ==
  pc = "idle" /\ directory = "named" /\ interrupts = 0 => LogExplainsFiles

\* The claim of the class comment, "a complete update becomes trusted only
\* after its final checkpoint", read for the updates that never got there: what
\* `recover` accepts is explained by updates that logged their event.  The
\* checkpoint of the next operation takes in what an interrupted one left.
RecoverableStateIsLogged == Recoverable => LogExplainsFiles

\* record_artifact stopped between artifacts.json and run.json cannot be
\* repaired by any sequence of store operations, recording the same artifact
\* again included: `recover` refuses the run from then on.
ArtifactTearIsPermanent ==
  [](pc = "idle" /\ Len(artifacts) # Len(run.artifact_ids) => []~Recoverable)

\* An interrupted judgement, in contrast, is repaired by judging again: the
\* checkpoint of any record_acceptance makes the run recoverable whatever
\* interrupted updates left in run.json and acceptance.json before it.
RejudgingHeals ==
  [][WriteCheckpoint /\ plan.op = "acceptance" /\ ValidEvents(events)
       /\ ArtifactsAgree(run.artifact_ids, artifacts)
     => Recoverable']_vars

\* A run is never trusted on a judgement older than the results that were
\* written last, not even after a rejection that was interrupted between
\* acceptance.json and run.json and then taken into a later checkpoint.
NoTrustInOldVerdict == Trusted => reported = "accepted"
=============================================================================
