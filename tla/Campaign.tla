------------------------------- MODULE Campaign -------------------------------
(***************************************************************************)
(* The inverse-design campaign, campaign.py, and the solver runs it makes  *)
(* with run.py, one at a time.  The driver works through the start-up jobs *)
(* of its plan, calibrates a mask with up to Len(Binaries) candidates, and *)
(* spends the validation jobs on the mask it has selected.  It writes the  *)
(* whole document to campaign.json again and again; the document in its    *)
(* memory is lost when it dies.                                            *)
(*                                                                         *)
(* A job is named by its directory.  A mask is modelled by its version; an *)
(* edit gives it a new one, or one of those before.  A report is modelled  *)
(* by what the driver reads: acceptance, and the distance of the splitting *)
(* ratio from balance (0: within the tolerance of an early stop).          *)
(***************************************************************************)
EXTENDS Integers, Sequences

CONSTANTS
  Startup,        \* plan: the start-up jobs, in order
  Optimizations,  \* plan: those that optimize; the others check gradients
  Source,         \* plan: Source[n]: the job that n restarts from
  Binaries,       \* plan: the names of the candidates, in order
  Validation,     \* plan: the validation jobs, in order
  Holdouts,       \* plan: those at wavelengths that were not trained on
  Baseline,       \* plan: Baseline[n]: the job that n is compared with
  MaxImbalance,   \* bound: distances of a splitting ratio from balance
  MaxEdits        \* bound: changes of mask files from outside

SelectedBinary == "selected_binary"

Names(list) == {list[i] : i \in 1 .. Len(list)}
Jobs == Names(Startup) \cup Names(Binaries) \cup Names(Validation)
Budget == Len(Startup) + Len(Binaries) + Len(Validation)

ASSUME CampaignBounds == MaxImbalance \in Nat /\ MaxEdits \in Nat
ASSUME PlanAssumption ==
  /\ Startup \in Seq(Names(Startup)) /\ Binaries \in Seq(Names(Binaries))
  /\ Validation \in Seq(Names(Validation))
  /\ Optimizations \subseteq Names(Startup) /\ Holdouts \subseteq Names(Validation)
  /\ Binaries # <<>> /\ Validation # <<>>

\* No two start-up jobs share a directory.
ASSUME StartupAssumption ==
  \A i, j \in 1 .. Len(Startup) : Startup[i] = Startup[j] => i = j

\* The plan puts the holdouts at its end, and gives them names of their own.
ASSUME HoldoutsAssumption ==
  /\ Holdouts \cap (Names(Startup) \cup Names(Binaries)) = {}
  /\ \A i, j \in 1 .. Len(Validation) :
       Validation[i] \notin Holdouts /\ Validation[j] \in Holdouts => i < j

VARIABLES
  pc,        \* what the driver does next
  job,       \* the arguments and results of the call of `native` under way
  doc,       \* the document in memory
  disk,      \* campaign.json
  exit,      \* the status the driver ended with, or that it was killed
  folders,   \* the run directories that exist
  masks,     \* masks[b]: the version of the mask file of candidate b
  launched,  \* history: the jobs a solver was started for, in order
  solved,    \* history: solved[n]: the mask version the last run of n has read
  short,     \* history: optimizations whose trace does not tell all their work
  restored,  \* history: an edit has given a mask file an old version
  edits      \* bound counter

vars == <<pc, job, doc, disk, exit, folders, masks, launched, solved, short, restored, edits>>
outside == <<folders, masks, launched, solved, short, restored, edits>>

-----------------------------------------------------------------------------
(* The document.                                                           *)

NoMask == -1
Unmeasured == -1

DocStatus == {"running", "pass", "scientific_failure", "cost_overrun", "execution_failure"}
RowStatus == {"executing", "execution_failure", "checking_native_evidence", "gradient_pass",
              "analysis_execution_failure", "scientific_pass", "scientific_failure"}
Cost == {"uncounted", "unknown", "partial_lower_bound", "within", "overrun"}

NewDocument ==
  [status |-> "running", runs |-> <<>>, candidates |-> <<>>, jobs |-> 0,
   selection |-> SelectedBinary, hash |-> NoMask, locked |-> <<>>,
   lower |-> FALSE, stop |-> FALSE]

NoFile == [status |-> "absent"]
Torn == [status |-> "torn"]
Readable == disk \notin {NoFile, Torn}

Last == Len(doc.runs)
Row == doc.runs[Last]

\* What the last row says of the job under way.
Noting(d, status) == [d EXCEPT !.runs[Len(d.runs)].status = status]

\* save: the file is written anew, not replaced.  If that fails, the call
\* raises, and the file is as it was, whole in spite of it, or what is left of it.
SaveFails ==
  /\ disk' \in {disk, doc', Torn}
  /\ pc' = "handler"
  /\ UNCHANGED exit

Save(next) ==
  \/ disk' = doc' /\ pc' = next /\ UNCHANGED exit
  \/ SaveFails

SaveAndExit(code) ==
  \/ disk' = doc' /\ pc' = "ended" /\ exit' = code
  \/ SaveFails

-----------------------------------------------------------------------------
(* What a solver run leaves.                                               *)

\* `trace`: what the logged evaluations say, once verified against the receipt;
\* `finished`: they cover all requested stages.
Outcome ==
  [exit : {"ok", "failed"}, receipt : {"none", "unreadable", "incomplete", "complete"},
   trace : {"unverified", "within", "overrun"}, finished : BOOLEAN]

Nothing == [exit |-> "failed", receipt |-> "none", trace |-> "unverified", finished |-> FALSE]

\* What the driver is to do by the mode of the job.
Optimizes(j) == j.stage = "startup" /\ j.name \in Optimizations
ChecksGradient(j) == j.stage = "startup" /\ j.name \notin Optimizations

\* run.py exits with 0 only with a receipt that says so; a trace is verified
\* only against a receipt, and only optimizations have one.
Outcomes(j) ==
  {o \in Outcome :
     /\ o.exit = "ok" => o.receipt = "complete"
     /\ o.trace # "unverified" => Optimizes(j) /\ o.receipt \in {"incomplete", "complete"}
     /\ o.finished => o.trace # "unverified"}

NoJob == [name |-> SelectedBinary, stage |-> "startup", mask |-> NoMask,
          digest |-> NoMask, outcome |-> Nothing]

Init ==
  /\ pc = "begin" /\ job = NoJob
  /\ doc = NewDocument /\ disk = NoFile /\ exit = "none"
  /\ folders = {} /\ masks = [b \in Names(Binaries) |-> NoMask]
  /\ launched = <<>> /\ solved = [n \in Jobs |-> NoMask] /\ short = {}
  /\ restored = FALSE /\ edits = 0

-----------------------------------------------------------------------------
(* main and run: the start-up jobs.                                        *)

\* The plan is told, and that is all without --execute; the arguments may be refused.
\* Making the directory and the first save are outside of main's try.
Begin ==
  /\ pc = "begin"
  /\ \/ UNCHANGED disk /\ pc' = "ended" /\ exit' \in {"0", "2"}
     \/ disk' = doc /\ pc' = "startup" /\ UNCHANGED exit
     \/ disk' \in {disk, doc, Torn} /\ pc' = "ended" /\ exit' = "1"
  /\ UNCHANGED <<job, doc, outside>>

\* Every start-up job has made one row when it returns.
NextStartup ==
  LET i == Last + 1
  IN  /\ pc = "startup"
      /\ IF Last = Len(Startup) THEN pc' = "propose" /\ UNCHANGED job
         ELSE IF Startup[i] \in DOMAIN Source
                 /\ \A j \in 1 .. Last : doc.runs[j].name # Source[Startup[i]]
           THEN pc' = "handler" /\ UNCHANGED job
         ELSE /\ job' = [NoJob EXCEPT !.name = Startup[i]]
              /\ pc' = "native"
      /\ UNCHANGED <<doc, disk, exit, outside>>

-----------------------------------------------------------------------------
(* native: one solver run, and what the driver makes of it.                *)

\* The mask a job is run with.
MaskOf(j) == IF j.stage = "binary" THEN j.name ELSE doc.selection
MaskNow(j) == IF j.stage = "startup" THEN NoMask ELSE masks[MaskOf(j)]

NewRow == [name |-> job.name, status |-> "executing", cost |-> "uncounted",
           mask |-> MaskNow(job)]

Charged == [doc EXCEPT !.jobs = @ + 1, !.runs = Append(@, NewRow)]

\* Mutant: the row is saved with the results.
NativeUnsaved ==
  /\ pc = "native"
  /\ job' = [job EXCEPT !.mask = MaskNow(job)]
  /\ doc' = Charged
  /\ pc' = "launch"
  /\ UNCHANGED <<disk, exit, outside>>

Native ==
  /\ pc = "native"
  /\ IF doc.stop \/ doc.jobs >= Budget
       THEN pc' = "handler" /\ UNCHANGED <<job, doc, disk, exit>>
       ELSE /\ job' = [job EXCEPT !.mask = MaskNow(job)]
            /\ doc' = Charged
            /\ Save("launch")
  /\ UNCHANGED outside

\* The subprocess starts, and the driver waits for it.
Launch ==
  /\ pc = "launch"
  /\ launched' = Append(launched, job.name)
  /\ pc' = "render"
  /\ UNCHANGED <<job, doc, disk, exit, folders, masks, solved, short, restored, edits>>

Returns(outcome) ==
  /\ job' = [job EXCEPT !.outcome = outcome]
  /\ short' = IF Optimizes(job) /\ ~ outcome.finished THEN short \cup {job.name} ELSE short
  /\ pc' = "returned"
  /\ UNCHANGED <<doc, disk, exit, folders, masks, launched, solved, restored, edits>>

\* run.py refuses its arguments, and always a directory that exists: what the
\* driver then finds there is the receipt of an earlier run.
Refuse ==
  /\ pc = "render"
  /\ Returns([Nothing EXCEPT !.receipt = IF job.name \in folders THEN "complete" ELSE "none"])

\* It reads the mask to render the geometry, and reads it again for the digest
\* that goes into plan.json.
Render ==
  /\ pc = "render" /\ job.name \notin folders
  /\ solved' = [solved EXCEPT ![job.name] = MaskNow(job)]
  /\ pc' = "digest"
  /\ UNCHANGED <<job, doc, disk, exit, folders, masks, launched, short, restored, edits>>

Digest ==
  /\ pc = "digest"
  /\ job' = [job EXCEPT !.digest = MaskNow(job)]
  /\ folders' = folders \cup {job.name}
  /\ pc' = "compute"
  /\ UNCHANGED <<doc, disk, exit, masks, launched, solved, short, restored, edits>>

\* The solver ends, or run.py does, with whatever is done by then ...
SolverEnds ==
  /\ pc = "compute"
  /\ \E outcome \in Outcomes(job) : Returns(outcome)

\* ... or the solver hangs, and is killed when its time is over.  No receipt says
\* then that it is complete.
SolverHangs ==
  /\ pc = "compute" /\ pc' = "hung"
  /\ UNCHANGED <<job, doc, disk, exit, outside>>

\* Mutant: nobody watches the time.
SolverWaitedFor == pc = "hung" /\ UNCHANGED vars

SolverKilled ==
  /\ pc = "hung"
  /\ \E outcome \in {o \in Outcomes(job) : o.exit = "failed" /\ o.receipt # "complete"} :
       Returns(outcome)

ReadReceipt ==
  /\ pc = "returned"
  /\ pc' = IF job.outcome.receipt = "unreadable" THEN "handler"
           ELSE IF Optimizes(job) THEN "count"
           ELSE "receipt"
  /\ UNCHANGED <<job, doc, disk, exit, outside>>

\* record_optimization_cost
Complete(outcome) == outcome.exit = "ok" /\ outcome.receipt = "complete"

\* Mutant: an overrun is all that is said of a job.
PartialOnly(outcome) == outcome.trace # "overrun" /\ ~ (outcome.finished /\ Complete(outcome))

Partial(outcome) == ~ (outcome.finished /\ Complete(outcome))

\* Mutant: only an execution that was cut short is held to its limit.
OverPartial(outcome) == outcome.trace = "overrun" /\ ~ outcome.finished

Over(outcome) == outcome.trace = "overrun"

CostOf(outcome) ==
  IF outcome.trace = "unverified" THEN "unknown"
  ELSE IF outcome.trace = "overrun" THEN "overrun"
  ELSE IF Partial(outcome) THEN "partial_lower_bound"
  ELSE "within"

Count ==
  LET over == Over(job.outcome)
  IN  /\ pc = "count"
      /\ doc' = [doc EXCEPT !.runs[Last].cost = CostOf(job.outcome),
                            !.lower = @ \/ Partial(job.outcome),
                            !.stop = @ \/ over,
                            !.status = IF over THEN "cost_overrun" ELSE @]
      /\ Save("receipt")
      /\ UNCHANGED <<job, outside>>

CheckReceipt ==
  /\ pc = "receipt"
  /\ IF Complete(job.outcome)
       THEN /\ doc' = Noting(doc, "checking_native_evidence")
            /\ pc' = "evidence" /\ UNCHANGED <<disk, exit>>
       ELSE doc' = Noting(doc, "execution_failure") /\ Save("handler")
  /\ UNCHANGED <<job, outside>>

\* Mutant: the mask of the plan is not compared.
EvidenceUncompared(j) == Optimizes(j) => j.outcome.finished

\* Digests, the plan, and for optimizations the prechecks; that a file was
\* changed or lost is a Raise.
Evidence(j) ==
  /\ j.digest = j.mask
  /\ Optimizes(j) => j.outcome.finished

CheckEvidence ==
  /\ pc = "evidence"
  /\ IF ~ Evidence(job)
       THEN pc' = "handler" /\ UNCHANGED <<doc, disk, exit>>
     ELSE IF ChecksGradient(job)
       THEN doc' = Noting(doc, "gradient_pass") /\ Save("startup")
     ELSE IF Optimizes(job)
       THEN UNCHANGED doc /\ Save("analyse")
     ELSE pc' = "analyse" /\ UNCHANGED <<doc, disk, exit>>
  /\ UNCHANGED <<job, outside>>

\* What the caller of native goes on with.
Caller(stage) ==
  CASE stage = "startup" -> "startup" [] stage = "binary" -> "candidate" [] OTHER -> "judge"

\* analyze.py fails, or reports; a report after an overrun is kept.
Analyse ==
  /\ pc = "analyse"
  /\ \/ doc' = Noting(doc, "analysis_execution_failure") /\ Save("handler")
     \/ \E accepted \in BOOLEAN :
          /\ doc' = Noting(doc, IF accepted THEN "scientific_pass" ELSE "scientific_failure")
          /\ Save(IF doc.stop THEN "handler" ELSE Caller(job.stage))
  /\ UNCHANGED <<job, outside>>

-----------------------------------------------------------------------------
(* qualify_binary: candidates, selection, validation.                      *)

\* Threshold and mask of the next candidate; a threshold may be lacking, and
\* the extraction may fail (Raise).
Propose ==
  LET name == Binaries[Len(doc.candidates) + 1]
  IN  /\ pc = "propose"
      /\ masks' = [masks EXCEPT ![name] = 0]
      /\ job' = [NoJob EXCEPT !.name = name, !.stage = "binary"]
      /\ pc' = "native"
      /\ UNCHANGED <<doc, disk, exit, folders, launched, solved, short, restored, edits>>

AddCandidate ==
  /\ pc = "candidate"
  /\ \E imbalance \in Unmeasured .. MaxImbalance :
       LET accepted == Row.status = "scientific_pass"
           enough == (accepted /\ imbalance = 0) \/ Len(doc.candidates) + 1 = Len(Binaries)
       IN  /\ doc' = [doc EXCEPT !.candidates = Append(@,
                        [name |-> job.name, accepted |-> accepted, imbalance |-> imbalance])]
           /\ Save(IF enough THEN "select" ELSE "propose")
  /\ UNCHANGED <<job, outside>>

\* select_candidate
Passing(candidates) ==
  {i \in 1 .. Len(candidates) : candidates[i].accepted /\ candidates[i].imbalance # Unmeasured}

Best(candidates) ==
  CHOOSE i \in Passing(candidates) : \A j \in Passing(candidates) :
    \/ candidates[i].imbalance < candidates[j].imbalance
    \/ candidates[i].imbalance = candidates[j].imbalance /\ i <= j

\* The mask is locked by its digest.
Select ==
  /\ pc = "select"
  /\ IF Passing(doc.candidates) = {}
       THEN doc' = [doc EXCEPT !.status = "scientific_failure"] /\ SaveAndExit("2")
       ELSE LET name == doc.candidates[Best(doc.candidates)].name
            IN  /\ doc' = [doc EXCEPT !.selection = name, !.hash = masks[name]]
                /\ pc' = "validate" /\ UNCHANGED <<disk, exit>>
  /\ UNCHANGED <<job, outside>>

\* Mutant: the mask was compared when it was selected.
ValidateUnlocked ==
  /\ pc = "validate"
  /\ job' = [NoJob EXCEPT !.name = Validation[Len(doc.locked) + 1], !.stage = "validation"]
  /\ pc' = "native"
  /\ UNCHANGED <<doc, disk, exit, outside>>

Validate ==
  /\ pc = "validate"
  /\ IF masks[doc.selection] # doc.hash
       THEN pc' = "handler" /\ UNCHANGED job
       ELSE /\ job' = [NoJob EXCEPT !.name = Validation[Len(doc.locked) + 1],
                                    !.stage = "validation"]
            /\ pc' = "native"
  /\ UNCHANGED <<doc, disk, exit, outside>>

Observed == {SelectedBinary} \cup {doc.locked[i].name : i \in 1 .. Len(doc.locked)}

\* Mutant: all checks are spent before they are judged.
FailedInTheEnd(locked) ==
  /\ Len(locked) = Len(Validation)
  /\ \E i \in 1 .. Len(locked) : ~ (locked[i].accepted /\ locked[i].converged)

\* Mutant: the comparisons are reported only.
FailedReport(locked) == \E i \in 1 .. Len(locked) : ~ locked[i].accepted

Failed(locked) == \E i \in 1 .. Len(locked) : ~ (locked[i].accepted /\ locked[i].converged)

\* A check that was not accepted, or has moved too far from its baseline, ends
\* the campaign.
Judge ==
  /\ pc = "judge"
  /\ \E converged \in BOOLEAN :
       LET check == [name |-> job.name, accepted |-> Row.status = "scientific_pass",
                     converged |-> job.name \in DOMAIN Baseline => converged]
           locked == Append(doc.locked, check)
       IN  IF job.name \in DOMAIN Baseline /\ Baseline[job.name] \notin Observed
             THEN pc' = "handler" /\ UNCHANGED <<doc, disk, exit>>
           ELSE IF Failed(locked)
             THEN /\ doc' = [doc EXCEPT !.locked = locked, !.status = "scientific_failure"]
                  /\ SaveAndExit("2")
           ELSE /\ doc' = [doc EXCEPT !.locked = locked]
                /\ Save(IF Len(locked) = Len(Validation) THEN "finish" ELSE "validate")
  /\ UNCHANGED <<job, outside>>

\* Mutant: the status is set by the caller, after the save.
FinishUnsaved ==
  /\ pc = "finish"
  /\ doc' = [doc EXCEPT !.status = "pass"]
  /\ pc' = "ended" /\ exit' = "0" /\ UNCHANGED disk
  /\ UNCHANGED <<job, outside>>

Finish ==
  /\ pc = "finish"
  /\ IF DOMAIN Baseline \subseteq Observed
       THEN doc' = [doc EXCEPT !.status = "pass"] /\ SaveAndExit("0")
       ELSE pc' = "handler" /\ UNCHANGED <<doc, disk, exit>>
  /\ UNCHANGED <<job, outside>>

-----------------------------------------------------------------------------
(* What goes wrong.                                                        *)

\* Files that cannot be read, written or parsed, or that are not as they were:
\* wherever the driver is in the try of main, outside of a solver run.
Raise ==
  /\ pc \notin {"begin", "render", "digest", "compute", "hung", "handler", "ended"}
  /\ pc' = "handler"
  /\ UNCHANGED <<job, doc, disk, exit, outside>>

\* The handlers of main.  What their own save raises is not caught, nor what print
\* does after it: Python then ends the driver with status 1.
Handle ==
  /\ pc = "handler"
  /\ doc' = [doc EXCEPT !.status = IF doc.stop THEN "cost_overrun" ELSE "execution_failure"]
  /\ pc' = "ended"
  /\ \/ disk' = doc' /\ exit' = IF doc.stop THEN "3" ELSE "1"
     \/ disk' \in {disk, doc', Torn} /\ exit' = "1"
  /\ UNCHANGED <<job, outside>>

\* The driver is killed, or ended with status 1 by an exception that main does not
\* name, in the middle of a save perhaps.
Die ==
  /\ pc # "ended"
  /\ pc' = "ended" /\ exit' \in {"1", "killed"} /\ disk' \in {disk, Torn}
  /\ UNCHANGED <<job, doc, outside>>

\* Somebody changes a mask file, or changes it back.
Edit(b) ==
  /\ edits < MaxEdits /\ masks[b] # NoMask /\ pc # "ended"
  /\ \E version \in (0 .. (edits + 1)) \ {masks[b]} :
       /\ masks' = [masks EXCEPT ![b] = version]
       /\ restored' = (restored \/ version <= edits)
  /\ edits' = edits + 1
  /\ UNCHANGED <<pc, job, doc, disk, exit, folders, launched, solved, short>>

Driver ==
  \/ Begin \/ NextStartup \/ Native \/ Launch \/ ReadReceipt \/ Count \/ CheckReceipt
  \/ CheckEvidence \/ Analyse \/ Propose \/ AddCandidate \/ Select \/ Validate \/ Judge
  \/ Finish \/ Handle

Solver == Refuse \/ Render \/ Digest \/ SolverEnds \/ SolverKilled

Next ==
  \/ Driver
  \/ Solver
  \/ SolverHangs
  \/ Raise
  \/ Die
  \/ \E b \in Names(Binaries) : Edit(b)

\* The driver is a sequential program, and a solver is killed after its time.
Fairness == WF_vars(Driver) /\ WF_vars(Solver)

Spec == Init /\ [][Next]_vars /\ Fairness

-----------------------------------------------------------------------------
(* Properties.                                                             *)

Rows == [name : Jobs, status : RowStatus, cost : Cost, mask : NoMask .. MaxEdits]
Candidates == [name : Names(Binaries), accepted : BOOLEAN,
               imbalance : Unmeasured .. MaxImbalance]
Checks == [name : Names(Validation), accepted : BOOLEAN, converged : BOOLEAN]
Document ==
  [status : DocStatus, runs : Seq(Rows), candidates : Seq(Candidates), jobs : 0 .. Budget,
   selection : Names(Binaries) \cup {SelectedBinary}, hash : NoMask .. MaxEdits,
   locked : Seq(Checks), lower : BOOLEAN, stop : BOOLEAN]

\* The type invariant.
TypeOK ==
  /\ pc \in {"begin", "startup", "native", "launch", "render", "digest", "compute", "hung",
             "returned", "count", "receipt", "evidence", "analyse", "propose", "candidate",
             "select", "validate", "judge", "finish", "handler", "ended"}
  /\ job \in [name : Jobs \cup {SelectedBinary}, stage : {"startup", "binary", "validation"},
              mask : NoMask .. MaxEdits, digest : NoMask .. MaxEdits, outcome : Outcome]
  /\ doc \in Document
  /\ disk \in Document \cup {NoFile, Torn}
  /\ exit \in {"none", "0", "1", "2", "3", "killed"}
  /\ folders \subseteq Jobs
  /\ masks \in [Names(Binaries) -> NoMask .. MaxEdits]
  /\ launched \in Seq(Jobs)
  /\ solved \in [Jobs -> NoMask .. MaxEdits]
  /\ short \subseteq Optimizations
  /\ restored \in BOOLEAN /\ edits \in 0 .. MaxEdits
  /\ doc.jobs = Len(doc.runs)
  /\ Len(doc.candidates) <= Len(Binaries) /\ Len(doc.locked) <= Len(Validation)

\* However the driver ends, a campaign.json that can be read has a row for
\* every solver that was ever started, in order, within the declared budget.
StartedIsOnDisk ==
  Readable => /\ Len(launched) <= disk.jobs /\ disk.jobs <= Budget
              /\ \A i \in 1 .. Len(launched) : disk.runs[i].name = launched[i]

\* `pass` is written only of a campaign in which every job of the plan was run
\* once, on a candidate that was accepted, and every locked check was accepted
\* and has converged.
PassIsEarned ==
  Readable /\ disk.status = "pass" =>
    /\ \A n \in Names(Startup) : \E i \in 1 .. Len(disk.runs) :
         disk.runs[i].name = n /\ disk.runs[i].status \notin {"executing", "execution_failure"}
    /\ \E i \in 1 .. Len(disk.candidates) :
         disk.candidates[i].name = disk.selection /\ disk.candidates[i].accepted
    /\ \A i \in 1 .. Len(Validation) :
         /\ disk.locked[i] = [name |-> Validation[i], accepted |-> TRUE, converged |-> TRUE]
         /\ \E j \in 1 .. Len(launched) : launched[j] = Validation[i]
                                       /\ disk.runs[j].status = "scientific_pass"

\* "holdouts last; stop on first failed gate": a holdout is solved only if every
\* other check was accepted and has converged.
HoldoutsLast ==
  \A i \in 1 .. Len(launched) : launched[i] \in Holdouts =>
    \A n \in Names(Validation) \ Holdouts :
      \E k \in 1 .. Len(doc.locked) :
        doc.locked[k] = [name |-> n, accepted |-> TRUE, converged |-> TRUE]

\* "Aggregates containing incomplete or unknown attempts are marked as lower
\* bounds": as soon as the document says more of an optimization than that it
\* executes.
CostIsMarked ==
  Readable => \A i \in 1 .. Len(disk.runs) :
    disk.runs[i].name \in short /\ disk.runs[i].status # "executing" => disk.lower

Overrun == \E i \in 1 .. Last : doc.runs[i].cost = "overrun"

\* "If actual per-stage nEval exceeds the requested threshold, it [...] stops
\* further native jobs".
OverrunStops == [][Overrun => UNCHANGED launched]_vars

\* The status of the driver is not better than campaign.json: of a campaign that was
\* begun, 0 is told only of one recorded as passed, 2 as a scientific failure, 3 as a
\* cost overrun, also when saves have failed on the way; and an overrun ("... and
\* records cost_overrun (CLI exit 3)") is told, whatever else goes wrong with the
\* job, unless an exception ends the driver that nothing catches.
\* (Status 1 tells nothing of the file: it is that of such an exception, too.)
ExitMatchesRecord ==
  /\ exit = "0" /\ disk # NoFile => disk.status = "pass"
  /\ exit = "2" /\ disk # NoFile => disk.status = "scientific_failure"
  /\ exit = "3" => disk.status = "cost_overrun"
  /\ Overrun /\ pc = "ended" => exit \in {"1", "3", "killed"}

\* A run that was analysed has solved the mask its row names, whenever the file
\* was changed under it; unless it was changed back, which the digests cannot tell.
NamedMaskWasSolved ==
  ~ restored =>
    \A i \in 1 .. Last : doc.runs[i].status \in {"scientific_pass", "scientific_failure"} =>
      solved[doc.runs[i].name] = doc.runs[i].mask

\* All validation jobs of a campaign that passes, but for the last one, have
\* solved the locked mask: a change is noticed before the next job, unless it is
\* undone by then.
LockedMaskHeld ==
  Readable /\ disk.status = "pass" /\ ~ restored =>
    \A i \in 1 .. Len(Validation) - 1 : solved[Validation[i]] = disk.hash

\* "new directory; never reused": no job finds the directory of another one.
FoldersAreNew == pc = "render" => job.name \notin folders

\* Every campaign ends.
CampaignEnds == <>(pc = "ended")
=============================================================================
