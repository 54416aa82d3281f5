---------------------------- MODULE CampaignProofs ----------------------------
(***************************************************************************)
(* What Campaign guarantees for every plan, every number of candidates and *)
(* every number of changes of the mask files.                              *)
(***************************************************************************)
EXTENDS Campaign, WellFoundedInduction, TLAPS

-----------------------------------------------------------------------------
(* The invariants.                                                         *)

\* A job has a row, and is not yet judged by its caller.
Working == {"launch", "render", "digest", "compute", "hung", "returned", "count",
            "receipt", "evidence", "analyse"}
Busy == Working \cup {"native"}
Stopped == {"handler", "ended"}

InStartup == pc = "startup" \/ (pc \in Busy /\ job.stage = "startup")
InBinary == pc \in {"propose", "candidate", "select"} \/ (pc \in Busy /\ job.stage = "binary")
InValidation == pc \in {"validate", "judge", "finish"} \/ (pc \in Busy /\ job.stage = "validation")

\* The jobs that their caller is done with.
Settled == IF pc \in Working \cup {"candidate", "judge"} THEN Last - 1 ELSE Last

Tried == Len(doc.candidates)
Checked == Len(doc.locked)

\* Where the driver is in the plan.
StartupPlace ==
  InStartup =>
    /\ doc.candidates = <<>> /\ doc.locked = <<>> /\ Settled <= Len(Startup)
    /\ pc # "startup" => Settled < Len(Startup) /\ job.name = Startup[Settled + 1]

BinaryPlace ==
  InBinary =>
    /\ doc.locked = <<>> /\ Settled = Len(Startup) + Tried
    /\ pc # "select" => Tried < Len(Binaries)
    /\ pc \notin {"propose", "select"} => job.stage = "binary" /\ job.name = Binaries[Tried + 1]

ValidationPlace ==
  InValidation =>
    /\ Settled = Len(Startup) + Tried + Checked /\ doc.selection \in Names(Binaries)
    /\ pc # "finish" => Checked < Len(Validation)
    /\ pc = "finish" => Checked = Len(Validation)
    /\ pc \notin {"validate", "finish"} =>
         job.stage = "validation" /\ job.name = Validation[Checked + 1]

Place ==
  /\ pc = "begin" => doc = NewDocument /\ disk = NoFile
  /\ StartupPlace /\ BinaryPlace /\ ValidationPlace

\* The last row is that of the job under way.
Scientific == {"scientific_pass", "scientific_failure"}

RowMatches ==
  /\ pc \in Working \cup {"candidate", "judge"} =>
       Last > 0 /\ Row.name = job.name /\ Row.mask = job.mask
  /\ pc \in Working \ {"evidence", "analyse"} => Row.status = "executing"
  /\ pc \in {"evidence", "analyse"} =>
       Row.status = "checking_native_evidence" /\ job.outcome.exit = "ok"
  /\ pc \in {"candidate", "judge"} => Row.status \in Scientific

\* The rows and the solvers started are the same jobs.
Launched ==
  /\ Len(launched) <= Last
  /\ pc = "launch" => Len(launched) = Last - 1
  /\ pc \notin Stopped \cup {"launch"} => Len(launched) = Last
  /\ \A i \in 1 .. Len(launched) : doc.runs[i].name = launched[i]

\* From the save of its row to the end of a solver, nothing is unsaved.
SavedFirst ==
  pc \in {"launch", "render", "digest", "compute", "hung", "returned", "count"} => disk = doc

\* What the driver makes of an overrun, and when it says `pass`.
StopIsHeeded ==
  /\ Overrun => doc.stop
  /\ doc.stop => pc \in {"receipt", "evidence", "analyse"} \cup Stopped
  /\ doc.stop /\ pc \notin Stopped => Optimizes(job)
  /\ pc # "ended" => exit = "none"
  /\ pc \notin {"handler", "ended"} => disk.status # "pass"
  /\ pc \notin Stopped => doc.status # "pass"

\* The optimization that is not yet counted.
Uncounted ==
  IF pc \in {"returned", "count"} /\ Optimizes(job) /\ ~ job.outcome.finished
    THEN {job.name} ELSE {}

Told(document) ==
  \A i \in 1 .. Len(document.runs) :
    document.runs[i].name \in short /\ document.runs[i].status # "executing" => document.lower

Marked ==
  /\ pc \notin Stopped => doc.lower \/ short \subseteq Uncounted
  /\ Told(doc)
  /\ Readable => Told(disk)

\* A mask file has no version that is still to come.
Versions == \A b \in Names(Binaries) : masks[b] <= edits

\* The job under way reads the mask when its row is made, when the geometry is
\* rendered, and when the digest is taken.
Rendered == job.name \in folders /\ job.mask <= solved[job.name] /\ solved[job.name] <= job.digest

MaskRead ==
  /\ pc \in {"launch", "render"} => job.mask <= MaskNow(job)
  /\ pc = "digest" => job.mask <= solved[job.name] /\ solved[job.name] <= MaskNow(job)
  /\ pc \in {"compute", "hung"} => Rendered
  /\ pc \in {"returned", "count", "receipt", "evidence", "analyse"} /\ job.outcome.exit = "ok" =>
       Rendered
  /\ pc = "analyse" => job.digest = job.mask

\* A row that was analysed names the mask that was solved, and nobody renders
\* another one there.
SolvedOnce ==
  \A i \in 1 .. Last : doc.runs[i].status \in Scientific =>
    doc.runs[i].name \in folders /\ solved[doc.runs[i].name] = doc.runs[i].mask

\* The start-up jobs that are settled ...
StartupRows ==
  ~ (pc \in Stopped) =>
    \A i \in 1 .. Len(Startup) : i <= Settled =>
      doc.runs[i].name = Startup[i] /\ doc.runs[i].status \notin {"executing", "execution_failure"}

\* ... and the validation jobs that are: all were accepted.
CheckRow(k) == doc.runs[Len(Startup) + Tried + k]

ValidationRows ==
  pc \notin Stopped =>
    \A k \in 1 .. Checked :
      /\ doc.locked[k] = [name |-> Validation[k], accepted |-> TRUE, converged |-> TRUE]
      /\ CheckRow(k).name = Validation[k] /\ CheckRow(k).status = "scientific_pass"

\* The lock: the mask of a check is that of the selection, or newer ...
LockGrows ==
  InValidation =>
    /\ doc.hash <= masks[doc.selection]
    /\ \A k \in 1 .. Last - (Len(Startup) + Tried) :
         doc.hash <= CheckRow(k).mask /\ CheckRow(k).mask <= masks[doc.selection]
\* ... and no newer one when the next check begins.
    /\ \A k \in 1 .. Checked :
         k < Checked \/ pc \in Busy \cup {"judge"} => CheckRow(k).mask = doc.hash

\* As long as no change was undone.
MasksAreTold == ~ restored => MaskRead /\ SolvedOnce /\ LockGrows

\* The selected candidate.
SelectionPassed ==
  InValidation =>
    \E i \in 1 .. Tried : doc.candidates[i].name = doc.selection /\ doc.candidates[i].accepted

-----------------------------------------------------------------------------
(* Constants.                                                              *)

LEMMA ListFacts ==
  /\ Startup \in Seq(Jobs) /\ Binaries \in Seq(Names(Binaries)) /\ Binaries \in Seq(Jobs)
  /\ Validation \in Seq(Names(Validation)) /\ Validation \in Seq(Jobs)
  /\ Len(Startup) \in Nat /\ Len(Binaries) \in Nat \ {0} /\ Len(Validation) \in Nat \ {0}
  /\ \A i \in 1 .. Len(Startup) : Startup[i] \in Names(Startup)
  /\ \A i \in 1 .. Len(Binaries) : Binaries[i] \in Names(Binaries)
  /\ \A i \in 1 .. Len(Validation) : Validation[i] \in Names(Validation)
<1>1. Names(Startup) \subseteq Jobs /\ Names(Binaries) \subseteq Jobs /\ Names(Validation) \subseteq Jobs
  BY DEF Jobs
<1>2. /\ Len(Startup) \in Nat /\ Len(Binaries) \in Nat \ {0} /\ Len(Validation) \in Nat \ {0}
  BY PlanAssumption
<1>3. Startup \in Seq(Jobs) /\ Binaries \in Seq(Jobs) /\ Validation \in Seq(Jobs)
  <2>1. \A S, T : S \subseteq T => Seq(S) \subseteq Seq(T)
    OBVIOUS
  <2>2. QED
    BY <1>1, <2>1, PlanAssumption
<1>4. QED
  BY <1>2, <1>3, PlanAssumption DEF Names

LEMMA BudgetNat == Budget \in Nat
BY ListFacts DEF Budget

-----------------------------------------------------------------------------
(* Documents.                                                              *)

LEMMA DocumentFacts ==
  ASSUME NEW d \in Document
  PROVE  /\ d.status \in DocStatus /\ d.runs \in Seq(Rows) /\ d.candidates \in Seq(Candidates)
         /\ d.jobs \in 0 .. Budget /\ d.selection \in Names(Binaries) \cup {SelectedBinary}
         /\ d.hash \in NoMask .. MaxEdits /\ d.locked \in Seq(Checks)
         /\ d.lower \in BOOLEAN /\ d.stop \in BOOLEAN
         /\ Len(d.runs) \in Nat /\ Len(d.candidates) \in Nat /\ Len(d.locked) \in Nat
         /\ \A i \in 1 .. Len(d.runs) : d.runs[i] \in Rows
         /\ d # NoFile /\ d # Torn
<1>1. d.status \notin {"absent", "torn"}
  BY DEF Document, DocStatus
<1>2. d # NoFile /\ d # Torn
  BY <1>1 DEF NoFile, Torn
<1>3. QED
  BY <1>2 DEF Document

LEMMA RowFacts ==
  ASSUME NEW r \in Rows
  PROVE  /\ r.name \in Jobs /\ r.status \in RowStatus /\ r.cost \in Cost
         /\ r.mask \in NoMask .. MaxEdits
BY DEF Rows

\* The rows, when the last one gets a status and a cost.
Redone(d, status, cost) ==
  [d.runs EXCEPT ![Len(d.runs)] = [d.runs[Len(d.runs)] EXCEPT !.status = status, !.cost = cost]]

LEMMA RedoneFacts ==
  ASSUME NEW d \in Document, Len(d.runs) > 0, NEW status \in RowStatus, NEW cost \in Cost
  PROVE  /\ Redone(d, status, cost) \in Seq(Rows) /\ Len(Redone(d, status, cost)) = Len(d.runs)
         /\ \A i \in 1 .. Len(d.runs) :
              /\ Redone(d, status, cost)[i].name = d.runs[i].name
              /\ Redone(d, status, cost)[i].mask = d.runs[i].mask
         /\ \A i \in 1 .. Len(d.runs) - 1 : Redone(d, status, cost)[i] = d.runs[i]
         /\ Redone(d, status, cost)[Len(d.runs)].status = status
         /\ Redone(d, status, cost)[Len(d.runs)].cost = cost
<1> DEFINE L == Len(d.runs)
           row == [d.runs[L] EXCEPT !.status = status, !.cost = cost]
           runs == [d.runs EXCEPT ![L] = row]
<1>1. d.runs \in Seq(Rows) /\ L \in Nat \ {0}
  BY DocumentFacts
<1>2. d.runs[L] \in Rows
  BY <1>1
<1>3. /\ row \in Rows /\ row.name = d.runs[L].name /\ row.mask = d.runs[L].mask
      /\ row.status = status /\ row.cost = cost
  BY <1>2 DEF Rows
<1>4. Redone(d, status, cost) = runs
  BY DEF Redone
<1> HIDE DEF row
<1>5. /\ runs \in Seq(Rows) /\ Len(runs) = L
      /\ \A i \in 1 .. L : runs[i] = IF i = L THEN row ELSE d.runs[i]
  BY <1>1, <1>3
<1>6. QED
  BY <1>1, <1>3, <1>4, <1>5

\* What changes when the last row gets a status.
LEMMA NotingFacts ==
  ASSUME NEW d \in Document, Len(d.runs) > 0, NEW status \in RowStatus, NEW e, e = Noting(d, status)
  PROVE  /\ e \in Document /\ Len(e.runs) = Len(d.runs)
         /\ \A i \in 1 .. Len(d.runs) :
              /\ e.runs[i].name = d.runs[i].name /\ e.runs[i].mask = d.runs[i].mask
              /\ e.runs[i].cost = d.runs[i].cost
         /\ \A i \in 1 .. Len(d.runs) - 1 : e.runs[i] = d.runs[i]
         /\ e.runs[Len(d.runs)].status = status
         /\ e.status = d.status /\ e.candidates = d.candidates /\ e.jobs = d.jobs
         /\ e.selection = d.selection /\ e.hash = d.hash /\ e.locked = d.locked
         /\ e.lower = d.lower /\ e.stop = d.stop
<1> DEFINE L == Len(d.runs)
           runs == Redone(d, status, d.runs[L].cost)
<1>1. d.runs \in Seq(Rows) /\ L \in Nat \ {0} /\ d.runs[L] \in Rows
  BY DocumentFacts
<1>2. d.runs[L].cost \in Cost
  BY <1>1, RowFacts
<1>3. [d.runs[L] EXCEPT !.status = status]
        = [d.runs[L] EXCEPT !.status = status, !.cost = d.runs[L].cost]
  BY <1>1 DEF Rows
<1>4. e = [d EXCEPT !.runs = runs]
  BY <1>3 DEF Noting, Redone
<1>5. /\ runs \in Seq(Rows) /\ Len(runs) = L
      /\ \A i \in 1 .. L : runs[i].name = d.runs[i].name /\ runs[i].mask = d.runs[i].mask
      /\ \A i \in 1 .. L - 1 : runs[i] = d.runs[i]
      /\ runs[L].status = status /\ runs[L].cost = d.runs[L].cost
  BY <1>2, RedoneFacts
<1> HIDE DEF runs
<1>6. /\ e \in Document /\ e.runs = runs
      /\ e.status = d.status /\ e.candidates = d.candidates /\ e.jobs = d.jobs
      /\ e.selection = d.selection /\ e.hash = d.hash /\ e.locked = d.locked
      /\ e.lower = d.lower /\ e.stop = d.stop
  BY <1>4, <1>5 DEF Document
<1>7. \A i \in 1 .. L : runs[i].cost = d.runs[i].cost
  BY <1>1, <1>5
<1>8. QED
  BY <1>5, <1>6, <1>7

\* What changes when the last row gets a cost.
Counted(d, cost, lower, stop, status) ==
  [d EXCEPT !.runs[Len(d.runs)].cost = cost, !.lower = lower, !.stop = stop, !.status = status]

LEMMA CountFacts ==
  ASSUME NEW d \in Document, Len(d.runs) > 0, NEW cost \in Cost, NEW lower \in BOOLEAN,
         NEW stop \in BOOLEAN, NEW status \in DocStatus,
         NEW e, e = Counted(d, cost, lower, stop, status)
  PROVE  /\ e \in Document /\ Len(e.runs) = Len(d.runs)
         /\ \A i \in 1 .. Len(d.runs) :
              /\ e.runs[i].name = d.runs[i].name /\ e.runs[i].mask = d.runs[i].mask
              /\ e.runs[i].status = d.runs[i].status
         /\ \A i \in 1 .. Len(d.runs) - 1 : e.runs[i] = d.runs[i]
         /\ e.runs[Len(d.runs)].cost = cost
         /\ e.status = status /\ e.candidates = d.candidates /\ e.jobs = d.jobs
         /\ e.selection = d.selection /\ e.hash = d.hash /\ e.locked = d.locked
         /\ e.lower = lower /\ e.stop = stop
<1> DEFINE L == Len(d.runs)
           runs == Redone(d, d.runs[L].status, cost)
<1>1. d.runs \in Seq(Rows) /\ L \in Nat \ {0} /\ d.runs[L] \in Rows
  BY DocumentFacts
<1>2. d.runs[L].status \in RowStatus
  BY <1>1, RowFacts
<1>3. [d.runs[L] EXCEPT !.cost = cost]
        = [d.runs[L] EXCEPT !.status = d.runs[L].status, !.cost = cost]
  BY <1>1 DEF Rows
<1>4. e = [d EXCEPT !.runs = runs, !.lower = lower, !.stop = stop, !.status = status]
  BY <1>3 DEF Redone, Counted
<1>5. /\ runs \in Seq(Rows) /\ Len(runs) = L
      /\ \A i \in 1 .. L : runs[i].name = d.runs[i].name /\ runs[i].mask = d.runs[i].mask
      /\ \A i \in 1 .. L - 1 : runs[i] = d.runs[i]
      /\ runs[L].status = d.runs[L].status /\ runs[L].cost = cost
  BY <1>2, RedoneFacts
<1> HIDE DEF runs
<1>6. /\ e \in Document /\ e.runs = runs
      /\ e.status = status /\ e.candidates = d.candidates /\ e.jobs = d.jobs
      /\ e.selection = d.selection /\ e.hash = d.hash /\ e.locked = d.locked
      /\ e.lower = lower /\ e.stop = stop
  BY <1>4, <1>5 DEF Document
<1>7. \A i \in 1 .. L : runs[i].status = d.runs[i].status
  BY <1>1, <1>5
<1>8. QED
  BY <1>5, <1>6, <1>7

\* What the row of a new job changes.
LEMMA ChargedFacts ==
  ASSUME TypeOK, pc = "native", doc.jobs < Budget, job.name \in Jobs, MaskNow(job) \in NoMask .. MaxEdits,
         NEW e, e = Charged
  PROVE  /\ e \in Document /\ Len(e.runs) = Last + 1
         /\ \A i \in 1 .. Last : e.runs[i] = doc.runs[i]
         /\ e.runs[Last + 1].name = job.name /\ e.runs[Last + 1].mask = MaskNow(job)
         /\ e.runs[Last + 1].status = "executing" /\ e.runs[Last + 1].cost = "uncounted"
         /\ e.status = doc.status /\ e.candidates = doc.candidates /\ e.jobs = doc.jobs + 1
         /\ e.selection = doc.selection /\ e.hash = doc.hash /\ e.locked = doc.locked
         /\ e.lower = doc.lower /\ e.stop = doc.stop
<1> DEFINE runs == Append(doc.runs, NewRow)
<1>1. doc \in Document /\ doc.runs \in Seq(Rows) /\ Last \in Nat
  <2>1. doc \in Document
    BY DEF TypeOK
  <2>2. QED
    BY <2>1, DocumentFacts DEF Last
<1>2. /\ NewRow \in Rows /\ NewRow.name = job.name /\ NewRow.mask = MaskNow(job)
      /\ NewRow.status = "executing" /\ NewRow.cost = "uncounted"
  BY DEF NewRow, Rows, RowStatus, Cost
<1>3. /\ runs \in Seq(Rows) /\ Len(runs) = Last + 1
      /\ \A i \in 1 .. Last : runs[i] = doc.runs[i]
      /\ runs[Last + 1] = NewRow
  BY <1>1, <1>2 DEF Last
<1>4. e = [doc EXCEPT !.jobs = doc.jobs + 1, !.runs = runs]
  BY DEF Charged
<1>5. doc.jobs + 1 \in 0 .. Budget
  BY <1>1, DocumentFacts, BudgetNat
<1> HIDE DEF runs
<1>6. /\ e \in Document /\ e.runs = runs /\ e.status = doc.status
      /\ e.candidates = doc.candidates /\ e.jobs = doc.jobs + 1
      /\ e.selection = doc.selection /\ e.hash = doc.hash /\ e.locked = doc.locked
      /\ e.lower = doc.lower /\ e.stop = doc.stop
  BY <1>1, <1>3, <1>4, <1>5 DEF Document
<1>7. QED
  BY <1>2, <1>3, <1>6

-----------------------------------------------------------------------------
(* Type correctness, and where the driver is.                              *)

Call == [name : Jobs \cup {SelectedBinary}, stage : {"startup", "binary", "validation"},
         mask : NoMask .. MaxEdits, digest : NoMask .. MaxEdits, outcome : Outcome]

LEMMA StateFacts ==
  ASSUME TypeOK
  PROVE  /\ doc \in Document /\ doc.jobs = Last
         /\ Last \in Nat /\ Last <= Budget /\ Budget \in Nat
         /\ Tried \in Nat /\ Checked \in Nat /\ Tried <= Len(Binaries) /\ Checked <= Len(Validation)
         /\ job \in Call /\ edits \in Nat /\ edits <= MaxEdits /\ MaxEdits \in Nat
         /\ \A b \in Names(Binaries) : masks[b] \in NoMask .. MaxEdits
         /\ \A n \in Jobs : solved[n] \in NoMask .. MaxEdits
         /\ Len(launched) \in Nat /\ \A i \in 1 .. Len(launched) : launched[i] \in Jobs
<1>1. doc \in Document /\ doc.jobs = Last
  BY DEF TypeOK, Last
<1>2. doc.jobs \in 0 .. Budget /\ Last \in Nat /\ Tried \in Nat /\ Checked \in Nat
  BY <1>1, DocumentFacts DEF Last, Tried, Checked
<1>3. Last <= Budget
  BY <1>1, <1>2
<1>4. Tried <= Len(Binaries) /\ Checked <= Len(Validation)
  BY DEF TypeOK, Tried, Checked
<1>5. job \in Call
  BY DEF TypeOK, Call
<1>6. edits \in Nat /\ edits <= MaxEdits /\ MaxEdits \in Nat
  BY CampaignBounds DEF TypeOK
<1>7. /\ \A b \in Names(Binaries) : masks[b] \in NoMask .. MaxEdits
      /\ \A n \in Jobs : solved[n] \in NoMask .. MaxEdits
      /\ Len(launched) \in Nat /\ \A i \in 1 .. Len(launched) : launched[i] \in Jobs
  BY DEF TypeOK
<1>8. QED
  BY <1>1, <1>2, <1>3, <1>4, <1>5, <1>6, <1>7, BudgetNat

LEMMA CallFacts ==
  ASSUME NEW j \in Call
  PROVE  /\ j.name \in Jobs \cup {SelectedBinary} /\ j.stage \in {"startup", "binary", "validation"}
         /\ j.mask \in NoMask .. MaxEdits /\ j.digest \in NoMask .. MaxEdits
         /\ j.outcome \in Outcome
BY DEF Call

LEMMA OutcomeFacts ==
  ASSUME NEW o \in Outcome
  PROVE  /\ o.exit \in {"ok", "failed"} /\ o.receipt \in {"none", "unreadable", "incomplete", "complete"}
         /\ o.trace \in {"unverified", "within", "overrun"} /\ o.finished \in BOOLEAN
         /\ CostOf(o) \in Cost /\ Partial(o) \in BOOLEAN /\ Over(o) \in BOOLEAN
         /\ CostOf(o) = "overrun" <=> Over(o)
         /\ ~ o.finished => Partial(o)
BY DEF Outcome, CostOf, Cost, Partial, Over, Complete

\* A call for the next job of the plan.
NewCall(n, stage) == [NoJob EXCEPT !.name = n, !.stage = stage]

LEMMA NewCallFacts ==
  ASSUME NEW n \in Jobs, NEW stage \in {"startup", "binary", "validation"}
  PROVE  /\ NewCall(n, stage) \in Call
         /\ NewCall(n, stage).name = n /\ NewCall(n, stage).stage = stage
<1>1. Nothing \in Outcome
  BY DEF Nothing, Outcome
<1>2. NoMask \in NoMask .. MaxEdits
  BY CampaignBounds DEF NoMask
<1>3. QED
  BY <1>1, <1>2 DEF NoJob, Call, NewCall

LEMMA StartupCall ==
  ASSUME NEW n \in Jobs
  PROVE  [NoJob EXCEPT !.name = n] = NewCall(n, "startup")
<1>1. NoJob \in Call /\ NoJob.stage = "startup"
  BY CampaignBounds DEF NoJob, Call, Nothing, Outcome, NoMask
<1> HIDE DEF NoJob
<1>2. QED
  BY <1>1 DEF Call, NewCall

\* The job under way is one of the plan, and so is its mask.
LEMMA BusyFacts ==
  ASSUME TypeOK, Place, RowMatches, pc \in Busy \cup {"candidate", "judge"}
  PROVE  /\ job.name \in Jobs /\ job \in Call /\ MaskNow(job) \in NoMask .. MaxEdits
         /\ job.stage \in {"startup", "binary", "validation"}
         /\ job.stage = "startup" => job.name \in Names(Startup)
         /\ job.stage = "binary" => job.name \in Names(Binaries)
         /\ job.stage = "validation" =>
              job.name \in Names(Validation) /\ doc.selection \in Names(Binaries)
<1>1. /\ job \in Call /\ job.stage \in {"startup", "binary", "validation"}
      /\ Last \in Nat /\ Tried \in Nat /\ Checked \in Nat
  BY StateFacts, CallFacts
<1>2. Settled \in Nat /\ Settled <= Last
  BY <1>1 DEF Settled, RowMatches
<1>3. CASE job.stage = "startup"
  <2>1. pc \notin {"candidate", "judge"}
    BY <1>3 DEF Place, BinaryPlace, ValidationPlace, InBinary, InValidation
  <2>2. Settled < Len(Startup) /\ job.name = Startup[Settled + 1]
    BY <1>3, <2>1 DEF Place, StartupPlace, InStartup, Busy, Working
  <2>3. job.name \in Names(Startup)
    BY <1>2, <2>2, ListFacts
  <2>4. MaskNow(job) \in NoMask .. MaxEdits
    BY <1>3, CampaignBounds DEF MaskNow, NoMask
  <2>5. QED
    BY <1>1, <1>3, <2>3, <2>4 DEF Jobs
<1>4. CASE job.stage = "binary"
  <2>1. pc # "judge"
    BY <1>4 DEF Place, ValidationPlace, InValidation
  <2>2. InBinary /\ pc \notin {"select", "propose"}
    BY <1>4, <2>1 DEF InBinary, Busy, Working
  <2>3. Tried < Len(Binaries) /\ job.name = Binaries[Tried + 1]
    BY <2>2 DEF Place, BinaryPlace
  <2>4. job.name \in Names(Binaries)
    BY <1>1, <2>3, ListFacts
  <2>5. MaskNow(job) \in NoMask .. MaxEdits
    BY <1>4, <2>4, StateFacts DEF MaskNow, MaskOf
  <2>6. QED
    BY <1>1, <1>4, <2>4, <2>5 DEF Jobs
<1>5. CASE job.stage = "validation"
  <2>1. pc # "candidate"
    BY <1>5 DEF Place, BinaryPlace, InBinary
  <2>2. InValidation /\ pc \notin {"validate", "finish"}
    BY <1>5, <2>1 DEF InValidation, Busy, Working
  <2>3. Checked < Len(Validation) /\ job.name = Validation[Checked + 1] /\ doc.selection \in Names(Binaries)
    BY <2>2 DEF Place, ValidationPlace
  <2>4. job.name \in Names(Validation)
    BY <1>1, <2>3, ListFacts
  <2>5. MaskNow(job) \in NoMask .. MaxEdits
    BY <1>5, <2>3, StateFacts DEF MaskNow, MaskOf
  <2>6. QED
    BY <1>1, <1>5, <2>3, <2>4, <2>5 DEF Jobs
<1>6. QED
  BY <1>1, <1>3, <1>4, <1>5

-----------------------------------------------------------------------------
(* What the actions do to the document.                                    *)

SameLists ==
  /\ doc'.candidates = doc.candidates /\ doc'.locked = doc.locked
  /\ doc'.selection = doc.selection /\ doc'.hash = doc.hash

SameFlags == doc'.lower = doc.lower /\ doc'.stop = doc.stop

\* The rows are those of before, but for the status or the cost of the last one.
SameRows ==
  /\ Last' = Last
  /\ \A i \in 1 .. Last :
       doc'.runs[i].name = doc.runs[i].name /\ doc'.runs[i].mask = doc.runs[i].mask
  /\ \A i \in 1 .. Last - 1 : doc'.runs[i] = doc.runs[i]

Noted(status) ==
  /\ SameRows /\ SameLists /\ SameFlags /\ doc'.status = doc.status /\ doc'.jobs = doc.jobs
  /\ Row'.status = status /\ Row'.cost = Row.cost

Listed == doc'.runs = doc.runs /\ doc'.jobs = doc.jobs /\ SameFlags

LEMMA NotedFacts ==
  ASSUME TypeOK, Last > 0, NEW status \in RowStatus, doc' = Noting(doc, status)
  PROVE  Noted(status) /\ doc' \in Document
<1>1. doc \in Document /\ Last \in Nat
  BY StateFacts
<1>2. Last' = Len(doc'.runs)
  BY DEF Last
<1>3. Len(doc.runs) > 0
  BY DEF Last
<1>4. /\ doc' \in Document /\ Len(doc'.runs) = Len(doc.runs)
      /\ \A i \in 1 .. Len(doc.runs) :
           /\ doc'.runs[i].name = doc.runs[i].name /\ doc'.runs[i].mask = doc.runs[i].mask
           /\ doc'.runs[i].cost = doc.runs[i].cost
      /\ \A i \in 1 .. Len(doc.runs) - 1 : doc'.runs[i] = doc.runs[i]
      /\ doc'.runs[Len(doc.runs)].status = status
      /\ doc'.status = doc.status /\ doc'.candidates = doc.candidates /\ doc'.jobs = doc.jobs
      /\ doc'.selection = doc.selection /\ doc'.hash = doc.hash /\ doc'.locked = doc.locked
      /\ doc'.lower = doc.lower /\ doc'.stop = doc.stop
  BY <1>1, <1>3, NotingFacts
<1>5. Row' = doc'.runs[Last']
  BY DEF Row
<1>6. QED
  BY <1>1, <1>2, <1>4, <1>5 DEF Noted, SameRows, SameLists, SameFlags, Last, Row

LEMMA NativeEffect ==
  ASSUME TypeOK, Place, RowMatches, Native
  PROVE  /\ pc = "native" /\ UNCHANGED outside
         /\ \/ pc' = "handler" /\ UNCHANGED <<job, doc, disk, exit>>
            \/ /\ ~ doc.stop /\ Save("launch")
               /\ job' \in Call /\ job' = [job EXCEPT !.mask = MaskNow(job)]
               /\ job'.name = job.name /\ job'.stage = job.stage /\ job'.mask = MaskNow(job)
               /\ doc' \in Document /\ Last' = Last + 1 /\ doc'.jobs = doc.jobs + 1
               /\ \A i \in 1 .. Last : doc'.runs[i] = doc.runs[i]
               /\ doc'.runs[Last + 1].name = job.name
               /\ doc'.runs[Last + 1].mask = MaskNow(job)
               /\ doc'.runs[Last + 1].status = "executing"
               /\ doc'.runs[Last + 1].cost = "uncounted"
               /\ SameLists /\ SameFlags /\ doc'.status = doc.status
<1>1. pc = "native" /\ UNCHANGED outside
  BY DEF Native
<1>2. CASE doc.stop \/ doc.jobs >= Budget
  BY <1>1, <1>2 DEF Native
<1>3. CASE ~ (doc.stop \/ doc.jobs >= Budget)
  <2>1. job' = [job EXCEPT !.mask = MaskNow(job)] /\ doc' = Charged /\ Save("launch")
    BY <1>3 DEF Native
  <2>2. job.name \in Jobs /\ job \in Call /\ MaskNow(job) \in NoMask .. MaxEdits
    BY <1>1, BusyFacts DEF Busy
  <2>3. job' \in Call /\ job'.name = job.name /\ job'.stage = job.stage /\ job'.mask = MaskNow(job)
    BY <2>1, <2>2 DEF Call
  <2>4. doc.jobs < Budget
    BY <1>3, StateFacts
  <2>5. /\ doc' \in Document /\ Len(doc'.runs) = Last + 1
        /\ \A i \in 1 .. Last : doc'.runs[i] = doc.runs[i]
        /\ doc'.runs[Last + 1].name = job.name /\ doc'.runs[Last + 1].mask = MaskNow(job)
        /\ doc'.runs[Last + 1].status = "executing" /\ doc'.runs[Last + 1].cost = "uncounted"
        /\ doc'.status = doc.status /\ doc'.candidates = doc.candidates /\ doc'.jobs = doc.jobs + 1
        /\ doc'.selection = doc.selection /\ doc'.hash = doc.hash /\ doc'.locked = doc.locked
        /\ doc'.lower = doc.lower /\ doc'.stop = doc.stop
    BY <1>1, <2>1, <2>2, <2>4, ChargedFacts
  <2>6. Last' = Len(doc'.runs)
    BY DEF Last
  <2>7. QED
    BY <1>1, <1>3, <2>1, <2>3, <2>5, <2>6 DEF SameLists, SameFlags
<1>4. QED
  BY <1>2, <1>3

LEMMA CountEffect ==
  ASSUME TypeOK, Place, RowMatches, Count
  PROVE  /\ pc = "count" /\ UNCHANGED <<job, outside>> /\ Save("receipt")
         /\ doc' \in Document /\ SameRows /\ SameLists /\ doc'.jobs = doc.jobs
         /\ Row'.status = Row.status /\ Row'.cost = CostOf(job.outcome)
         /\ doc'.lower = (doc.lower \/ Partial(job.outcome))
         /\ doc'.stop = (doc.stop \/ Over(job.outcome))
         /\ doc'.status = IF Over(job.outcome) THEN "cost_overrun" ELSE doc.status
<1> DEFINE lower == doc.lower \/ Partial(job.outcome)
           stop == doc.stop \/ Over(job.outcome)
           status == IF Over(job.outcome) THEN "cost_overrun" ELSE doc.status
<1>1. pc = "count" /\ UNCHANGED <<job, outside>> /\ Save("receipt")
  BY DEF Count
<1>2. doc \in Document /\ job.outcome \in Outcome /\ Last \in Nat
  BY StateFacts, CallFacts
<1>3. Last > 0 /\ Len(doc.runs) > 0
  BY <1>1 DEF RowMatches, Working, Last
<1>4. CostOf(job.outcome) \in Cost /\ lower \in BOOLEAN /\ stop \in BOOLEAN /\ status \in DocStatus
  BY <1>2, OutcomeFacts, DocumentFacts DEF DocStatus
<1>5. doc' = Counted(doc, CostOf(job.outcome), lower, stop, status)
  BY DEF Count, Last, Counted
<1> HIDE DEF lower, stop, status
<1>6. /\ doc' \in Document /\ Len(doc'.runs) = Len(doc.runs)
      /\ \A i \in 1 .. Len(doc.runs) :
           /\ doc'.runs[i].name = doc.runs[i].name /\ doc'.runs[i].mask = doc.runs[i].mask
           /\ doc'.runs[i].status = doc.runs[i].status
      /\ \A i \in 1 .. Len(doc.runs) - 1 : doc'.runs[i] = doc.runs[i]
      /\ doc'.runs[Len(doc.runs)].cost = CostOf(job.outcome)
      /\ doc'.candidates = doc.candidates /\ doc'.jobs = doc.jobs
      /\ doc'.selection = doc.selection /\ doc'.hash = doc.hash /\ doc'.locked = doc.locked
      /\ doc'.lower = lower /\ doc'.stop = stop /\ doc'.status = status
  BY <1>2, <1>3, <1>4, <1>5, CountFacts
<1>7. Last' = Len(doc'.runs) /\ Row' = doc'.runs[Last']
  BY DEF Last, Row
<1>8. /\ SameRows /\ SameLists
      /\ Row'.status = Row.status /\ Row'.cost = CostOf(job.outcome)
  BY <1>2, <1>3, <1>6, <1>7 DEF SameRows, SameLists, Last, Row
<1>9. QED
  BY <1>1, <1>6, <1>8 DEF lower, stop, status

LEMMA CheckReceiptEffect ==
  ASSUME TypeOK, Place, RowMatches, CheckReceipt
  PROVE  /\ pc = "receipt" /\ UNCHANGED <<job, outside>> /\ doc' \in Document
         /\ \/ /\ Complete(job.outcome) /\ Noted("checking_native_evidence")
               /\ pc' = "evidence" /\ UNCHANGED <<disk, exit>>
            \/ Noted("execution_failure") /\ Save("handler")
<1>1. pc = "receipt" /\ UNCHANGED <<job, outside>>
  BY DEF CheckReceipt
<1>2. Last > 0
  BY <1>1 DEF RowMatches, Working
<1>3. CASE Complete(job.outcome)
  <2>1. doc' = Noting(doc, "checking_native_evidence") /\ pc' = "evidence" /\ UNCHANGED <<disk, exit>>
    BY <1>3 DEF CheckReceipt
  <2>2. Noted("checking_native_evidence") /\ doc' \in Document
    BY <1>2, <2>1, NotedFacts DEF RowStatus
  <2>3. QED
    BY <1>1, <1>3, <2>1, <2>2
<1>4. CASE ~ Complete(job.outcome)
  <2>1. doc' = Noting(doc, "execution_failure") /\ Save("handler")
    BY <1>4 DEF CheckReceipt
  <2>2. Noted("execution_failure") /\ doc' \in Document
    BY <1>2, <2>1, NotedFacts DEF RowStatus
  <2>3. QED
    BY <1>1, <2>1, <2>2
<1>5. QED
  BY <1>3, <1>4

LEMMA CheckEvidenceEffect ==
  ASSUME TypeOK, Place, RowMatches, CheckEvidence
  PROVE  /\ pc = "evidence" /\ UNCHANGED <<job, outside>> /\ doc' \in Document
         /\ \/ pc' = "handler" /\ UNCHANGED <<doc, disk, exit>>
            \/ Evidence(job) /\ ChecksGradient(job) /\ Noted("gradient_pass") /\ Save("startup")
            \/ Evidence(job) /\ Optimizes(job) /\ UNCHANGED doc /\ Save("analyse")
            \/ Evidence(job) /\ pc' = "analyse" /\ UNCHANGED <<doc, disk, exit>>
<1>1. pc = "evidence" /\ UNCHANGED <<job, outside>>
  BY DEF CheckEvidence
<1>2. Last > 0 /\ doc \in Document
  BY <1>1, StateFacts DEF RowMatches, Working
<1>3. CASE Evidence(job) /\ ChecksGradient(job)
  <2>1. doc' = Noting(doc, "gradient_pass") /\ Save("startup")
    BY <1>3 DEF CheckEvidence
  <2>2. Noted("gradient_pass") /\ doc' \in Document
    BY <1>2, <2>1, NotedFacts DEF RowStatus
  <2>3. QED
    BY <1>1, <1>3, <2>1, <2>2
<1>4. CASE ~ (Evidence(job) /\ ChecksGradient(job))
  <2>1. \/ pc' = "handler" /\ UNCHANGED <<doc, disk, exit>>
        \/ Evidence(job) /\ Optimizes(job) /\ UNCHANGED doc /\ Save("analyse")
        \/ Evidence(job) /\ pc' = "analyse" /\ UNCHANGED <<doc, disk, exit>>
    BY <1>4 DEF CheckEvidence
  <2>2. UNCHANGED doc
    BY <2>1
  <2>3. doc' \in Document
    BY <1>2, <2>2
  <2>4. QED
    BY <1>1, <2>1, <2>3
<1>5. QED
  BY <1>3, <1>4

LEMMA AnalyseEffect ==
  ASSUME TypeOK, Place, RowMatches, Analyse
  PROVE  /\ pc = "analyse" /\ UNCHANGED <<job, outside>> /\ doc' \in Document
         /\ \/ Noted("analysis_execution_failure") /\ Save("handler")
            \/ /\ \E status \in Scientific : Noted(status)
               /\ \/ doc.stop /\ Save("handler")
                  \/ ~ doc.stop /\ Save(Caller(job.stage))
<1>1. pc = "analyse" /\ UNCHANGED <<job, outside>>
  BY DEF Analyse
<1>2. Last > 0
  BY <1>1 DEF RowMatches, Working
<1>3. CASE doc' = Noting(doc, "analysis_execution_failure") /\ Save("handler")
  <2>1. Noted("analysis_execution_failure") /\ doc' \in Document
    BY <1>2, <1>3, NotedFacts DEF RowStatus
  <2>2. QED
    BY <1>1, <1>3, <2>1
<1>4. CASE \E accepted \in BOOLEAN :
             /\ doc' = Noting(doc, IF accepted THEN "scientific_pass" ELSE "scientific_failure")
             /\ Save(IF doc.stop THEN "handler" ELSE Caller(job.stage))
  <2>1. PICK accepted \in BOOLEAN :
             /\ doc' = Noting(doc, IF accepted THEN "scientific_pass" ELSE "scientific_failure")
             /\ Save(IF doc.stop THEN "handler" ELSE Caller(job.stage))
    BY <1>4
  <2>2. PICK status \in Scientific : doc' = Noting(doc, status)
    BY <2>1 DEF Scientific
  <2>3. Noted(status) /\ doc' \in Document
    BY <1>2, <2>2, NotedFacts DEF RowStatus, Scientific
  <2>4. doc.stop \/ ~ doc.stop
    OBVIOUS
  <2>5. QED
    BY <1>1, <2>1, <2>3, <2>4
<1>5. QED
  BY <1>3, <1>4 DEF Analyse

LEMMA AddCandidateEffect ==
  ASSUME TypeOK, Place, RowMatches, AddCandidate
  PROVE  /\ pc = "candidate" /\ UNCHANGED <<job, outside>> /\ doc' \in Document
         /\ Listed /\ doc'.status = doc.status /\ doc'.locked = doc.locked
         /\ doc'.selection = doc.selection /\ doc'.hash = doc.hash
         /\ Tried' = Tried + 1 /\ Tried + 1 <= Len(Binaries)
         /\ \A i \in 1 .. Tried : doc'.candidates[i] = doc.candidates[i]
         /\ doc'.candidates[Tried + 1].name = job.name
         /\ \/ Save("select")
            \/ Tried + 1 # Len(Binaries) /\ Save("propose")
<1>1. pc = "candidate" /\ UNCHANGED <<job, outside>>
  BY DEF AddCandidate
<1>2. PICK imbalance \in Unmeasured .. MaxImbalance :
       LET accepted == Row.status = "scientific_pass"
           enough == (accepted /\ imbalance = 0) \/ Len(doc.candidates) + 1 = Len(Binaries)
       IN  /\ doc' = [doc EXCEPT !.candidates = Append(@,
                        [name |-> job.name, accepted |-> accepted, imbalance |-> imbalance])]
           /\ Save(IF enough THEN "select" ELSE "propose")
  BY DEF AddCandidate
<1> DEFINE accepted == Row.status = "scientific_pass"
           new == [name |-> job.name, accepted |-> accepted, imbalance |-> imbalance]
           candidates == Append(doc.candidates, new)
<1>3. /\ doc' = [doc EXCEPT !.candidates = candidates]
      /\ Save("select") \/ (Tried + 1 # Len(Binaries) /\ Save("propose"))
  BY <1>2 DEF Tried
<1>4. doc \in Document /\ doc.candidates \in Seq(Candidates) /\ Tried \in Nat
  BY StateFacts, DocumentFacts
<1>5. job.stage = "binary" /\ Tried < Len(Binaries)
  BY <1>1 DEF Place, BinaryPlace, InBinary
<1>6. job.name \in Names(Binaries)
  BY <1>1, <1>5, BusyFacts
<1>7. new \in Candidates /\ new.name = job.name
  BY <1>6 DEF Candidates
<1> HIDE DEF new
<1>8. /\ candidates \in Seq(Candidates) /\ Len(candidates) = Tried + 1
      /\ \A i \in 1 .. Tried : candidates[i] = doc.candidates[i]
      /\ candidates[Tried + 1] = new
  BY <1>4, <1>7 DEF Tried
<1> HIDE DEF candidates
<1>9. /\ doc' \in Document /\ doc'.candidates = candidates /\ Listed
      /\ doc'.status = doc.status /\ doc'.locked = doc.locked
      /\ doc'.selection = doc.selection /\ doc'.hash = doc.hash
  BY <1>3, <1>4, <1>8 DEF Document, Listed, SameFlags
<1>10. Tried' = Len(doc'.candidates)
  BY DEF Tried
<1>11. Tried + 1 <= Len(Binaries)
  BY <1>4, <1>5, ListFacts
<1>12. QED
  BY <1>1, <1>3, <1>7, <1>8, <1>9, <1>10, <1>11

\* Every set of numbers that is not empty has a smallest one.
LEMMA SmallestNumber ==
  ASSUME NEW T, T \subseteq Nat, T # {}
  PROVE  \E x \in T : \A y \in T : x <= y
<1> DEFINE Less == OpToRel(<, Nat)
<1>1. IsWellFoundedOn(Less, Nat)
  BY NatLessThanWellFounded
<1>2. \A x, y \in Nat : x < y => <<x, y>> \in Less
  BY DEF OpToRel
<1> HIDE DEF Less
<1>3. PICK x \in T : \A y \in T : ~ (<<y, x>> \in Less)
  BY <1>1, WFMin
<1>4. \A y \in T : ~ (y < x)
  BY <1>2, <1>3, Zenon
<1>5. \A y \in T : x <= y
  BY <1>4, SMT
<1>6. QED
  BY <1>5

\* select_candidate: the candidate it takes is one of those that passed.
LEMMA BestFacts ==
  ASSUME NEW candidates \in Seq(Candidates), Passing(candidates) # {}
  PROVE  Best(candidates) \in Passing(candidates)
<1> DEFINE P == Passing(candidates)
           distances == {candidates[i].imbalance : i \in P}
<1>1. \A i \in P : candidates[i].imbalance \in Nat /\ i \in Nat
  <2>1. TAKE i \in P
  <2>2. i \in 1 .. Len(candidates) /\ candidates[i].imbalance # Unmeasured
    BY <2>1 DEF Passing
  <2>3. candidates[i] \in Candidates
    BY <2>2
  <2>4. candidates[i].imbalance \in Unmeasured .. MaxImbalance
    BY <2>3 DEF Candidates
  <2>5. QED
    BY <2>2, <2>4, CampaignBounds DEF Unmeasured
<1> HIDE DEF P
<1>2. PICK low \in distances : \A d \in distances : low <= d
  <2>1. distances \subseteq Nat /\ distances # {}
    BY <1>1 DEF P
  <2>2. QED
    BY <2>1, SmallestNumber
<1> DEFINE Nearest == {i \in P : candidates[i].imbalance = low}
<1>3. PICK i \in Nearest : \A j \in Nearest : i <= j
  <2>1. Nearest \subseteq Nat /\ Nearest # {}
    BY <1>1, <1>2
  <2>2. QED
    BY <2>1, SmallestNumber
<1>4. i \in P /\ candidates[i].imbalance = low
  BY <1>3
<1>5. \A j \in P : \/ candidates[i].imbalance < candidates[j].imbalance
                   \/ candidates[i].imbalance = candidates[j].imbalance /\ i <= j
  <2>1. TAKE j \in P
  <2>2. low <= candidates[j].imbalance
    BY <1>2
  <2>3. candidates[j].imbalance = low => i <= j
    BY <1>3
  <2>4. QED
    BY <1>1, <1>4, <2>2, <2>3
<1>6. QED
  BY <1>4, <1>5 DEF Best, P

LEMMA SelectEffect ==
  ASSUME TypeOK, Place, RowMatches, Select
  PROVE  /\ pc = "select" /\ UNCHANGED <<job, outside>> /\ doc' \in Document
         /\ Listed /\ doc'.candidates = doc.candidates /\ doc'.locked = doc.locked
         /\ \/ doc'.status = "scientific_failure" /\ SaveAndExit("2")
            \/ /\ doc'.status = doc.status /\ pc' = "validate" /\ UNCHANGED <<disk, exit>>
               /\ doc'.selection \in Names(Binaries) /\ doc'.hash = masks[doc'.selection]
               /\ \E i \in 1 .. Tried :
                    doc.candidates[i].name = doc'.selection /\ doc.candidates[i].accepted
<1>1. pc = "select" /\ UNCHANGED <<job, outside>>
  BY DEF Select
<1>2. doc \in Document /\ doc.candidates \in Seq(Candidates) /\ Tried \in Nat
  BY StateFacts, DocumentFacts
<1>3. CASE Passing(doc.candidates) = {}
  <2>1. doc' = [doc EXCEPT !.status = "scientific_failure"] /\ SaveAndExit("2")
    BY <1>3 DEF Select
  <2>2. /\ doc' \in Document /\ doc'.status = "scientific_failure" /\ Listed
        /\ doc'.candidates = doc.candidates /\ doc'.locked = doc.locked
    BY <1>2, <2>1 DEF Document, DocStatus, Listed, SameFlags
  <2>3. QED
    BY <1>1, <2>1, <2>2
<1>4. CASE Passing(doc.candidates) # {}
  <2> DEFINE i == Best(doc.candidates)
             name == doc.candidates[i].name
  <2>1. i \in Passing(doc.candidates)
    BY <1>2, <1>4, BestFacts
  <2>2. i \in 1 .. Tried /\ doc.candidates[i].accepted
    BY <2>1 DEF Passing, Tried
  <2>3. name \in Names(Binaries)
    <3>1. doc.candidates[i] \in Candidates
      BY <1>2, <2>2 DEF Tried
    <3>2. QED
      BY <3>1 DEF Candidates
  <2>4. masks[name] \in NoMask .. MaxEdits
    BY <2>3, StateFacts
  <2>5. doc' = [doc EXCEPT !.selection = name, !.hash = masks[name]]
        /\ pc' = "validate" /\ UNCHANGED <<disk, exit>>
    BY <1>4 DEF Select
  <2> HIDE DEF name
  <2>6. /\ doc' \in Document /\ doc'.selection = name /\ doc'.hash = masks[name] /\ Listed
        /\ doc'.status = doc.status
        /\ doc'.candidates = doc.candidates /\ doc'.locked = doc.locked
    BY <1>2, <2>3, <2>4, <2>5 DEF Document, Listed, SameFlags
  <2>7. \E k \in 1 .. Tried : doc.candidates[k].name = name /\ doc.candidates[k].accepted
    BY <2>2 DEF name
  <2>8. QED
    BY <1>1, <2>3, <2>5, <2>6, <2>7
<1>5. QED
  BY <1>3, <1>4

\* A check that the driver goes on after.
Accepted(n) == [name |-> n, accepted |-> TRUE, converged |-> TRUE]

LEMMA JudgeEffect ==
  ASSUME TypeOK, Place, RowMatches, Judge
  PROVE  /\ pc = "judge" /\ UNCHANGED <<job, outside>> /\ doc' \in Document
         /\ \/ pc' = "handler" /\ UNCHANGED <<doc, disk, exit>>
            \/ /\ Listed /\ doc'.candidates = doc.candidates
               /\ doc'.selection = doc.selection /\ doc'.hash = doc.hash
               /\ Checked' = Checked + 1
               /\ \A k \in 1 .. Checked : doc'.locked[k] = doc.locked[k]
               /\ \/ doc'.status = "scientific_failure" /\ SaveAndExit("2")
                  \/ /\ doc'.status = doc.status
                     /\ doc'.locked[Checked + 1] = Accepted(job.name)
                     /\ Row.status = "scientific_pass"
                     /\ \/ Checked + 1 = Len(Validation) /\ Save("finish")
                        \/ Checked + 1 # Len(Validation) /\ Save("validate")
<1>1. pc = "judge" /\ UNCHANGED <<job, outside>>
  BY DEF Judge
<1>2. doc \in Document /\ doc.locked \in Seq(Checks) /\ Checked \in Nat
  BY StateFacts, DocumentFacts
<1>3. job.stage = "validation"
  BY <1>1 DEF Place, ValidationPlace, InValidation
<1>4. job.name \in Names(Validation)
  BY <1>1, <1>3, BusyFacts
<1>5. PICK converged \in BOOLEAN :
       LET check == [name |-> job.name, accepted |-> Row.status = "scientific_pass",
                     converged |-> job.name \in DOMAIN Baseline => converged]
           locked == Append(doc.locked, check)
       IN  IF job.name \in DOMAIN Baseline /\ Baseline[job.name] \notin Observed
             THEN pc' = "handler" /\ UNCHANGED <<doc, disk, exit>>
           ELSE IF Failed(locked)
             THEN /\ doc' = [doc EXCEPT !.locked = locked, !.status = "scientific_failure"]
                  /\ SaveAndExit("2")
           ELSE /\ doc' = [doc EXCEPT !.locked = locked]
                /\ Save(IF Len(locked) = Len(Validation) THEN "finish" ELSE "validate")
  BY DEF Judge
<1> DEFINE passed == Row.status = "scientific_pass"
           close == job.name \in DOMAIN Baseline => converged
           check == [name |-> job.name, accepted |-> passed, converged |-> close]
           locked == Append(doc.locked, check)
<1>6. CASE pc' = "handler" /\ UNCHANGED <<doc, disk, exit>>
  BY <1>1, <1>2, <1>6
<1>7. CASE ~ (pc' = "handler" /\ UNCHANGED <<doc, disk, exit>>)
  <2>1. passed \in BOOLEAN /\ close \in BOOLEAN
    OBVIOUS
  <2>2. \/ /\ Failed(locked) /\ SaveAndExit("2")
           /\ doc' = [doc EXCEPT !.locked = locked, !.status = "scientific_failure"]
        \/ /\ ~ Failed(locked) /\ doc' = [doc EXCEPT !.locked = locked]
           /\ Save(IF Len(locked) = Len(Validation) THEN "finish" ELSE "validate")
    BY <1>5, <1>7
  <2> HIDE DEF passed, close
  <2>3. check \in Checks /\ check.accepted = passed /\ check.converged = close
    BY <1>4, <2>1 DEF Checks
  <2>4. passed /\ close => check = Accepted(job.name)
    BY <2>1 DEF Accepted
  <2> HIDE DEF check
  <2>5. /\ locked \in Seq(Checks) /\ Len(locked) = Checked + 1
        /\ \A k \in 1 .. Checked : locked[k] = doc.locked[k]
        /\ locked[Checked + 1] = check
    BY <1>2, <2>3 DEF Checked
  <2> HIDE DEF locked
  <2>6. Checked' = Len(doc'.locked)
    BY DEF Checked
  <2>7. CASE /\ Failed(locked) /\ SaveAndExit("2")
             /\ doc' = [doc EXCEPT !.locked = locked, !.status = "scientific_failure"]
    <3>1. /\ doc' \in Document /\ Listed /\ doc'.candidates = doc.candidates
          /\ doc'.selection = doc.selection /\ doc'.hash = doc.hash
          /\ doc'.locked = locked /\ doc'.status = "scientific_failure"
      BY <1>2, <2>5, <2>7 DEF Document, DocStatus, Listed, SameFlags
    <3>2. QED
      BY <1>1, <2>5, <2>6, <2>7, <3>1
  <2>8. CASE /\ ~ Failed(locked) /\ doc' = [doc EXCEPT !.locked = locked]
             /\ Save(IF Len(locked) = Len(Validation) THEN "finish" ELSE "validate")
    <3>1. /\ doc' \in Document /\ Listed /\ doc'.candidates = doc.candidates
          /\ doc'.selection = doc.selection /\ doc'.hash = doc.hash
          /\ doc'.locked = locked /\ doc'.status = doc.status
      BY <1>2, <2>5, <2>8 DEF Document, DocStatus, Listed, SameFlags
    <3>2. check.accepted /\ check.converged
      BY <1>2, <2>5, <2>8 DEF Failed
    <3>3. passed /\ close
      BY <2>3, <3>2
    <3>4. check = Accepted(job.name) /\ Row.status = "scientific_pass"
      BY <2>4, <3>3 DEF passed
    <3>5. \/ Checked + 1 = Len(Validation) /\ Save("finish")
          \/ Checked + 1 # Len(Validation) /\ Save("validate")
      BY <2>5, <2>8
    <3>6. QED
      BY <1>1, <2>5, <2>6, <3>1, <3>4, <3>5
  <2>9. QED
    BY <2>2, <2>7, <2>8
<1>8. QED
  BY <1>6, <1>7

LEMMA FinishEffect ==
  ASSUME TypeOK, Finish
  PROVE  /\ pc = "finish" /\ UNCHANGED <<job, outside>> /\ doc' \in Document
         /\ \/ pc' = "handler" /\ UNCHANGED <<doc, disk, exit>>
            \/ /\ Listed /\ SameLists /\ doc'.status = "pass" /\ SaveAndExit("0")
<1>1. pc = "finish" /\ UNCHANGED <<job, outside>>
  BY DEF Finish
<1>2. doc \in Document
  BY StateFacts
<1>3. \/ doc' = [doc EXCEPT !.status = "pass"] /\ SaveAndExit("0")
      \/ pc' = "handler" /\ UNCHANGED <<doc, disk, exit>>
  BY DEF Finish
<1>4. ASSUME doc' = [doc EXCEPT !.status = "pass"]
      PROVE  doc' \in Document /\ Listed /\ SameLists /\ doc'.status = "pass"
  BY <1>2, <1>4 DEF Document, DocStatus, Listed, SameFlags, SameLists
<1>5. QED
  BY <1>1, <1>2, <1>3, <1>4

LEMMA HandleEffect ==
  ASSUME TypeOK, Handle
  PROVE  /\ pc = "handler" /\ pc' = "ended" /\ UNCHANGED <<job, outside>> /\ doc' \in Document
         /\ Listed /\ SameLists
         /\ doc'.status = IF doc.stop THEN "cost_overrun" ELSE "execution_failure"
         /\ \/ disk' = doc' /\ exit' = IF doc.stop THEN "3" ELSE "1"
            \/ disk' \in {disk, doc', Torn} /\ exit' = "1"
<1>1. /\ pc = "handler" /\ pc' = "ended" /\ UNCHANGED <<job, outside>>
      /\ \/ disk' = doc' /\ exit' = IF doc.stop THEN "3" ELSE "1"
         \/ disk' \in {disk, doc', Torn} /\ exit' = "1"
  BY DEF Handle
<1>2. doc \in Document
  BY StateFacts
<1> DEFINE status == IF doc.stop THEN "cost_overrun" ELSE "execution_failure"
<1>3. doc' = [doc EXCEPT !.status = status] /\ status \in DocStatus
  BY DEF Handle, DocStatus
<1> HIDE DEF status
<1>4. doc' \in Document /\ Listed /\ SameLists /\ doc'.status = status
  BY <1>2, <1>3 DEF Document, Listed, SameFlags, SameLists
<1>5. QED
  BY <1>1, <1>4 DEF status

-----------------------------------------------------------------------------
(* Type correctness.                                                       *)

Steps == {"begin", "startup", "native", "launch", "render", "digest", "compute", "hung",
          "returned", "count", "receipt", "evidence", "analyse", "propose", "candidate",
          "select", "validate", "judge", "finish", "handler", "ended"}
Exits == {"none", "0", "1", "2", "3", "killed"}

LEMMA SaveFacts ==
  ASSUME TypeOK, doc' \in Document, NEW next \in Steps, Save(next)
  PROVE  /\ pc' \in {next, "handler"} /\ pc' \in Steps /\ exit' = exit
         /\ disk' \in {doc', disk, Torn} /\ disk' \in Document \cup {NoFile, Torn}
         /\ pc' = "handler" \/ disk' = doc'
<1>1. disk \in Document \cup {NoFile, Torn}
  BY DEF TypeOK
<1>2. QED
  BY <1>1 DEF Save, SaveFails, Steps

LEMMA SaveAndExitFacts ==
  ASSUME TypeOK, doc' \in Document, NEW code \in Exits, SaveAndExit(code)
  PROVE  /\ disk' \in Document \cup {NoFile, Torn} /\ exit' \in Exits
         /\ \/ pc' = "ended" /\ disk' = doc' /\ exit' = code
            \/ pc' = "handler" /\ disk' \in {disk, doc', Torn} /\ exit' = exit
<1>1. disk \in Document \cup {NoFile, Torn} /\ exit \in Exits
  BY DEF TypeOK, Exits
<1>2. QED
  BY <1>1 DEF SaveAndExit, SaveFails

\* What has to be shown of a step that the solvers and the mask files take no part in.
LEMMA DriverTypes ==
  ASSUME TypeOK, UNCHANGED outside,
         pc' \in Steps, job' \in Call, doc' \in Document, doc'.jobs = Last',
         Tried' <= Len(Binaries), Checked' <= Len(Validation),
         disk' \in Document \cup {NoFile, Torn}, exit' \in Exits
  PROVE  TypeOK'
BY DEF TypeOK, outside, Steps, Call, Exits, Tried, Checked, Last

LEMMA SameDocument ==
  ASSUME TypeOK, UNCHANGED doc
  PROVE  /\ doc' \in Document /\ doc'.jobs = Last' /\ Tried' <= Len(Binaries)
         /\ Checked' <= Len(Validation) /\ Tried' = Tried /\ Checked' = Checked /\ Last' = Last
BY StateFacts DEF Last, Tried, Checked

LEMMA ListedFacts ==
  ASSUME TypeOK, Listed
  PROVE  Last' = Last /\ doc'.jobs = Last' /\ Row' = Row
         /\ (Overrun' <=> Overrun)
BY StateFacts DEF Listed, Last, Row, Overrun

LEMMA SameListsFacts ==
  ASSUME TypeOK, SameLists
  PROVE  /\ Tried' = Tried /\ Checked' = Checked
         /\ Tried' <= Len(Binaries) /\ Checked' <= Len(Validation)
BY StateFacts DEF SameLists, Tried, Checked

LEMMA TypeStep ==
  ASSUME TypeOK, Place, RowMatches, Next
  PROVE  TypeOK'
<1>1. /\ doc \in Document /\ job \in Call /\ pc \in Steps /\ exit \in Exits
      /\ disk \in Document \cup {NoFile, Torn} /\ doc.jobs = Last
      /\ Last \in Nat /\ Tried \in Nat /\ Checked \in Nat
      /\ Tried <= Len(Binaries) /\ Checked <= Len(Validation)
  BY StateFacts DEF TypeOK, Steps, Exits
<1>2. CASE Begin
  <2>1. /\ pc' \in Steps /\ exit' \in Exits /\ disk' \in {doc, disk, Torn}
        /\ UNCHANGED <<job, doc, outside>>
    BY <1>1, <1>2 DEF Begin, Steps, Exits
  <2>2. QED
    BY <1>1, <2>1, SameDocument, DriverTypes
<1>3. CASE NextStartup
  <2>1. UNCHANGED <<doc, disk, exit, outside>> /\ pc' \in Steps
    BY <1>3 DEF NextStartup, Steps
  <2>2. Last # Len(Startup) /\ InStartup => Last + 1 \in 1 .. Len(Startup)
    <3>1. pc = "startup"
      BY <1>3 DEF NextStartup
    <3>2. Last <= Len(Startup)
      BY <3>1 DEF Place, StartupPlace, InStartup, Settled, Working
    <3>3. QED
      BY <1>1, <3>2, ListFacts
  <2>3. InStartup
    BY <1>3 DEF NextStartup, InStartup
  <2>4. job' \in Call
    <3>1. CASE UNCHANGED job
      BY <1>1, <3>1
    <3>2. CASE job' = [NoJob EXCEPT !.name = Startup[Last + 1]] /\ Last # Len(Startup)
      <4>1. Startup[Last + 1] \in Jobs
        BY <2>2, <2>3, <3>2, ListFacts DEF Jobs
      <4>2. job' = NewCall(Startup[Last + 1], "startup")
        BY <3>2, <4>1, StartupCall
      <4>3. QED
        BY <4>1, <4>2, NewCallFacts
    <3>3. QED
      BY <1>3, <3>1, <3>2 DEF NextStartup
  <2>5. QED
    BY <1>1, <2>1, <2>4, SameDocument, DriverTypes
<1>4. CASE Native
  <2>1. CASE pc' = "handler" /\ UNCHANGED <<job, doc, disk, exit>>
    <3>1. UNCHANGED outside /\ pc' \in Steps
      BY <1>4, <2>1, NativeEffect DEF Steps
    <3>2. QED
      BY <1>1, <2>1, <3>1, SameDocument, DriverTypes
  <2>2. CASE ~ (pc' = "handler" /\ UNCHANGED <<job, doc, disk, exit>>)
    <3>1. /\ UNCHANGED outside /\ Save("launch") /\ job' \in Call /\ doc' \in Document
          /\ doc'.jobs = Last' /\ SameLists
      BY <1>1, <1>4, <2>2, NativeEffect
    <3>2. pc' \in Steps /\ exit' = exit /\ disk' \in Document \cup {NoFile, Torn}
      BY <3>1, SaveFacts DEF Steps
    <3>3. QED
      BY <1>1, <3>1, <3>2, SameListsFacts, DriverTypes
  <2>3. QED
    BY <2>1, <2>2
<1>5. CASE Launch
  <2>1. job.name \in Jobs
    BY <1>5, BusyFacts DEF Launch, Busy, Working
  <2>2. QED
    BY <1>5, <2>1 DEF Launch, TypeOK
<1>6. CASE ReadReceipt
  <2>1. UNCHANGED <<job, doc, disk, exit, outside>> /\ pc' \in Steps
    BY <1>6 DEF ReadReceipt, Steps
  <2>2. QED
    BY <1>1, <2>1, SameDocument, DriverTypes
<1>7. CASE Count
  <2>1. /\ UNCHANGED <<job, outside>> /\ Save("receipt") /\ doc' \in Document
        /\ doc'.jobs = Last' /\ SameLists
    BY <1>1, <1>7, CountEffect DEF SameRows
  <2>2. pc' \in Steps /\ exit' = exit /\ disk' \in Document \cup {NoFile, Torn}
    BY <2>1, SaveFacts DEF Steps
  <2>3. QED
    BY <1>1, <2>1, <2>2, SameListsFacts, DriverTypes
<1>8. CASE CheckReceipt
  <2>1. UNCHANGED <<job, outside>> /\ doc' \in Document /\ doc'.jobs = Last' /\ SameLists
    BY <1>1, <1>8, CheckReceiptEffect DEF Noted, SameRows
  <2>2. pc' \in Steps /\ exit' = exit /\ disk' \in Document \cup {NoFile, Torn}
    BY <1>1, <1>8, <2>1, CheckReceiptEffect, SaveFacts DEF Steps
  <2>3. QED
    BY <1>1, <2>1, <2>2, SameListsFacts, DriverTypes
<1>9. CASE CheckEvidence
  <2>1. UNCHANGED <<job, outside>> /\ doc' \in Document /\ doc'.jobs = Last' /\ SameLists
    BY <1>1, <1>9, CheckEvidenceEffect DEF Noted, SameRows, SameLists, Last
  <2>2. pc' \in Steps /\ exit' = exit /\ disk' \in Document \cup {NoFile, Torn}
    BY <1>1, <1>9, <2>1, CheckEvidenceEffect, SaveFacts DEF Steps
  <2>3. QED
    BY <1>1, <2>1, <2>2, SameListsFacts, DriverTypes
<1>10. CASE Analyse
  <2>1. UNCHANGED <<job, outside>> /\ doc' \in Document /\ doc'.jobs = Last' /\ SameLists
    BY <1>1, <1>10, AnalyseEffect DEF Noted, SameRows
  <2>2. Caller(job.stage) \in Steps /\ "handler" \in Steps
    BY DEF Caller, Steps
  <2>3. pc' \in Steps /\ exit' = exit /\ disk' \in Document \cup {NoFile, Torn}
    BY <1>1, <1>10, <2>1, <2>2, AnalyseEffect, SaveFacts
  <2>4. QED
    BY <1>1, <2>1, <2>3, SameListsFacts, DriverTypes
<1>11. CASE Propose
  <2>1. Tried < Len(Binaries)
    BY <1>11 DEF Propose, Place, BinaryPlace, InBinary
  <2>2. Binaries[Tried + 1] \in Names(Binaries) /\ Binaries[Tried + 1] \in Jobs
    BY <1>1, <2>1, ListFacts DEF Jobs
  <2>3. job' = NewCall(Binaries[Tried + 1], "binary")
    BY <1>11 DEF Propose, Tried, NewCall
  <2>4. job' \in Call
    BY <2>2, <2>3, NewCallFacts
  <2>5. masks' \in [Names(Binaries) -> NoMask .. MaxEdits]
    <3>1. 0 \in NoMask .. MaxEdits
      BY CampaignBounds DEF NoMask
    <3>2. masks' = [masks EXCEPT ![Binaries[Tried + 1]] = 0]
      BY <1>11 DEF Propose, Tried
    <3>3. QED
      BY <2>2, <3>1, <3>2 DEF TypeOK
  <2>6. QED
    BY <1>11, <2>4, <2>5 DEF Propose, TypeOK, Call
<1>12. CASE AddCandidate
  <2>1. /\ UNCHANGED <<job, outside>> /\ doc' \in Document /\ doc'.jobs = Last'
        /\ Tried' <= Len(Binaries) /\ Checked' = Checked
    BY <1>1, <1>12, AddCandidateEffect, ListedFacts DEF Checked
  <2>2. pc' \in Steps /\ exit' = exit /\ disk' \in Document \cup {NoFile, Torn}
    BY <1>1, <1>12, <2>1, AddCandidateEffect, SaveFacts DEF Steps
  <2>3. QED
    BY <1>1, <2>1, <2>2, DriverTypes
<1>13. CASE Select
  <2>1. /\ UNCHANGED <<job, outside>> /\ doc' \in Document /\ doc'.jobs = Last'
        /\ Tried' = Tried /\ Checked' = Checked
    BY <1>1, <1>13, SelectEffect, ListedFacts DEF Tried, Checked
  <2>2. pc' \in Steps /\ exit' \in Exits /\ disk' \in Document \cup {NoFile, Torn}
    BY <1>1, <1>13, <2>1, SelectEffect, SaveAndExitFacts DEF Steps, Exits
  <2>3. QED
    BY <1>1, <2>1, <2>2, DriverTypes
<1>14. CASE Validate
  <2>1. UNCHANGED <<doc, disk, exit, outside>> /\ pc' \in Steps
    BY <1>14 DEF Validate, Steps
  <2>2. Checked < Len(Validation)
    BY <1>14 DEF Validate, Place, ValidationPlace, InValidation
  <2>3. Validation[Checked + 1] \in Jobs
    BY <1>1, <2>2, ListFacts DEF Jobs
  <2>4. job' \in Call
    <3>1. \/ UNCHANGED job
          \/ job' = NewCall(Validation[Checked + 1], "validation")
      BY <1>14 DEF Validate, Checked, NewCall
    <3>2. QED
      BY <1>1, <2>3, <3>1, NewCallFacts
  <2>5. QED
    BY <1>1, <2>1, <2>4, SameDocument, DriverTypes
<1>15. CASE Judge
  <2>1. CASE pc' = "handler" /\ UNCHANGED <<doc, disk, exit>>
    <3>1. UNCHANGED <<job, outside>> /\ pc' \in Steps
      BY <1>15, <2>1, JudgeEffect DEF Steps
    <3>2. QED
      BY <1>1, <2>1, <3>1, SameDocument, DriverTypes
  <2>2. CASE ~ (pc' = "handler" /\ UNCHANGED <<doc, disk, exit>>)
    <3>1. /\ UNCHANGED <<job, outside>> /\ doc' \in Document /\ doc'.jobs = Last'
          /\ Tried' = Tried
      BY <1>1, <1>15, <2>2, JudgeEffect, ListedFacts DEF Tried
    <3>2. Checked < Len(Validation)
      BY <1>15 DEF Judge, Place, ValidationPlace, InValidation
    <3>3. Checked' <= Len(Validation)
      BY <1>1, <1>15, <2>2, <3>2, JudgeEffect, ListFacts
    <3>4. pc' \in Steps /\ exit' \in Exits /\ disk' \in Document \cup {NoFile, Torn}
      BY <1>1, <1>15, <2>2, <3>1, JudgeEffect, SaveFacts, SaveAndExitFacts DEF Steps, Exits
    <3>5. QED
      BY <1>1, <3>1, <3>3, <3>4, DriverTypes
  <2>3. QED
    BY <2>1, <2>2
<1>16. CASE Finish
  <2>1. /\ UNCHANGED <<job, outside>> /\ doc' \in Document /\ doc'.jobs = Last'
        /\ Tried' = Tried /\ Checked' = Checked
    BY <1>1, <1>16, FinishEffect, ListedFacts, SameListsFacts, SameDocument
  <2>2. pc' \in Steps /\ exit' \in Exits /\ disk' \in Document \cup {NoFile, Torn}
    BY <1>1, <1>16, <2>1, FinishEffect, SaveAndExitFacts DEF Steps, Exits
  <2>3. QED
    BY <1>1, <2>1, <2>2, DriverTypes
<1>17. CASE Handle
  <2>1. /\ UNCHANGED <<job, outside>> /\ doc' \in Document /\ doc'.jobs = Last'
        /\ Tried' = Tried /\ Checked' = Checked
    BY <1>1, <1>17, HandleEffect, ListedFacts, SameListsFacts
  <2>2. pc' \in Steps /\ exit' \in Exits /\ disk' \in {doc', disk, Torn}
    BY <1>17, HandleEffect DEF Steps, Exits
  <2>3. QED
    BY <1>1, <2>1, <2>2, DriverTypes
<1>18. ASSUME NEW outcome \in Outcome, Returns(outcome)
       PROVE  TypeOK'
  <2>1. job' = [job EXCEPT !.outcome = outcome] /\ pc' = "returned"
    BY <1>18 DEF Returns
  <2>2. job' \in Call
    BY <1>1, <2>1 DEF Call
  <2>3. short' \subseteq Optimizations
    <3>1. Optimizes(job) => job.name \in Optimizations
      BY DEF Optimizes
    <3>2. QED
      BY <1>18, <3>1 DEF Returns, TypeOK
  <2>4. QED
    BY <1>18, <2>1, <2>2, <2>3 DEF Returns, TypeOK, Call
<1>19. CASE Refuse
  <2>1. [Nothing EXCEPT !.receipt = IF job.name \in folders THEN "complete" ELSE "none"] \in Outcome
    BY DEF Nothing, Outcome
  <2>2. QED
    BY <1>18, <1>19, <2>1 DEF Refuse
<1>20. CASE Render
  <2>1. MaskNow(job) \in NoMask .. MaxEdits
    BY <1>20, BusyFacts DEF Render, Busy, Working
  <2>2. QED
    BY <1>20, <2>1 DEF Render, TypeOK
<1>21. CASE Digest
  <2>1. MaskNow(job) \in NoMask .. MaxEdits /\ job.name \in Jobs
    BY <1>21, BusyFacts DEF Digest, Busy, Working
  <2>2. job' \in Call
    BY <1>1, <1>21, <2>1 DEF Digest, Call
  <2>3. QED
    BY <1>21, <2>1, <2>2 DEF Digest, TypeOK, Call
<1>22. CASE SolverEnds
  BY <1>18, <1>22 DEF SolverEnds, Outcomes
<1>23. CASE SolverKilled
  BY <1>18, <1>23 DEF SolverKilled, Outcomes
<1>24. CASE SolverHangs \/ Raise
  <2>1. UNCHANGED <<job, doc, disk, exit, outside>> /\ pc' \in Steps
    BY <1>24 DEF SolverHangs, Raise, Steps
  <2>2. QED
    BY <1>1, <2>1, SameDocument, DriverTypes
<1>25. CASE Die
  <2>1. /\ UNCHANGED <<job, doc, outside>> /\ pc' \in Steps /\ exit' \in Exits
        /\ disk' \in {disk, Torn}
    BY <1>25 DEF Die, Steps, Exits
  <2>2. QED
    BY <1>1, <2>1, SameDocument, DriverTypes
<1>26. CASE \E b \in Names(Binaries) : Edit(b)
  <2>1. PICK b \in Names(Binaries) : Edit(b)
    BY <1>26
  <2>2. edits' \in 0 .. MaxEdits /\ \A version \in 0 .. (edits + 1) : version \in NoMask .. MaxEdits
    BY <2>1, StateFacts DEF Edit, NoMask
  <2>3. PICK version \in 0 .. (edits + 1) :
          masks' = [masks EXCEPT ![b] = version] /\ restored' = (restored \/ version <= edits)
    BY <2>1 DEF Edit
  <2>4. masks' \in [Names(Binaries) -> NoMask .. MaxEdits] /\ restored' \in BOOLEAN
    BY <2>2, <2>3 DEF TypeOK
  <2>5. QED
    BY <2>1, <2>2, <2>4 DEF Edit, TypeOK
<1>27. QED
  BY <1>2, <1>3, <1>4, <1>5, <1>6, <1>7, <1>8, <1>9, <1>10, <1>11, <1>12, <1>13, <1>14, <1>15,
     <1>16, <1>17, <1>19, <1>20, <1>21, <1>22, <1>23, <1>24, <1>25, <1>26
     DEF Next, Driver, Solver

-----------------------------------------------------------------------------
(* Where the driver is in the plan.                                        *)

LEMMA StoppedPlace ==
  ASSUME pc' \in Stopped
  PROVE  Place'
BY DEF Stopped, Place, StartupPlace, BinaryPlace, ValidationPlace, InStartup, InBinary,
       InValidation, Busy, Working

\* While a job is worked on, the driver stays where it is.
LEMMA WorkingPlace ==
  ASSUME Place, pc \in Working, pc' \in Working, Last' = Last, SameLists,
         job'.name = job.name, job'.stage = job.stage
  PROVE  Place'
<1>1. pc # "begin" /\ pc' # "begin"
  BY DEF Working
<1>2. Settled' = Settled /\ Tried' = Tried /\ Checked' = Checked
  BY DEF Settled, SameLists, Tried, Checked
<1>3. /\ InStartup' <=> InStartup
      /\ InBinary' <=> InBinary
      /\ InValidation' <=> InValidation
  BY DEF InStartup, InBinary, InValidation, Working, Busy
<1>4. StartupPlace'
  BY <1>2, <1>3 DEF Place, StartupPlace, SameLists, Working
<1>5. BinaryPlace'
  BY <1>2, <1>3 DEF Place, BinaryPlace, SameLists, Working
<1>6. ValidationPlace'
  BY <1>2, <1>3 DEF Place, ValidationPlace, SameLists, Working
<1>7. QED
  BY <1>1, <1>4, <1>5, <1>6 DEF Place

LEMMA PlaceStep ==
  ASSUME TypeOK, Place, RowMatches, Next
  PROVE  Place'
<1>1. /\ doc \in Document /\ job \in Call
      /\ Last \in Nat /\ Tried \in Nat /\ Checked \in Nat
  BY StateFacts
<1>2. CASE Begin
  <2>1. doc' = NewDocument /\ pc' \in {"startup", "ended"}
    BY <1>2 DEF Begin, Place
  <2>2. CASE pc' = "startup"
    <3>1. doc'.candidates = <<>> /\ doc'.locked = <<>> /\ Last' = 0
      BY <2>1 DEF NewDocument, Last
    <3>2. Settled' = 0
      BY <2>2, <3>1 DEF Settled, Working
    <3>3. StartupPlace'
      BY <2>2, <3>1, <3>2, ListFacts DEF StartupPlace
    <3>4. QED
      BY <2>2, <3>3 DEF Place, BinaryPlace, ValidationPlace, InBinary, InValidation, Busy, Working
  <2>3. QED
    BY <2>1, <2>2, StoppedPlace DEF Stopped
<1>3. CASE NextStartup
  <2>1. /\ UNCHANGED doc /\ InStartup /\ pc = "startup" /\ Settled = Last /\ Last <= Len(Startup)
        /\ doc.candidates = <<>> /\ doc.locked = <<>> /\ Tried = 0
    BY <1>1, <1>3 DEF NextStartup, InStartup, Settled, Working, Place, StartupPlace, Tried
  <2>2. Last' = Last /\ Tried' = Tried /\ Checked' = Checked
    BY <2>1 DEF Last, Tried, Checked
  <2>3. CASE pc' = "handler"
    BY <2>3, StoppedPlace DEF Stopped
  <2>4. CASE Last = Len(Startup)
    <3>1. pc' = "propose"
      BY <1>3, <2>4 DEF NextStartup
    <3>2. Settled' = Len(Startup) + Tried'
      BY <2>1, <2>2, <2>4, <3>1, ListFacts DEF Settled, Working
    <3>3. BinaryPlace'
      BY <2>1, <2>2, <3>1, <3>2, ListFacts DEF BinaryPlace
    <3>4. QED
      BY <3>1, <3>3 DEF Place, StartupPlace, ValidationPlace, InStartup, InValidation, Busy, Working
  <2>5. CASE Last # Len(Startup) /\ pc' # "handler"
    <3>1. pc' = "native" /\ job' = [NoJob EXCEPT !.name = Startup[Last + 1]]
      BY <1>3, <2>5 DEF NextStartup
    <3>2. Startup[Last + 1] \in Jobs
      BY <1>1, <2>1, <2>5, ListFacts DEF Jobs
    <3>3. job'.name = Startup[Last + 1] /\ job'.stage = "startup"
      <4>1. job' = NewCall(Startup[Last + 1], "startup")
        BY <3>1, <3>2, StartupCall
      <4>2. QED
        BY <3>2, <4>1, NewCallFacts
    <3>4. Settled' = Last /\ Last < Len(Startup)
      BY <1>1, <2>1, <2>2, <2>5, <3>1, ListFacts DEF Settled, Working
    <3>5. StartupPlace'
      BY <2>1, <3>1, <3>3, <3>4 DEF StartupPlace
    <3>6. QED
      BY <3>1, <3>3, <3>5 DEF Place, BinaryPlace, ValidationPlace, InBinary, InValidation, Busy
  <2>6. QED
    BY <2>3, <2>4, <2>5
<1>4. CASE Native
  <2>1. CASE pc' = "handler"
    BY <2>1, StoppedPlace DEF Stopped
  <2>2. CASE pc' # "handler"
    <3>1. /\ pc = "native" /\ Save("launch") /\ Last' = Last + 1 /\ SameLists
          /\ job'.name = job.name /\ job'.stage = job.stage
      BY <1>4, <2>2, NativeEffect
    <3>2. pc' = "launch"
      BY <2>2, <3>1 DEF Save, SaveFails
    <3>3. Settled' = Settled /\ Tried' = Tried /\ Checked' = Checked
      BY <1>1, <3>1, <3>2 DEF Settled, SameLists, Tried, Checked, Working
    <3>4. /\ InStartup' <=> InStartup
          /\ InBinary' <=> InBinary
          /\ InValidation' <=> InValidation
      BY <3>1, <3>2 DEF InStartup, InBinary, InValidation, Working, Busy
    <3>5. StartupPlace'
      BY <3>1, <3>2, <3>3, <3>4 DEF Place, StartupPlace, SameLists
    <3>6. BinaryPlace'
      BY <3>1, <3>2, <3>3, <3>4 DEF Place, BinaryPlace, SameLists
    <3>7. ValidationPlace'
      BY <3>1, <3>2, <3>3, <3>4 DEF Place, ValidationPlace, SameLists
    <3>8. QED
      BY <3>2, <3>5, <3>6, <3>7 DEF Place
  <2>3. QED
    BY <2>1, <2>2
<1>5. CASE Launch \/ Render \/ SolverHangs
  <2>1. pc \in Working /\ pc' \in Working /\ UNCHANGED <<job, doc>>
    BY <1>5 DEF Launch, Render, SolverHangs, Working, outside
  <2>2. QED
    BY <2>1, WorkingPlace DEF Last, SameLists
<1>6. CASE ReadReceipt
  <2>1. pc \in Working /\ pc' \in {"handler", "count", "receipt"} /\ UNCHANGED <<job, doc>>
    BY <1>6 DEF ReadReceipt, Working
  <2>2. QED
    BY <2>1, WorkingPlace, StoppedPlace DEF Last, SameLists, Stopped, Working
<1>7. CASE Count
  <2>1. /\ pc = "count" /\ UNCHANGED job /\ Last' = Last /\ SameLists
        /\ pc' \in {"receipt", "handler"}
    BY <1>7, CountEffect DEF SameRows, Save, SaveFails
  <2>2. QED
    BY <2>1, WorkingPlace, StoppedPlace DEF Stopped, Working
<1>8. CASE CheckReceipt
  <2>1. /\ pc = "receipt" /\ UNCHANGED job /\ Last' = Last /\ SameLists
        /\ pc' \in {"evidence", "handler"}
    BY <1>8, CheckReceiptEffect DEF Noted, SameRows, Save, SaveFails
  <2>2. QED
    BY <2>1, WorkingPlace, StoppedPlace DEF Stopped, Working
<1>9. ASSUME TypeOK, Place, RowMatches, pc \in Working, pc' = "startup", job.stage = "startup",
             Last' = Last, SameLists
      PROVE  Place'
  <2>1. InStartup /\ pc # "startup" /\ Settled = Last - 1
    BY <1>9 DEF InStartup, Busy, Working, Settled
  <2>2. Last <= Len(Startup) /\ doc.candidates = <<>> /\ doc.locked = <<>>
    BY <1>1, <2>1, ListFacts DEF Place, StartupPlace
  <2>3. Settled' = Last
    BY <1>9 DEF Settled, Working
  <2>4. StartupPlace'
    BY <1>9, <2>2, <2>3 DEF StartupPlace, SameLists
  <2>5. QED
    BY <1>9, <2>4 DEF Place, BinaryPlace, ValidationPlace, InBinary, InValidation, Busy, Working
<1>10. CASE CheckEvidence
  <2>1. pc = "evidence" /\ UNCHANGED job /\ pc' \in {"handler", "analyse", "startup"}
    BY <1>10, CheckEvidenceEffect DEF Save, SaveFails
  <2>2. Last' = Last /\ SameLists
    BY <1>10, CheckEvidenceEffect DEF Noted, SameRows, SameLists, Last
  <2>3. pc' = "startup" => job.stage = "startup"
    BY <1>10, CheckEvidenceEffect DEF Save, SaveFails, ChecksGradient
  <2>4. QED
    BY <1>9, <2>1, <2>2, <2>3, WorkingPlace, StoppedPlace DEF Stopped, Working
<1>11. CASE Analyse
  <2>1. /\ pc = "analyse" /\ UNCHANGED job /\ Last' = Last /\ SameLists
        /\ pc' = "handler" \/ pc' = Caller(job.stage)
    BY <1>11, AnalyseEffect DEF Noted, SameRows, Save, SaveFails
  <2>2. job.stage \in {"startup", "binary", "validation"} /\ pc \in Working
    BY <1>1, <2>1, CallFacts DEF Working
  <2>3. Tried' = Tried /\ Checked' = Checked
    BY <2>1 DEF SameLists, Tried, Checked
  <2>4. CASE pc' # "handler" /\ job.stage = "startup"
    BY <1>9, <2>1, <2>2, <2>4 DEF Caller
  <2>5. CASE pc' # "handler" /\ job.stage = "binary"
    <3>1. pc' = "candidate" /\ InBinary /\ Settled' = Settled
      BY <2>1, <2>2, <2>5 DEF Caller, InBinary, Busy, Settled, Working
    <3>2. BinaryPlace'
      BY <2>1, <2>3, <3>1 DEF Place, BinaryPlace, SameLists
    <3>3. QED
      BY <3>1, <3>2 DEF Place, StartupPlace, ValidationPlace, InStartup, InValidation, Busy, Working
  <2>6. CASE pc' # "handler" /\ job.stage = "validation"
    <3>1. pc' = "judge" /\ InValidation /\ Settled' = Settled
      BY <2>1, <2>2, <2>6 DEF Caller, InValidation, Busy, Settled, Working
    <3>2. ValidationPlace'
      BY <2>1, <2>3, <3>1 DEF Place, ValidationPlace, SameLists
    <3>3. QED
      BY <3>1, <3>2 DEF Place, StartupPlace, BinaryPlace, InStartup, InBinary, Busy, Working
  <2>7. QED
    BY <2>2, <2>4, <2>5, <2>6, StoppedPlace DEF Stopped
<1>12. CASE Propose
  <2>1. /\ pc = "propose" /\ pc' = "native" /\ UNCHANGED doc
        /\ job' = NewCall(Binaries[Tried + 1], "binary")
    BY <1>12 DEF Propose, NewCall, Tried
  <2>2. doc.locked = <<>> /\ Settled = Len(Startup) + Tried /\ Tried < Len(Binaries)
    BY <2>1 DEF Place, BinaryPlace, InBinary
  <2>3. Binaries[Tried + 1] \in Jobs
    BY <1>1, <2>2, ListFacts DEF Jobs
  <2>4. job'.name = Binaries[Tried + 1] /\ job'.stage = "binary"
    BY <2>1, <2>3, NewCallFacts
  <2>5. Settled' = Settled /\ Tried' = Tried
    BY <2>1 DEF Settled, Working, Last, Tried
  <2>6. BinaryPlace'
    BY <2>1, <2>2, <2>4, <2>5 DEF BinaryPlace
  <2>7. QED
    BY <2>1, <2>4, <2>6 DEF Place, StartupPlace, ValidationPlace, InStartup, InValidation, Busy
<1>13. CASE AddCandidate
  <2>1. /\ pc = "candidate" /\ Listed /\ doc'.locked = doc.locked /\ Tried' = Tried + 1
        /\ Tried + 1 <= Len(Binaries)
        /\ \/ pc' \in {"handler", "select"}
           \/ pc' = "propose" /\ Tried + 1 # Len(Binaries)
    BY <1>13, AddCandidateEffect DEF Save, SaveFails
  <2>2. doc.locked = <<>> /\ Settled = Len(Startup) + Tried /\ Settled = Last - 1
    BY <2>1 DEF Place, BinaryPlace, InBinary, Settled
  <2>3. Last' = Last
    BY <2>1 DEF Listed, Last
  <2>4. CASE pc' \in {"select", "propose"}
    <3>1. Settled' = Len(Startup) + Tried'
      BY <1>1, <2>1, <2>2, <2>3, <2>4, ListFacts DEF Settled, Working
    <3>2. BinaryPlace'
      BY <1>1, <2>1, <2>2, <2>4, <3>1, ListFacts DEF BinaryPlace
    <3>3. QED
      BY <2>4, <3>2 DEF Place, StartupPlace, ValidationPlace, InStartup, InValidation, Busy, Working
  <2>5. QED
    BY <2>1, <2>4, StoppedPlace DEF Stopped
<1>14. CASE Select
  <2>1. CASE pc' \in Stopped
    BY <2>1, StoppedPlace
  <2>2. CASE pc' \notin Stopped
    <3>1. /\ pc = "select" /\ pc' = "validate" /\ Listed /\ doc'.candidates = doc.candidates
          /\ doc'.locked = doc.locked /\ doc'.selection \in Names(Binaries)
      BY <1>14, <2>2, SelectEffect DEF Stopped, SaveAndExit, SaveFails
    <3>2. doc.locked = <<>> /\ Settled = Len(Startup) + Tried /\ Settled = Last
      BY <3>1 DEF Place, BinaryPlace, InBinary, Settled, Working
    <3>3. Settled' = Settled /\ Tried' = Tried /\ Checked' = 0
      BY <3>1, <3>2 DEF Settled, Working, Listed, Last, Tried, Checked
    <3>4. ValidationPlace'
      BY <1>1, <3>1, <3>2, <3>3, ListFacts DEF ValidationPlace
    <3>5. QED
      BY <3>1, <3>4 DEF Place, StartupPlace, BinaryPlace, InStartup, InBinary, Busy, Working
  <2>3. QED
    BY <2>1, <2>2
<1>15. CASE Validate
  <2>1. CASE pc' = "handler"
    BY <2>1, StoppedPlace DEF Stopped
  <2>2. CASE pc' # "handler"
    <3>1. /\ pc = "validate" /\ pc' = "native" /\ UNCHANGED doc
          /\ job' = NewCall(Validation[Checked + 1], "validation")
      BY <1>15, <2>2 DEF Validate, NewCall, Checked
    <3>2. /\ Settled = Len(Startup) + Tried + Checked /\ doc.selection \in Names(Binaries)
          /\ Checked < Len(Validation)
      BY <3>1 DEF Place, ValidationPlace, InValidation
    <3>3. Validation[Checked + 1] \in Jobs
      BY <1>1, <3>2, ListFacts DEF Jobs
    <3>4. job'.name = Validation[Checked + 1] /\ job'.stage = "validation"
      BY <3>1, <3>3, NewCallFacts
    <3>5. Settled' = Settled /\ Tried' = Tried /\ Checked' = Checked
      BY <3>1 DEF Settled, Working, Last, Tried, Checked
    <3>6. ValidationPlace'
      BY <3>1, <3>2, <3>4, <3>5 DEF ValidationPlace
    <3>7. QED
      BY <3>1, <3>4, <3>6 DEF Place, StartupPlace, BinaryPlace, InStartup, InBinary, Busy
  <2>3. QED
    BY <2>1, <2>2
<1>16. CASE Judge
  <2>1. CASE pc' \in Stopped
    BY <2>1, StoppedPlace
  <2>2. CASE pc' \notin Stopped
    <3>1. /\ pc = "judge" /\ Listed /\ doc'.candidates = doc.candidates
          /\ doc'.selection = doc.selection /\ Checked' = Checked + 1
          /\ \/ pc' = "finish" /\ Checked + 1 = Len(Validation)
             \/ pc' = "validate" /\ Checked + 1 # Len(Validation)
      BY <1>16, <2>2, JudgeEffect DEF Stopped, SaveAndExit, SaveFails, Save
    <3>2. /\ Settled = Len(Startup) + Tried + Checked /\ doc.selection \in Names(Binaries)
          /\ Checked < Len(Validation) /\ Settled = Last - 1
      BY <3>1 DEF Place, ValidationPlace, InValidation, Settled
    <3>3. Last' = Last /\ Tried' = Tried
      BY <3>1 DEF Listed, Last, Tried
    <3>4. Settled' = Len(Startup) + Tried' + Checked'
      BY <1>1, <3>1, <3>2, <3>3, ListFacts DEF Settled, Working
    <3>5. ValidationPlace'
      BY <1>1, <3>1, <3>2, <3>4, ListFacts DEF ValidationPlace
    <3>6. QED
      BY <3>1, <3>5 DEF Place, StartupPlace, BinaryPlace, InStartup, InBinary, Busy, Working
  <2>3. QED
    BY <2>1, <2>2
<1>17. CASE Finish
  BY <1>17, FinishEffect, StoppedPlace DEF SaveAndExit, SaveFails, Stopped
<1>18. CASE Handle \/ Raise \/ Die
  BY <1>18, StoppedPlace DEF Handle, Raise, Die, Stopped
<1>19. ASSUME NEW outcome, Returns(outcome), pc \in Working
       PROVE  Place'
  <2>1. job' = [job EXCEPT !.outcome = outcome] /\ pc' = "returned" /\ UNCHANGED doc
    BY <1>19 DEF Returns
  <2>2. job'.name = job.name /\ job'.stage = job.stage
    BY <1>1, <2>1 DEF Call
  <2>3. QED
    BY <1>19, <2>1, <2>2, WorkingPlace DEF Last, SameLists, Working
<1>20. CASE Refuse \/ SolverEnds \/ SolverKilled
  <2>1. pc \in Working
    BY <1>20 DEF Refuse, SolverEnds, SolverKilled, Working
  <2>2. \E outcome : Returns(outcome)
    BY <1>20 DEF Refuse, SolverEnds, SolverKilled
  <2>3. QED
    BY <1>19, <2>1, <2>2
<1>21. CASE Digest
  <2>1. /\ pc \in Working /\ pc' \in Working /\ UNCHANGED doc
        /\ job' = [job EXCEPT !.digest = MaskNow(job)]
    BY <1>21 DEF Digest, Working
  <2>2. job'.name = job.name /\ job'.stage = job.stage
    BY <1>1, <2>1 DEF Call
  <2>3. QED
    BY <2>1, <2>2, WorkingPlace DEF Last, SameLists
<1>22. CASE \E b \in Names(Binaries) : Edit(b)
  <2>1. UNCHANGED <<pc, job, doc, disk>>
    BY <1>22 DEF Edit
  <2>2. QED
    BY <2>1 DEF Place, StartupPlace, BinaryPlace, ValidationPlace, InStartup, InBinary,
                InValidation, Settled, Tried, Checked, Last
<1>23. QED
  BY <1>2, <1>3, <1>4, <1>5, <1>6, <1>7, <1>8, <1>10, <1>11, <1>12, <1>13, <1>14, <1>15,
     <1>16, <1>17, <1>18, <1>20, <1>21, <1>22
     DEF Next, Driver, Solver

-----------------------------------------------------------------------------
(* The row of the job under way.                                           *)

LEMMA NoRow ==
  ASSUME pc' \notin Working \cup {"candidate", "judge"}
  PROVE  RowMatches'
BY DEF RowMatches, Working

LEMMA NotedRow ==
  ASSUME TypeOK, Last > 0, NEW status, Noted(status)
  PROVE  Last' = Last /\ Row'.name = Row.name /\ Row'.mask = Row.mask /\ Row'.status = status
BY StateFacts DEF Noted, SameRows, Row

LEMMA RowStep ==
  ASSUME TypeOK, Place, RowMatches, Next
  PROVE  RowMatches'
<1>1. doc \in Document /\ job \in Call /\ Last \in Nat
  BY StateFacts
<1>2. CASE Begin \/ NextStartup \/ Propose \/ Select \/ Validate \/ Finish \/ Handle \/ Raise \/ Die
  <2>1. pc' \in {"startup", "ended", "propose", "native", "handler", "validate"}
    BY <1>2 DEF Begin, NextStartup, Propose, Select, Validate, Finish, Handle, Raise, Die,
                SaveAndExit, SaveFails
  <2>2. QED
    BY <2>1, NoRow DEF Working
<1>3. CASE Native
  <2>1. CASE pc' = "handler"
    BY <2>1, NoRow DEF Working
  <2>2. CASE pc' # "handler"
    <3>1. /\ Save("launch") /\ Last' = Last + 1 /\ job'.name = job.name
          /\ job'.mask = MaskNow(job)
          /\ doc'.runs[Last + 1].name = job.name /\ doc'.runs[Last + 1].mask = MaskNow(job)
          /\ doc'.runs[Last + 1].status = "executing"
      BY <1>3, <2>2, NativeEffect
    <3>2. pc' = "launch"
      BY <2>2, <3>1 DEF Save, SaveFails
    <3>3. Row' = doc'.runs[Last + 1]
      BY <3>1 DEF Row
    <3>4. QED
      BY <1>1, <3>1, <3>2, <3>3 DEF RowMatches, Working
  <2>3. QED
    BY <2>1, <2>2
<1>4. CASE Launch \/ Render \/ SolverHangs
  <2>1. /\ UNCHANGED <<job, doc>> /\ pc \in Working \ {"evidence", "analyse"}
        /\ pc' \in Working \ {"evidence", "analyse"}
    BY <1>4 DEF Launch, Render, SolverHangs, Working, outside
  <2>2. QED
    BY <2>1 DEF RowMatches, Row, Last, Working
<1>5. CASE ReadReceipt
  <2>1. UNCHANGED <<job, doc>> /\ pc = "returned" /\ pc' \in {"handler", "count", "receipt"}
    BY <1>5 DEF ReadReceipt
  <2>2. QED
    BY <2>1 DEF RowMatches, Row, Last, Working
<1>6. CASE Count
  <2>1. /\ pc = "count" /\ UNCHANGED job /\ SameRows /\ Row'.status = Row.status
        /\ pc' \in {"receipt", "handler"}
    BY <1>6, CountEffect DEF Save, SaveFails
  <2>2. Last > 0 /\ Row.name = job.name /\ Row.mask = job.mask /\ Row.status = "executing"
    BY <2>1 DEF RowMatches, Working
  <2>3. Last' = Last /\ Row'.name = Row.name /\ Row'.mask = Row.mask
    BY <1>1, <2>1, <2>2 DEF SameRows, Row
  <2>4. QED
    BY <2>1, <2>2, <2>3 DEF RowMatches, Working
<1>7. CASE CheckReceipt
  <2>1. CASE pc' = "handler"
    BY <2>1, NoRow DEF Working
  <2>2. CASE pc' # "handler"
    <3>1. /\ pc = "receipt" /\ pc' = "evidence" /\ UNCHANGED job /\ Complete(job.outcome)
          /\ Noted("checking_native_evidence")
      BY <1>7, <2>2, CheckReceiptEffect DEF Save, SaveFails
    <3>2. Last > 0 /\ Row.name = job.name /\ Row.mask = job.mask
      BY <3>1 DEF RowMatches, Working
    <3>3. QED
      BY <3>1, <3>2, NotedRow DEF RowMatches, Working, Complete
  <2>3. QED
    BY <2>1, <2>2
<1>8. CASE CheckEvidence
  <2>1. CASE pc' \in {"handler", "startup"}
    BY <2>1, NoRow DEF Working
  <2>2. CASE pc' \notin {"handler", "startup"}
    <3>1. pc = "evidence" /\ pc' = "analyse" /\ UNCHANGED <<job, doc>>
      BY <1>8, <2>2, CheckEvidenceEffect DEF Save, SaveFails
    <3>2. QED
      BY <3>1 DEF RowMatches, Row, Last, Working
  <2>3. QED
    BY <2>1, <2>2
<1>9. CASE Analyse
  <2>1. CASE pc' = "handler"
    BY <2>1, NoRow DEF Working
  <2>2. CASE pc' # "handler"
    <3>1. /\ pc = "analyse" /\ \E status \in Scientific : Noted(status)
          /\ pc' = Caller(job.stage)
      BY <1>9, <2>2, AnalyseEffect DEF Save, SaveFails
    <3>2. pc' \in {"startup", "candidate", "judge"}
      BY <3>1 DEF Caller
    <3>3. Last > 0 /\ Row.name = job.name /\ Row.mask = job.mask /\ UNCHANGED job
      BY <1>9, <3>1, AnalyseEffect DEF RowMatches, Working
    <3>4. Last' > 0 /\ Row'.status \in Scientific /\ Row'.name = job'.name /\ Row'.mask = job'.mask
      BY <3>1, <3>3, NotedRow
    <3>5. QED
      BY <3>2, <3>4 DEF RowMatches, Working
  <2>3. QED
    BY <2>1, <2>2
<1>10. CASE AddCandidate
  <2>1. pc' \in {"select", "propose", "handler"}
    BY <1>10, AddCandidateEffect DEF Save, SaveFails
  <2>2. QED
    BY <2>1, NoRow DEF Working
<1>11. CASE Judge
  <2>1. pc' \in {"finish", "validate", "handler", "ended"}
    BY <1>11, JudgeEffect DEF Save, SaveAndExit, SaveFails
  <2>2. QED
    BY <2>1, NoRow DEF Working
<1>12. ASSUME NEW outcome, Returns(outcome), pc \in Working \ {"evidence", "analyse"}
       PROVE  RowMatches'
  <2>1. job' = [job EXCEPT !.outcome = outcome] /\ pc' = "returned" /\ UNCHANGED doc
    BY <1>12 DEF Returns
  <2>2. job'.name = job.name /\ job'.mask = job.mask
    BY <1>1, <2>1 DEF Call
  <2>3. QED
    BY <1>12, <2>1, <2>2 DEF RowMatches, Row, Last, Working
<1>13. CASE Refuse \/ SolverEnds \/ SolverKilled
  <2>1. pc \in Working \ {"evidence", "analyse"}
    BY <1>13 DEF Refuse, SolverEnds, SolverKilled, Working
  <2>2. \E outcome : Returns(outcome)
    BY <1>13 DEF Refuse, SolverEnds, SolverKilled
  <2>3. QED
    BY <1>12, <2>1, <2>2
<1>14. CASE Digest
  <2>1. /\ pc = "digest" /\ pc' = "compute" /\ UNCHANGED doc
        /\ job' = [job EXCEPT !.digest = MaskNow(job)]
    BY <1>14 DEF Digest
  <2>2. job'.name = job.name /\ job'.mask = job.mask
    BY <1>1, <2>1 DEF Call
  <2>3. QED
    BY <2>1, <2>2 DEF RowMatches, Row, Last, Working
<1>15. CASE \E b \in Names(Binaries) : Edit(b)
  BY <1>15 DEF Edit, RowMatches, Row, Last
<1>16. QED
  BY <1>2, <1>3, <1>4, <1>5, <1>6, <1>7, <1>8, <1>9, <1>10, <1>11, <1>13, <1>14, <1>15
     DEF Next, Driver, Solver

\* What every other invariant rests on.
Basis == TypeOK /\ Place /\ RowMatches

LEMMA BasisInit == Init => Basis
<1> SUFFICES ASSUME Init PROVE Basis
  OBVIOUS
<1>1. pc = "begin" /\ doc = NewDocument /\ disk = NoFile
  BY DEF Init
<1>2. Place /\ RowMatches
  BY <1>1 DEF Place, StartupPlace, BinaryPlace, ValidationPlace, InStartup, InBinary,
              InValidation, Busy, Working, RowMatches
<1>3. NewDocument \in Document
  BY BudgetNat, CampaignBounds DEF NewDocument, Document, NoMask, DocStatus
<1>4. NoJob \in Call
  BY CampaignBounds DEF NoJob, Call, Nothing, Outcome, NoMask
<1>5. doc.jobs = Len(doc.runs) /\ Len(doc.candidates) = 0 /\ Len(doc.locked) = 0
  BY <1>1 DEF NewDocument
<1>6. NoMask \in NoMask .. MaxEdits /\ 0 \in 0 .. MaxEdits
  BY CampaignBounds DEF NoMask
<1>7. TypeOK
  <2>1. restored \in BOOLEAN
    BY Zenon DEF Init
  <2>2. QED
    BY <1>1, <1>3, <1>4, <1>5, <1>6, <2>1, ListFacts DEF Init, TypeOK, Call
<1>8. QED
  BY <1>2, <1>7 DEF Basis

LEMMA BasisStep == Basis /\ [Next]_vars => Basis'
<1> SUFFICES ASSUME Basis, [Next]_vars PROVE Basis'
  OBVIOUS
<1>1. CASE Next
  BY <1>1, TypeStep, PlaceStep, RowStep DEF Basis
<1>2. CASE UNCHANGED vars
  <2>1. UNCHANGED <<pc, job, doc, disk>> /\ TypeOK'
    BY <1>2 DEF vars, outside, Basis, TypeOK
  <2>2. Place'
    BY <2>1 DEF Basis, Place, StartupPlace, BinaryPlace, ValidationPlace, InStartup, InBinary,
                InValidation, Settled, Tried, Checked, Last
  <2>3. RowMatches'
    BY <2>1 DEF Basis, RowMatches, Last, Row
  <2>4. QED
    BY <2>1, <2>2, <2>3 DEF Basis
<1>3. QED
  BY <1>1, <1>2

\* The type invariant: what is kept in memory, on disk and in the run directories
\* always has its type, no matter how the campaign goes on or ends.
THEOREM TypeCorrect == Spec => []TypeOK
<1>1. Init => Basis
  BY BasisInit
<1>2. Basis /\ [Next]_vars => Basis'
  BY BasisStep
<1>3. Basis => TypeOK
  BY DEF Basis
<1>4. QED
  BY <1>1, <1>2, <1>3, PTL DEF Spec

-----------------------------------------------------------------------------
(* What every step does to the rows and to campaign.json.                  *)

\* Rows are only added; only the last one changes, and only while its job is worked on.
LEMMA RowsKeep ==
  ASSUME Basis, Next
  PROVE  /\ Last' = Last \/ (Native /\ Last' = Last + 1 /\ pc' \in {"launch", "handler"})
         /\ \A i \in 1 .. Last :
              doc'.runs[i].name = doc.runs[i].name /\ doc'.runs[i].mask = doc.runs[i].mask
         /\ \A i \in 1 .. Last - 1 : doc'.runs[i] = doc.runs[i]
         /\ pc \notin {"count", "receipt", "evidence", "analyse"} =>
              \A i \in 1 .. Last : doc'.runs[i] = doc.runs[i]
<1> USE DEF Basis
<1>1. CASE UNCHANGED doc
  BY <1>1 DEF Last
<1>2. CASE Native /\ ~ UNCHANGED doc
  BY <1>2, NativeEffect, StateFacts DEF Save, SaveFails
<1>3. CASE Count
  BY <1>3, CountEffect DEF SameRows
<1>4. CASE CheckReceipt
  BY <1>4, CheckReceiptEffect DEF Noted, SameRows
<1>5. CASE CheckEvidence /\ ~ UNCHANGED doc
  BY <1>5, CheckEvidenceEffect DEF Noted, SameRows
<1>6. CASE Analyse
  BY <1>6, AnalyseEffect DEF Noted, SameRows
<1>7. ASSUME Listed
      PROVE  Last' = Last /\ \A i \in 1 .. Last : doc'.runs[i] = doc.runs[i]
  BY <1>7 DEF Listed, Last
<1>8. CASE (AddCandidate \/ Select \/ Judge \/ Finish \/ Handle) /\ ~ UNCHANGED doc
  <2>1. Listed
    BY <1>8, AddCandidateEffect, SelectEffect, JudgeEffect, FinishEffect, HandleEffect
  <2>2. \A i \in 1 .. Last - 1 : i \in 1 .. Last
    BY StateFacts
  <2>3. QED
    BY <1>7, <2>1, <2>2
<1>9. \/ UNCHANGED doc \/ Native \/ Count \/ CheckReceipt \/ CheckEvidence \/ Analyse
      \/ AddCandidate \/ Select \/ Judge \/ Finish \/ Handle
  BY DEF Next, Driver, Solver, Begin, NextStartup, Launch, ReadReceipt, Propose, Validate,
         Refuse, Render, Digest, SolverEnds, SolverKilled, SolverHangs, Raise, Die, Edit,
         Returns, outside
<1>10. QED
  BY <1>1, <1>2, <1>3, <1>4, <1>5, <1>6, <1>8, <1>9

\* The driver writes the document as it is, or leaves what was there, or ruins it.
LEMMA DiskChange ==
  ASSUME Next
  PROVE  disk' \in {doc', disk, Torn}
BY DEF Next, Driver, Solver, Begin, NextStartup, Native, Launch, ReadReceipt, Count, CheckReceipt,
       CheckEvidence, Analyse, Propose, AddCandidate, Select, Validate, Judge, Finish, Handle,
       Refuse, Render, Digest, SolverEnds, SolverKilled, SolverHangs, Raise, Die, Edit, Returns,
       Save, SaveAndExit, SaveFails

\* Only Launch starts a solver, and only after a row was saved.
LEMMA LaunchChange ==
  ASSUME Next, ~ Native, ~ Launch, ~ \E b \in Names(Binaries) : Edit(b)
  PROVE  /\ UNCHANGED launched /\ pc' # "launch"
         /\ pc \in Stopped \cup {"launch"} => pc' \in Stopped
<1>1. CASE Begin \/ NextStartup \/ ReadReceipt \/ Propose \/ Validate \/ Finish
  BY <1>1 DEF Begin, NextStartup, ReadReceipt, Propose, Validate, Finish, outside, SaveAndExit,
              SaveFails, Stopped
<1>2. CASE Count \/ CheckReceipt \/ CheckEvidence
  BY <1>2 DEF Count, CheckReceipt, CheckEvidence, outside, Save, SaveFails, Stopped
<1>3. CASE Analyse \/ AddCandidate
  BY <1>3 DEF Analyse, AddCandidate, outside, Save, SaveFails, Caller, Stopped
<1>4. CASE Select \/ Judge
  BY <1>4 DEF Select, Judge, outside, Save, SaveAndExit, SaveFails, Stopped
<1>5. CASE Handle \/ Raise \/ Die \/ SolverHangs
  BY <1>5 DEF Handle, Raise, Die, SolverHangs, outside, Stopped
<1>6. CASE Solver
  BY <1>6 DEF Solver, Refuse, Render, Digest, SolverEnds, SolverKilled, Returns, Stopped
<1>7. QED
  BY <1>1, <1>2, <1>3, <1>4, <1>5, <1>6 DEF Next, Driver

-----------------------------------------------------------------------------
(* Every solver has a row on disk.                                         *)

LEMMA LaunchedStep ==
  ASSUME Basis, Launched, Next
  PROVE  Launched'
<1>1. TypeOK /\ Last \in Nat /\ Len(launched) \in Nat
  BY StateFacts DEF Basis
<1>2. CASE Native
  <2>1. pc = "native" /\ UNCHANGED launched
    BY <1>2 DEF Native, outside
  <2>2. \/ Last' = Last /\ pc' = "handler"
        \/ Last' = Last + 1 /\ pc' \in {"launch", "handler"}
    BY <1>2, NativeEffect DEF Basis, Save, SaveFails, Last
  <2>3. Len(launched) = Last
    BY <2>1 DEF Launched, Stopped
  <2>4. QED
    BY <1>1, <2>1, <2>2, <2>3, RowsKeep DEF Launched, Stopped
<1>3. CASE Launch
  <2>1. pc = "launch" /\ pc' = "render" /\ UNCHANGED doc /\ launched' = Append(launched, job.name)
    BY <1>3 DEF Launch
  <2>2. Len(launched) = Last - 1 /\ Row.name = job.name /\ Last > 0
    BY <2>1 DEF Launched, Basis, RowMatches, Working
  <2>3. launched \in Seq(Jobs) /\ job.name \in Jobs
    BY <1>1, <2>1, BusyFacts DEF Basis, TypeOK, Busy, Working
  <2>4. /\ Len(launched') = Last /\ launched'[Last] = job.name
        /\ \A i \in 1 .. Last - 1 : launched'[i] = launched[i]
    BY <1>1, <2>1, <2>2, <2>3
  <2>5. Last' = Last
    BY <2>1 DEF Last
  <2>6. QED
    BY <1>1, <2>1, <2>2, <2>4, <2>5 DEF Launched, Row, Stopped
<1>4. CASE \E b \in Names(Binaries) : Edit(b)
  BY <1>4 DEF Edit, Launched, Last
<1>5. CASE ~ Native /\ ~ Launch /\ ~ \E b \in Names(Binaries) : Edit(b)
  <2>1. /\ UNCHANGED launched /\ pc' # "launch"
        /\ pc \in Stopped \cup {"launch"} => pc' \in Stopped
    BY <1>5, LaunchChange
  <2>2. Last' = Last /\ \A i \in 1 .. Last : doc'.runs[i].name = doc.runs[i].name
    BY <1>5, RowsKeep
  <2>3. QED
    BY <1>1, <2>1, <2>2 DEF Launched
<1>6. QED
  BY <1>2, <1>3, <1>4, <1>5

LEMMA SavedFirstStep ==
  ASSUME Basis, SavedFirst, Next
  PROVE  SavedFirst'
<1> DEFINE Unsaved == {"launch", "render", "digest", "compute", "hung", "returned", "count"}
<1>1. CASE UNCHANGED <<doc, disk>> /\ (pc' \in Unsaved => pc \in Unsaved)
  BY <1>1 DEF SavedFirst
<1>2. CASE pc' \notin Unsaved
  BY <1>2 DEF SavedFirst
<1>3. CASE Native
  BY <1>3 DEF Native, Save, SaveFails, SavedFirst
<1>4. CASE Solver \/ Launch \/ ReadReceipt \/ SolverHangs \/ \E b \in Names(Binaries) : Edit(b)
  BY <1>1, <1>4 DEF Solver, Refuse, Render, Digest, SolverEnds, SolverKilled, Returns, Launch,
                    ReadReceipt, SolverHangs, Edit
<1>5. CASE Begin \/ NextStartup \/ Propose \/ Validate \/ Handle \/ Raise \/ Die
  BY <1>2, <1>3, <1>5 DEF Begin, Handle, Raise, Die, NextStartup, Propose, Validate, SavedFirst
<1>6. CASE Count \/ CheckReceipt \/ CheckEvidence \/ Analyse \/ AddCandidate
  BY <1>2, <1>6 DEF Count, CheckReceipt, CheckEvidence, Analyse, AddCandidate, Save, SaveFails, Caller
<1>7. CASE Select \/ Judge \/ Finish
  BY <1>2, <1>7 DEF Select, Judge, Finish, Save, SaveAndExit, SaveFails
<1>8. QED
  BY <1>3, <1>4, <1>5, <1>6, <1>7 DEF Next, Driver

LEMMA StartedStep ==
  ASSUME Basis, Launched, SavedFirst, StartedIsOnDisk, Next
  PROVE  StartedIsOnDisk'
<1>1. /\ TypeOK /\ TypeOK' /\ Launched'
      /\ Last \in Nat /\ Len(launched) \in Nat
  BY StateFacts, TypeStep, LaunchedStep DEF Basis
<1>2. doc'.jobs = Last' /\ doc'.jobs <= Budget
  BY <1>1, SMTT(30) DEF TypeOK, Document, Last
<1>3. CASE disk' = doc'
  BY <1>1, <1>2, <1>3 DEF StartedIsOnDisk, Launched
<1>4. CASE Launch
  <2>1. disk = doc /\ UNCHANGED <<doc, disk>>
    BY <1>4 DEF Launch, SavedFirst
  <2>2. QED
    BY <1>3, <2>1
<1>5. CASE disk' \in {disk, Torn} /\ ~ Launch
  <2>1. UNCHANGED launched
    BY <1>5, LaunchChange DEF Native, Edit, outside
  <2>2. QED
    BY <1>5, <2>1 DEF StartedIsOnDisk, Readable
<1>6. QED
  BY <1>3, <1>4, <1>5, DiskChange

-----------------------------------------------------------------------------
(* An overrun ends the campaign, and is told.                              *)

LEMMA OverrunKept ==
  ASSUME Basis, Next, ~ Count, Overrun'
  PROVE  Overrun
<1> USE DEF Basis
<1>1. Last \in Nat
  BY StateFacts
<1>2. CASE UNCHANGED doc
  BY <1>2 DEF Overrun, Last
<1>3. CASE Native /\ ~ UNCHANGED doc
  BY <1>1, <1>3, NativeEffect DEF Overrun
<1>4. ASSUME NEW status, Noted(status)
      PROVE  Overrun
  <2>1. Last' = Last /\ \A i \in 1 .. Last : doc'.runs[i].cost = doc.runs[i].cost
    BY <1>1, <1>4 DEF Noted, SameRows, Row
  <2>2. QED
    BY <2>1 DEF Overrun
<1>5. CASE (CheckReceipt \/ CheckEvidence \/ Analyse) /\ ~ UNCHANGED doc
  BY <1>4, <1>5, CheckReceiptEffect, CheckEvidenceEffect, AnalyseEffect
<1>6. CASE (AddCandidate \/ Select \/ Judge \/ Finish \/ Handle) /\ ~ UNCHANGED doc
  BY <1>6, AddCandidateEffect, SelectEffect, JudgeEffect, FinishEffect, HandleEffect, ListedFacts
<1>7. \/ UNCHANGED doc \/ Native \/ Count \/ CheckReceipt \/ CheckEvidence \/ Analyse
      \/ AddCandidate \/ Select \/ Judge \/ Finish \/ Handle
  BY DEF Next, Driver, Solver, Begin, NextStartup, Launch, ReadReceipt, Propose, Validate,
         Refuse, Render, Digest, SolverEnds, SolverKilled, SolverHangs, Raise, Die, Edit,
         Returns, outside
<1>8. QED
  BY <1>2, <1>3, <1>5, <1>6, <1>7

\* The stop flag is set by Count only, and Count is at optimizations only.
LEMMA StopFlag ==
  ASSUME Basis, Next, ~ Count
  PROVE  doc'.stop = doc.stop
BY NativeEffect, CheckReceiptEffect, CheckEvidenceEffect, AnalyseEffect, AddCandidateEffect,
   SelectEffect, JudgeEffect, FinishEffect, HandleEffect
   DEF Basis, Next, Driver, Solver, Begin, NextStartup, Launch, ReadReceipt, Propose, Validate,
       Refuse, Render, Digest, SolverEnds, SolverKilled, SolverHangs, Raise, Die, Edit,
       Returns, outside, Noted, Listed, SameFlags

\* Only Finish says `pass`.
LEMMA PassStatus ==
  ASSUME Basis, Next, ~ Finish, doc'.status = "pass"
  PROVE  doc.status = "pass" /\ ~ Handle
BY NativeEffect, CountEffect, CheckReceiptEffect, CheckEvidenceEffect, AnalyseEffect,
   AddCandidateEffect, SelectEffect, JudgeEffect, HandleEffect
   DEF Basis, Next, Driver, Solver, Begin, NextStartup, Launch, ReadReceipt, Propose,
       Validate, Refuse, Render, Digest, SolverEnds, SolverKilled, SolverHangs, Raise, Die, Edit,
       Returns, outside, Noted, Listed

\* Only optimizations are counted.
CountsOptimizations == pc = "count" => Optimizes(job)

LEMMA StopStep ==
  ASSUME Basis, StopIsHeeded, CountsOptimizations, Next
  PROVE  StopIsHeeded' /\ CountsOptimizations'
<1> USE DEF Basis
<1>1. doc \in Document /\ job \in Call /\ Last \in Nat /\ job.outcome \in Outcome
  BY StateFacts, CallFacts
<1>2. CountsOptimizations'
  <2>1. CASE ReadReceipt
    BY <2>1 DEF ReadReceipt, CountsOptimizations, Optimizes
  <2>2. CASE \E b \in Names(Binaries) : Edit(b)
    BY <2>2 DEF Edit, CountsOptimizations, Optimizes
  <2>3. CASE ~ ReadReceipt /\ ~ \E b \in Names(Binaries) : Edit(b)
    <3>1. pc' # "count"
      BY <2>3 DEF Next, Driver, Solver, Begin, NextStartup, Native, Launch, Count, CheckReceipt,
         CheckEvidence, Analyse, Propose, AddCandidate, Select, Validate, Judge, Finish, Handle,
         Refuse, Render, Digest, SolverEnds, SolverKilled, SolverHangs, Raise, Die, Returns,
         Save, SaveAndExit, SaveFails, Caller
    <3>2. QED
      BY <3>1 DEF CountsOptimizations
  <2>4. QED
    BY <2>1, <2>2, <2>3
<1>3. Overrun' => doc'.stop
  <2>1. CASE Count
    <3>1. /\ SameRows /\ Row'.cost = CostOf(job.outcome)
          /\ doc'.stop = (doc.stop \/ Over(job.outcome)) /\ Last > 0
      BY <2>1, CountEffect DEF RowMatches, Working
    <3>2. Last' = Last /\ \A i \in 1 .. Last - 1 : doc'.runs[i] = doc.runs[i]
      BY <3>1 DEF SameRows
    <3>3. doc'.runs[Last].cost = "overrun" <=> Over(job.outcome)
      BY <1>1, <3>1, <3>2, OutcomeFacts DEF Row
    <3>4. Overrun' => Overrun \/ Over(job.outcome)
      BY <1>1, <3>1, <3>2, <3>3 DEF Overrun
    <3>5. QED
      BY <3>1, <3>4 DEF StopIsHeeded
  <2>2. CASE ~ Count
    BY <2>2, OverrunKept, StopFlag DEF StopIsHeeded
  <2>3. QED
    BY <2>1, <2>2
<1>4. /\ doc'.stop => pc' \in {"receipt", "evidence", "analyse"} \cup Stopped
      /\ doc'.stop /\ pc' \notin Stopped => Optimizes(job)'
  <2>1. CASE Count
    <3>1. pc' \in {"receipt", "handler"} /\ UNCHANGED job /\ pc = "count"
      BY <2>1, CountEffect DEF Save, SaveFails
    <3>2. QED
      BY <3>1 DEF Stopped, CountsOptimizations, Optimizes
  <2>2. CASE ~ doc.stop /\ ~ Count
    BY <2>2, StopFlag
  <2>3. CASE doc.stop /\ pc \in Stopped
    <3>1. pc' \in Stopped
      BY <2>3, LaunchChange DEF Native, Launch, Edit, Stopped
    <3>2. QED
      BY <3>1
  <2>4. CASE doc.stop /\ pc = "receipt" /\ Optimizes(job)
    <3>1. /\ pc' \in {"receipt", "evidence"} \cup Stopped
          /\ UNCHANGED job
      BY <2>4, CheckReceiptEffect
         DEF Next, Driver, Solver, Begin, NextStartup, Native, Launch, ReadReceipt, Count,
             CheckEvidence, Analyse, Propose, AddCandidate, Select, Validate, Judge, Finish, Handle,
             Refuse, Render, Digest, SolverEnds, SolverKilled, SolverHangs, Raise, Die, Edit,
             Save, SaveFails, Stopped
    <3>2. QED
      BY <2>4, <3>1 DEF Optimizes
  <2>5. CASE doc.stop /\ pc = "evidence" /\ Optimizes(job)
    <3>1. ~ ChecksGradient(job)
      BY <2>5 DEF Optimizes, ChecksGradient
    <3>2. /\ pc' \in {"evidence", "analyse"} \cup Stopped
          /\ UNCHANGED job
      BY <2>5, <3>1, CheckEvidenceEffect
         DEF Next, Driver, Solver, Begin, NextStartup, Native, Launch, ReadReceipt, Count,
             CheckReceipt, Analyse, Propose, AddCandidate, Select, Validate, Judge, Finish, Handle,
             Refuse, Render, Digest, SolverEnds, SolverKilled, SolverHangs, Raise, Die, Edit,
             Save, SaveFails, Stopped
    <3>3. QED
      BY <2>5, <3>2 DEF Optimizes
  <2>6. CASE doc.stop /\ pc = "analyse" /\ Optimizes(job)
    <3>1. /\ pc' \in {"analyse"} \cup Stopped
          /\ UNCHANGED job
      BY <2>6, AnalyseEffect
         DEF Next, Driver, Solver, Begin, NextStartup, Native, Launch, ReadReceipt, Count,
             CheckReceipt, CheckEvidence, Propose, AddCandidate, Select, Validate, Judge, Finish,
             Handle, Refuse, Render, Digest, SolverEnds, SolverKilled, SolverHangs, Raise, Die, Edit,
             Save, SaveFails, Stopped
    <3>2. QED
      BY <2>6, <3>1 DEF Optimizes
  <2>7. doc.stop => pc \in Stopped \/ (pc \in {"receipt", "evidence", "analyse"} /\ Optimizes(job))
    BY DEF StopIsHeeded
  <2>8. doc.stop \in BOOLEAN
    BY <1>1, DocumentFacts
  <2>9. QED
    BY <2>1, <2>2, <2>3, <2>4, <2>5, <2>6, <2>7
<1>5. pc' # "ended" => exit' = "none"
  <2>1. pc # "ended"
    BY DEF Next, Driver, Solver, Begin, NextStartup, Native, Launch, ReadReceipt, Count,
           CheckReceipt, CheckEvidence, Analyse, Propose, AddCandidate, Select, Validate, Judge,
           Finish, Handle, Refuse, Render, Digest, SolverEnds, SolverKilled, SolverHangs, Raise,
           Die, Edit
  <2>2. exit = "none"
    BY <2>1 DEF StopIsHeeded
  <2>3. pc' # "ended" => UNCHANGED exit
    BY DEF Next, Driver, Solver, Begin, NextStartup, Native, Launch, ReadReceipt, Count,
           CheckReceipt, CheckEvidence, Analyse, Propose, AddCandidate, Select, Validate, Judge,
           Finish, Handle, Refuse, Render, Digest, SolverEnds, SolverKilled, SolverHangs, Raise,
           Die, Edit, Returns, outside, Save, SaveAndExit, SaveFails
  <2>4. QED
    BY <2>2, <2>3
<1>8. pc' \notin {"handler", "ended"} => disk'.status # "pass"
  <2> SUFFICES ASSUME pc' \notin {"handler", "ended"} PROVE disk'.status # "pass"
    OBVIOUS
  <2>1. pc \notin Stopped /\ ~ Finish
    <3>1. ~ Finish
      BY DEF Finish, SaveAndExit, SaveFails
    <3>2. pc' \notin Stopped
      BY DEF Stopped
    <3>3. pc \notin Stopped
      BY <3>2, LaunchChange DEF Native, Launch, Edit, Stopped
    <3> QED
      BY <3>1, <3>3
  <2>2. disk.status # "pass" /\ doc.status # "pass"
    BY <2>1 DEF StopIsHeeded, Stopped
  <2>3. doc'.status # "pass"
    BY <2>1, <2>2, PassStatus
  <2>4. Torn.status # "pass"
    BY DEF Torn
  <2>5. QED
    BY <2>2, <2>3, <2>4, DiskChange
<1>6. pc' \notin Stopped => doc'.status # "pass"
  <2>1. CASE Finish
    BY <2>1, FinishEffect DEF StopIsHeeded, SaveAndExit, SaveFails, Stopped
  <2>2. CASE ~ Finish /\ pc \notin Stopped
    BY <2>2, PassStatus DEF StopIsHeeded
  <2>3. CASE pc \in Stopped
    <3>1. pc' \in Stopped
      BY <2>3, LaunchChange DEF Native, Launch, Edit, Stopped
    <3>2. QED
      BY <3>1
  <2>4. QED
    BY <2>1, <2>2, <2>3
<1>7. QED
  BY <1>2, <1>3, <1>4, <1>5, <1>6, <1>8 DEF StopIsHeeded

LEMMA NothingAfterEnd ==
  ASSUME Next
  PROVE  pc # "ended"
BY DEF Next, Driver, Solver, Begin, NextStartup, Native, Launch, ReadReceipt, Count,
       CheckReceipt, CheckEvidence, Analyse, Propose, AddCandidate, Select, Validate, Judge,
       Finish, Handle, Refuse, Render, Digest, SolverEnds, SolverKilled, SolverHangs, Raise,
       Die, Edit

\* The ways the driver ends.
LEMMA Endings ==
  ASSUME Basis, StopIsHeeded, Next, pc' = "ended"
  PROVE  \/ exit' \in {"1", "killed"}
         \/ pc = "begin" /\ exit' \in {"0", "2"} /\ UNCHANGED <<disk, doc>>
         \/ /\ Handle /\ disk' = doc' /\ doc'.stop = doc.stop
            /\ exit' = (IF doc.stop THEN "3" ELSE "1")
            /\ doc'.status = (IF doc.stop THEN "cost_overrun" ELSE "execution_failure")
         \/ /\ disk' = doc' /\ doc'.stop = doc.stop /\ pc \in {"select", "judge"}
            /\ exit' = "2" /\ doc'.status = "scientific_failure"
         \/ /\ disk' = doc' /\ doc'.stop = doc.stop /\ pc = "finish"
            /\ exit' = "0" /\ doc'.status = "pass"
<1> USE DEF Basis
<1>1. CASE Begin
  BY <1>1 DEF Begin
<1>2. CASE Select
  BY <1>2, SelectEffect DEF SaveAndExit, SaveFails, Listed, SameFlags
<1>3. CASE Judge
  BY <1>3, JudgeEffect DEF Save, SaveAndExit, SaveFails, Listed, SameFlags
<1>4. CASE Finish
  BY <1>4, FinishEffect DEF SaveAndExit, SaveFails, Listed, SameFlags
<1>5. CASE Handle
  BY <1>5, HandleEffect DEF Listed, SameFlags
<1>6. CASE Die
  BY <1>6 DEF Die
<1>7. CASE \E b \in Names(Binaries) : Edit(b)
  BY <1>7 DEF Edit
<1>8. CASE ~ Begin /\ ~ Select /\ ~ Judge /\ ~ Finish /\ ~ Handle /\ ~ Die
           /\ ~ \E b \in Names(Binaries) : Edit(b)
  BY <1>8 DEF Next, Driver, Solver, NextStartup, Native, Launch, ReadReceipt, Count,
       CheckReceipt, CheckEvidence, Analyse, Propose, AddCandidate, Validate,
       Refuse, Render, Digest, SolverEnds, SolverKilled, SolverHangs, Raise,
       Returns, Save, SaveFails, Caller
<1>9. QED
  BY <1>1, <1>2, <1>3, <1>4, <1>5, <1>6, <1>7, <1>8

LEMMA ExitStep ==
  ASSUME Basis, StopIsHeeded, CountsOptimizations, ExitMatchesRecord, Next
  PROVE  ExitMatchesRecord'
<1>1. StopIsHeeded' /\ pc # "ended"
  BY StopStep, NothingAfterEnd
<1>2. CASE pc' # "ended"
  BY <1>1, <1>2 DEF StopIsHeeded, ExitMatchesRecord
<1>3. CASE pc' = "ended"
  <2>1. doc.stop => pc \notin {"select", "judge", "finish"}
    BY DEF StopIsHeeded, Stopped
  <2>2. Overrun' => doc'.stop
    BY <1>1 DEF StopIsHeeded
  <2>3. pc = "begin" => disk = NoFile
    BY DEF Basis, Place
  <2>4. pc = "begin" => ~ doc.stop
    BY DEF StopIsHeeded, Stopped
  <2>5. QED
    BY <1>3, <2>1, <2>2, <2>3, <2>4, Endings DEF ExitMatchesRecord
<1>4. QED
  BY <1>2, <1>3

-----------------------------------------------------------------------------
(* The jobs that are settled.                                              *)

\* Somewhere in the plan, or nowhere yet, or nowhere any more.
LEMMA Stages ==
  ASSUME Basis
  PROVE  pc \in Stopped \/ pc = "begin" \/ InStartup \/ InBinary \/ InValidation
BY StateFacts, CallFacts
   DEF Basis, TypeOK, Stopped, InStartup, InBinary, InValidation, Busy, Working

\* Nothing is checked before the validation.
LEMMA NoChecks ==
  ASSUME Basis, pc \notin Stopped, ~ InValidation
  PROVE  Checked = 0
<1>1. doc.locked = <<>>
  BY Stages DEF Basis, Place, StartupPlace, BinaryPlace, NewDocument
<1>2. QED
  BY <1>1 DEF Checked

LEMMA StoppedStays ==
  ASSUME Next, pc \in Stopped
  PROVE  pc' \in Stopped
BY LaunchChange DEF Native, Launch, Edit, Stopped

\* Settled rows do not change.
LEMMA SettledFacts ==
  ASSUME Basis
  PROVE  /\ Settled \in Nat /\ Settled <= Last
         /\ Settled = Last \/ (Settled = Last - 1 /\ pc \in Working \cup {"candidate", "judge"})
BY StateFacts DEF Basis, Settled, RowMatches

LEMMA SettledRowsKeep ==
  ASSUME Basis, Next
  PROVE  \A i \in 1 .. Settled : doc'.runs[i] = doc.runs[i]
<1>1. Last \in Nat
  BY StateFacts DEF Basis
<1>2. CASE Settled = Last - 1
  BY <1>1, <1>2, RowsKeep
<1>3. CASE Settled = Last /\ pc \notin Working
  BY <1>3, RowsKeep DEF Working
<1>4. QED
  BY <1>1, <1>2, <1>3, SettledFacts DEF Settled

\* When a job becomes settled, and which.
LEMMA SettledChange ==
  ASSUME Basis, Next, pc' \notin Stopped
  PROVE  \/ Settled' = Settled
         \/ /\ Settled' = Settled + 1 /\ Settled = Last - 1 /\ Last' = Last
            /\ \/ pc = "evidence" /\ CheckEvidence
               \/ pc = "analyse" /\ Analyse /\ job.stage = "startup"
               \/ pc = "candidate" /\ AddCandidate
               \/ pc = "judge" /\ Judge
<1> USE DEF Basis
<1>1. Last \in Nat /\ Settled \in Nat
  BY StateFacts, SettledFacts
<1>2. CASE Native
  <2>1. pc = "native" /\ Save("launch") /\ Last' = Last + 1
    BY <1>2, NativeEffect DEF Stopped
  <2>2. pc' = "launch"
    BY <2>1 DEF Save, SaveFails, Stopped
  <2>3. QED
    BY <1>1, <2>1, <2>2 DEF Settled, Working
<1>3. CASE ~ Native
  <2>1. Last' = Last
    BY <1>3, RowsKeep
  <2>2. CASE \E b \in Names(Binaries) : Edit(b)
    BY <2>1, <2>2 DEF Edit, Settled
  <2>3. CASE Begin \/ NextStartup \/ Propose \/ Select \/ Validate \/ Finish \/ Handle \/ Raise \/ Die
    <3>1. /\ pc \notin Working \cup {"candidate", "judge"} \/ pc' \in Stopped
          /\ pc' \notin Working \cup {"candidate", "judge"}
      BY <2>3 DEF Begin, NextStartup, Propose, Select, Validate, Finish, Handle, Raise, Die,
                  SaveAndExit, SaveFails, Working, Stopped
    <3>2. QED
      BY <2>1, <3>1 DEF Settled
  <2>4. CASE Launch \/ ReadReceipt \/ Count \/ CheckReceipt \/ Solver \/ SolverHangs
    <3>1. pc \in Working /\ (pc' \in Working \/ pc' \in Stopped)
      BY <2>4 DEF Launch, ReadReceipt, Count, CheckReceipt, Solver, SolverHangs, Refuse, Render,
                  Digest, SolverEnds, SolverKilled, Returns, Save, SaveFails, Working, Stopped
    <3>2. QED
      BY <2>1, <3>1 DEF Settled
  <2>5. CASE CheckEvidence
    <3>1. pc = "evidence" /\ pc' \in {"handler", "analyse", "startup"}
      BY <2>5, CheckEvidenceEffect DEF Save, SaveFails
    <3>2. QED
      BY <1>1, <2>1, <2>5, <3>1 DEF Settled, Working, Stopped
  <2>6. CASE Analyse
    <3>1. pc = "analyse" /\ pc' \in {"handler", Caller(job.stage)}
      BY <2>6, AnalyseEffect DEF Save, SaveFails
    <3>2. job.stage \in {"startup", "binary", "validation"}
      BY StateFacts, CallFacts
    <3>3. pc' \in {"candidate", "judge"} \/ (pc' = "startup" /\ job.stage = "startup")
      BY <3>1, <3>2 DEF Caller, Stopped
    <3>4. QED
      BY <1>1, <2>1, <2>6, <3>1, <3>3 DEF Settled, Working
  <2>7. CASE AddCandidate
    <3>1. pc = "candidate" /\ pc' \in {"select", "propose", "handler"}
      BY <2>7, AddCandidateEffect DEF Save, SaveFails
    <3>2. QED
      BY <1>1, <2>1, <2>7, <3>1 DEF Settled, Working, Stopped
  <2>8. CASE Judge
    <3>1. pc = "judge" /\ pc' \in {"finish", "validate", "handler", "ended"}
      BY <2>8, JudgeEffect DEF Save, SaveAndExit, SaveFails
    <3>2. QED
      BY <1>1, <2>1, <2>8, <3>1 DEF Settled, Working, Stopped
  <2>9. QED
    BY <1>3, <2>2, <2>3, <2>4, <2>5, <2>6, <2>7, <2>8 DEF Next, Driver
<1>4. QED
  BY <1>2, <1>3

LEMMA StartupRowsStep ==
  ASSUME Basis, StartupRows, Next
  PROVE  StartupRows'
<1> USE DEF Basis
<1> SUFFICES ASSUME pc' \notin Stopped, NEW i \in 1 .. Len(Startup), i <= Settled'
             PROVE  /\ doc'.runs[i].name = Startup[i]
                    /\ doc'.runs[i].status \notin {"executing", "execution_failure"}
  BY DEF StartupRows
<1>1. /\ pc \notin Stopped /\ Last \in Nat /\ Settled \in Nat /\ Settled' \in Nat
      /\ Tried \in Nat /\ Checked \in Nat /\ Len(Startup) \in Nat
  BY StoppedStays, StateFacts, SettledFacts, SettledChange, ListFacts
<1>2. CASE i <= Settled
  <2>1. doc'.runs[i] = doc.runs[i]
    BY <1>1, <1>2, SettledRowsKeep
  <2>2. QED
    BY <1>1, <1>2, <2>1 DEF StartupRows
<1>3. CASE ~ (i <= Settled)
  <2>1. /\ Settled' = Settled + 1 /\ Settled = Last - 1 /\ Last' = Last
        /\ \/ pc = "evidence" /\ CheckEvidence
           \/ pc = "analyse" /\ Analyse /\ job.stage = "startup"
           \/ pc = "candidate" /\ AddCandidate
           \/ pc = "judge" /\ Judge
    BY <1>1, <1>3, SettledChange
  <2>2. i = Last /\ i = Settled + 1
    BY <1>1, <1>3, <2>1
  <2>3. pc \notin {"candidate", "judge"}
    <3>1. InBinary \/ InValidation => Len(Startup) <= Settled
      BY <1>1 DEF Place, BinaryPlace, ValidationPlace
    <3>2. QED
      BY <1>1, <2>2, <3>1 DEF InBinary, InValidation
  <2>4. Row.name = job.name /\ pc \in Working /\ Last > 0
    BY <2>1, <2>3 DEF RowMatches, Working
  <2>5. CASE CheckEvidence
    <3>1. pc' = "startup" \/ pc' = "analyse"
      BY <2>5, CheckEvidenceEffect DEF Save, SaveFails, Stopped
    <3>2. pc' = "startup"
      BY <1>1, <2>1, <3>1 DEF Settled, Working
    <3>3. ChecksGradient(job) /\ Noted("gradient_pass")
      BY <2>5, <3>2, CheckEvidenceEffect DEF Save, SaveFails
    <3>4. job.name = Startup[i]
      BY <2>2, <2>4, <3>3 DEF ChecksGradient, Place, StartupPlace, InStartup, Busy, Working
    <3>5. Row' = doc'.runs[i] /\ Row'.name = Row.name /\ Row'.status = "gradient_pass"
      BY <2>1, <2>2, <2>4, <3>3, NotedRow DEF Row
    <3>6. QED
      BY <2>4, <3>4, <3>5
  <2>6. CASE Analyse
    <3>1. job.stage = "startup" /\ pc' # "handler"
      BY <2>1, <2>6, AnalyseEffect, CheckEvidenceEffect DEF Stopped
    <3>2. PICK status \in Scientific : Noted(status)
      BY <2>6, <3>1, AnalyseEffect DEF Save, SaveFails
    <3>3. job.name = Startup[i]
      BY <2>2, <2>4, <3>1 DEF Place, StartupPlace, InStartup, Busy, Working
    <3>4. Row' = doc'.runs[i] /\ Row'.name = Row.name /\ Row'.status = status
      BY <2>1, <2>2, <2>4, <3>2, NotedRow DEF Row
    <3>5. QED
      BY <2>4, <3>2, <3>3, <3>4 DEF Scientific
  <2>7. QED
    BY <2>1, <2>3, <2>5, <2>6
<1>4. QED
  BY <1>2, <1>3

\* Candidates are counted before anything is checked, and checks are only added.
LEMMA ListsKeep ==
  ASSUME Basis, Next
  PROVE  /\ Tried' = Tried \/ AddCandidate
         /\ \/ doc'.locked = doc.locked
            \/ /\ Judge /\ Checked' = Checked + 1
               /\ \A k \in 1 .. Checked : doc'.locked[k] = doc.locked[k]
<1> USE DEF Basis
<1>1. CASE UNCHANGED doc
  BY <1>1 DEF Tried
<1>2. CASE ~ UNCHANGED doc
  BY <1>2, NativeEffect, CountEffect, CheckReceiptEffect, CheckEvidenceEffect, AnalyseEffect,
     AddCandidateEffect, SelectEffect, JudgeEffect, FinishEffect, HandleEffect
     DEF Next, Driver, Solver, Begin, NextStartup, Launch, ReadReceipt, Propose, Validate,
         Refuse, Render, Digest, SolverEnds, SolverKilled, SolverHangs, Raise, Die, Edit,
         Returns, outside, Noted, SameLists, Tried
<1>3. QED
  BY <1>1, <1>2

LEMMA ValidationRowsStep ==
  ASSUME Basis, ValidationRows, Next
  PROVE  ValidationRows'
<1> USE DEF Basis
<1> SUFFICES ASSUME pc' \notin Stopped, NEW k \in 1 .. Checked'
             PROVE  /\ doc'.locked[k] = Accepted(Validation[k])
                    /\ CheckRow(k)'.name = Validation[k]
                    /\ CheckRow(k)'.status = "scientific_pass"
  BY DEF ValidationRows, Accepted
<1>1. /\ pc \notin Stopped /\ Last \in Nat /\ Settled \in Nat
      /\ Tried \in Nat /\ Checked \in Nat /\ Checked' \in Nat /\ Len(Startup) \in Nat
  <2>1. /\ pc \notin Stopped /\ Last \in Nat /\ Settled \in Nat
        /\ Tried \in Nat /\ Checked \in Nat /\ Len(Startup) \in Nat
    BY StoppedStays, StateFacts, SettledFacts, ListFacts
  <2>2. Checked' = Checked \/ Checked' = Checked + 1
    BY ListsKeep DEF Checked
  <2>3. QED
    BY <2>1, <2>2
<1>2. InValidation \/ Checked = 0
  BY <1>1, NoChecks
<1>3. InValidation => Settled = Len(Startup) + Tried + Checked
  BY DEF Place, ValidationPlace
<1>4. CASE k <= Checked
  <2>1. InValidation
    BY <1>1, <1>2, <1>4
  <2>2. pc # "candidate"
    BY <1>1, <1>4, <2>1 DEF Place, BinaryPlace, InBinary, Checked
  <2>3. Tried' = Tried
    BY <2>2, ListsKeep DEF AddCandidate
  <2>4. doc'.locked[k] = doc.locked[k]
    BY <1>1, <1>4, ListsKeep
  <2>5. Len(Startup) + Tried + k \in 1 .. Settled
    BY <1>1, <1>3, <1>4, <2>1
  <2>6. CheckRow(k)' = CheckRow(k)
    BY <2>3, <2>5, SettledRowsKeep DEF CheckRow
  <2>7. QED
    BY <1>1, <1>4, <2>4, <2>6 DEF ValidationRows, Accepted
<1>5. CASE ~ (k <= Checked)
  <2>1. Judge /\ Checked' = Checked + 1 /\ pc = "judge"
    <3>1. Checked' # Checked
      BY <1>1, <1>5
    <3>2. QED
      BY <3>1, ListsKeep DEF Checked, Judge
  <2>2. k = Checked + 1
    BY <1>1, <1>5, <2>1
  <2>3. pc' \notin {"handler", "ended"}
    BY DEF Stopped
  <2>4. /\ doc'.locked[Checked + 1] = Accepted(job.name) /\ Row.status = "scientific_pass"
        /\ Listed /\ doc'.candidates = doc.candidates
    BY <2>1, <2>3, JudgeEffect DEF SaveAndExit, SaveFails
  <2>5. InValidation /\ job.name = Validation[Checked + 1]
    BY <2>1 DEF Place, ValidationPlace, InValidation
  <2>6. Last = Len(Startup) + Tried + k
    BY <1>1, <1>3, <2>1, <2>2, <2>5 DEF Settled
  <2>7. CheckRow(k)' = Row
    BY <2>4, <2>6 DEF CheckRow, Row, Listed, Tried
  <2>8. Row.name = job.name
    BY <2>1 DEF RowMatches
  <2>9. QED
    BY <2>2, <2>4, <2>5, <2>7, <2>8
<1>6. QED
  BY <1>4, <1>5

-----------------------------------------------------------------------------
(* The cost of an optimization that was cut short is marked.               *)

\* When a solver run ends.
Ends == \E outcome : Returns(outcome) /\ pc \in {"render", "compute", "hung"}

LEMMA ShortChange ==
  ASSUME Basis, Next
  PROVE  Ends \/ UNCHANGED short
BY DEF Next, Driver, Solver, Begin, NextStartup, Native, Launch, ReadReceipt, Count, CheckReceipt,
       CheckEvidence, Analyse, Propose, AddCandidate, Select, Validate, Judge, Finish, Handle,
       Refuse, Render, Digest, SolverEnds, SolverKilled, SolverHangs, Raise, Die, Edit, outside, Ends

LEMMA LowerKept ==
  ASSUME Basis, Next, ~ Count
  PROVE  doc'.lower = doc.lower
BY NativeEffect, CheckReceiptEffect, CheckEvidenceEffect, AnalyseEffect, AddCandidateEffect,
   SelectEffect, JudgeEffect, FinishEffect, HandleEffect
   DEF Basis, Next, Driver, Solver, Begin, NextStartup, Launch, ReadReceipt, Propose, Validate,
       Refuse, Render, Digest, SolverEnds, SolverKilled, SolverHangs, Raise, Die, Edit,
       Returns, outside, Noted, Listed, SameFlags

LEMMA EndsMarked ==
  ASSUME Basis, Marked, StartupRows, SavedFirst, Ends
  PROVE  Marked'
<1> USE DEF Basis
<1>1. PICK outcome : Returns(outcome) /\ pc \in {"render", "compute", "hung"}
  BY DEF Ends
<1>2. /\ job' = [job EXCEPT !.outcome = outcome] /\ pc' = "returned" /\ UNCHANGED <<doc, disk>>
      /\ short' = IF Optimizes(job) /\ ~ outcome.finished THEN short \cup {job.name} ELSE short
  BY <1>1 DEF Returns
<1>3. job \in Call /\ Last \in Nat
  BY StateFacts
<1>4. job'.name = job.name /\ job'.stage = job.stage /\ job'.outcome = outcome
  BY <1>2, <1>3 DEF Call
<1>5. Optimizes(job)' <=> Optimizes(job)
  BY <1>4 DEF Optimizes
<1>6. doc.lower \/ short = {}
  BY <1>1 DEF Marked, Uncounted, Stopped
<1>7. doc'.lower \/ short' \subseteq Uncounted'
  BY <1>2, <1>4, <1>5, <1>6 DEF Uncounted
<1>8. Told(doc)'
  <2>1. CASE doc.lower
    BY <1>2, <2>1 DEF Told
  <2>2. CASE short = {} /\ ~ Optimizes(job)
    BY <1>2, <2>2 DEF Told
  <2>3. CASE short = {} /\ Optimizes(job)
    <3>1. /\ InStartup /\ Settled = Last - 1 /\ Last > 0 /\ Row.status = "executing"
          /\ pc \notin Stopped /\ pc \in Working
      BY <1>1, <2>3 DEF Optimizes, InStartup, Busy, Working, Settled, RowMatches, Stopped
    <3>2. job.name = Startup[Last] /\ Last \in 1 .. Len(Startup)
      BY <1>3, <3>1, ListFacts DEF Place, StartupPlace, Working
    <3>3. \A i \in 1 .. Last - 1 : doc.runs[i].name = Startup[i] /\ i \in 1 .. Len(Startup)
      BY <1>3, <3>1, <3>2, ListFacts DEF StartupRows
    <3>4. \A i \in 1 .. Last - 1 : doc.runs[i].name # job.name
      BY <1>3, <3>2, <3>3, StartupAssumption
    <3>5. \A i \in 1 .. Last : doc.runs[i].name = job.name => doc.runs[i].status = "executing"
      BY <1>3, <3>1, <3>4 DEF Row
    <3>6. short' \subseteq {job.name}
      BY <1>2, <2>3
    <3>7. QED
      BY <1>2, <3>5, <3>6 DEF Told, Last
  <2>4. QED
    BY <1>6, <2>1, <2>2, <2>3
<1>9. disk' = doc'
  BY <1>1, <1>2 DEF SavedFirst
<1>10. QED
  BY <1>2, <1>7, <1>8, <1>9 DEF Marked, Told

LEMMA MarkedStep ==
  ASSUME Basis, Marked, StartupRows, SavedFirst, CountsOptimizations, Next
  PROVE  Marked'
<1> USE DEF Basis
<1>1. CASE Ends
  BY <1>1, EndsMarked
<1>2. CASE ~ Ends
  <2>1. UNCHANGED short
    BY <1>2, ShortChange
  <2>2. job.outcome \in Outcome
    BY StateFacts, CallFacts
  <2>3. pc' \notin Stopped => doc'.lower \/ short' \subseteq Uncounted'
    <3> SUFFICES ASSUME pc' \notin Stopped PROVE doc'.lower \/ short' \subseteq Uncounted'
      OBVIOUS
    <3>1. pc \notin Stopped
      BY StoppedStays
    <3>2. doc.lower \/ short \subseteq Uncounted
      BY <3>1 DEF Marked
    <3>3. CASE Count
      <4>1. doc'.lower = (doc.lower \/ Partial(job.outcome))
        BY <3>3, CountEffect
      <4>2. ~ Partial(job.outcome) => Uncounted = {}
        BY <2>2, OutcomeFacts DEF Uncounted
      <4>3. QED
        BY <2>1, <3>2, <4>1, <4>2
    <3>4. CASE ReadReceipt
      <4>1. UNCHANGED <<job, doc>> /\ pc = "returned" /\ pc' = (IF Optimizes(job) THEN "count" ELSE "receipt")
        BY <3>4 DEF ReadReceipt, Stopped
      <4>2. Uncounted' = Uncounted
        BY <4>1 DEF Uncounted, Optimizes
      <4>3. QED
        BY <2>1, <3>2, <4>1, <4>2
    <3>5. CASE \E b \in Names(Binaries) : Edit(b)
      BY <2>1, <3>2, <3>5 DEF Edit, Uncounted, Optimizes
    <3>6. CASE ~ Count /\ ~ ReadReceipt /\ ~ \E b \in Names(Binaries) : Edit(b)
      <4>1. pc \notin {"returned", "count"}
        BY <3>6 DEF Next, Driver, Solver, Begin, NextStartup, Native, Launch, CheckReceipt,
           CheckEvidence, Analyse, Propose, AddCandidate, Select, Validate, Judge, Finish, Handle,
           Refuse, Render, Digest, SolverEnds, SolverKilled, SolverHangs, Raise, Die, Stopped
      <4>2. doc'.lower = doc.lower /\ Uncounted = {}
        BY <3>6, <4>1, LowerKept DEF Uncounted
      <4>3. QED
        BY <2>1, <3>2, <4>2
    <3>7. QED
      BY <3>3, <3>4, <3>5, <3>6
  <2>4. Told(doc)'
    <3>1. CASE doc'.lower
      BY <3>1 DEF Told
    <3>2. CASE UNCHANGED doc
      BY <2>1, <3>2 DEF Marked, Told
    <3>3. CASE pc \in Stopped
      <4>1. UNCHANGED doc \/ Listed
        BY <3>3, HandleEffect
           DEF Next, Driver, Solver, Begin, NextStartup, Native, Launch, ReadReceipt, Count,
               CheckReceipt, CheckEvidence, Analyse, Propose, AddCandidate, Select, Validate, Judge,
               Finish, Refuse, Render, Digest, SolverEnds, SolverKilled, SolverHangs, Raise, Die,
               Edit, Stopped
      <4>2. QED
        BY <2>1, <3>2, <4>1 DEF Marked, Told, Listed, SameFlags
    <3>4. CASE ~ doc'.lower /\ ~ UNCHANGED doc /\ pc \notin Stopped
      <4>1. doc.lower => doc'.lower
        BY LowerKept, CountEffect
      <4>2. short \subseteq Uncounted
        BY <3>4, <4>1 DEF Marked
      <4>3. Uncounted = {}
        <5>1. CASE Count
          <6>1. ~ Partial(job.outcome)
            BY <3>4, <5>1, CountEffect
          <6>2. QED
            BY <2>2, <6>1, OutcomeFacts DEF Uncounted
        <5>2. CASE ~ Count
          <6>1. pc \notin {"returned", "count"}
            BY <3>4, <5>2 DEF Next, Driver, Solver, Begin, NextStartup, Native, Launch, ReadReceipt,
               CheckReceipt, CheckEvidence, Analyse, Propose, AddCandidate, Select, Validate, Judge,
               Finish, Handle, Refuse, Render, Digest, SolverEnds, SolverKilled, SolverHangs, Raise,
               Die, Edit
          <6>2. QED
            BY <6>1 DEF Uncounted
        <5>3. QED
          BY <5>1, <5>2
      <4>4. short' = {}
        BY <2>1, <4>2, <4>3
      <4>5. QED
        BY <4>4 DEF Told
    <3>5. QED
      BY <3>1, <3>2, <3>3, <3>4
  <2>5. (Readable => Told(disk))'
    <3>1. CASE disk' = doc'
      BY <2>4, <3>1 DEF Told
    <3>2. CASE disk' = disk
      BY <2>1, <3>2 DEF Marked, Told, Readable
    <3>3. CASE disk' = Torn
      BY <3>3 DEF Readable
    <3>4. QED
      BY <3>1, <3>2, <3>3, DiskChange
  <2>6. QED
    BY <2>3, <2>4, <2>5 DEF Marked
<1>3. QED
  BY <1>1, <1>2

-----------------------------------------------------------------------------
(* The holdouts are last.                                                  *)

LEMMA HoldoutStep ==
  ASSUME Basis, ValidationRows, HoldoutsLast, Next
  PROVE  HoldoutsLast'
<1> USE DEF Basis
<1>1. Last \in Nat /\ Checked \in Nat /\ Len(launched) \in Nat
  BY StateFacts
<1>2. \A k \in 1 .. Checked : doc'.locked[k] = doc.locked[k] /\ k \in 1 .. Checked'
  <2>1. CASE doc'.locked = doc.locked
    BY <2>1 DEF Checked
  <2>2. CASE Checked' = Checked + 1 /\ \A k \in 1 .. Checked : doc'.locked[k] = doc.locked[k]
    BY <1>1, <2>2
  <2>3. QED
    BY <2>1, <2>2, ListsKeep
<1>3. ASSUME NEW n, \E k \in 1 .. Checked : doc.locked[k] = Accepted(n)
      PROVE  \E k \in 1 .. Checked' : doc'.locked[k] = Accepted(n)
  BY <1>2, <1>3
<1> SUFFICES ASSUME NEW i \in 1 .. Len(launched'), launched'[i] \in Holdouts,
                    NEW n \in Names(Validation) \ Holdouts
             PROVE  \E k \in 1 .. Checked' : doc'.locked[k] = Accepted(n)
  BY DEF HoldoutsLast, Checked, Accepted
<1>4. CASE UNCHANGED launched
  <2>1. \E k \in 1 .. Checked : doc.locked[k] = Accepted(n)
    BY <1>4 DEF HoldoutsLast, Checked, Accepted
  <2>2. QED
    BY <1>3, <2>1
<1>5. CASE Launch
  <2>1. pc = "launch" /\ launched' = Append(launched, job.name)
    BY <1>5 DEF Launch
  <2>2. job.name \in Jobs
    BY <2>1, BusyFacts DEF Busy, Working
  <2>3. launched'[i] = job.name \/ (i \in 1 .. Len(launched) /\ launched'[i] = launched[i])
    BY <1>1, <2>1, <2>2 DEF TypeOK
  <2>4. CASE i \in 1 .. Len(launched) /\ launched'[i] = launched[i]
    <3>1. \E k \in 1 .. Checked : doc.locked[k] = Accepted(n)
      BY <2>4 DEF HoldoutsLast, Checked, Accepted
    <3>2. QED
      BY <1>3, <3>1
  <2>5. CASE job.name \in Holdouts
    <3>1. job.stage = "validation"
      BY <2>1, <2>5, BusyFacts, HoldoutsAssumption DEF Busy, Working
    <3>2. job.name = Validation[Checked + 1] /\ Checked < Len(Validation)
      BY <2>1, <3>1 DEF Place, ValidationPlace, InValidation, Busy, Working
    <3>3. PICK m \in 1 .. Len(Validation) : Validation[m] = n
      BY DEF Names
    <3>4. m \in 1 .. Checked
      BY <1>1, <2>5, <3>2, <3>3, HoldoutsAssumption, ListFacts
    <3>5. doc.locked[m] = Accepted(n)
      BY <2>1, <3>3, <3>4 DEF ValidationRows, Stopped, Accepted
    <3>6. QED
      BY <1>3, <3>4, <3>5
  <2>6. QED
    BY <2>3, <2>4, <2>5
<1>6. UNCHANGED launched \/ Launch
  BY LaunchChange DEF Native, Edit, outside
<1>7. QED
  BY <1>4, <1>5, <1>6

-----------------------------------------------------------------------------
(* The masks.                                                              *)

\* What was changed back once, was.
LEMMA RestoredStays ==
  ASSUME Next, ~ restored'
  PROVE  ~ restored
<1>1. CASE \E b \in Names(Binaries) : Edit(b)
  BY <1>1 DEF Edit
<1>2. CASE ~ \E b \in Names(Binaries) : Edit(b)
  <2>1. UNCHANGED restored
    BY <1>2 DEF Next, Driver, Solver, Begin, NextStartup, Native, Launch, ReadReceipt, Count, Propose,
       CheckReceipt, CheckEvidence, Analyse, AddCandidate, Select, Validate, Judge, Finish, Handle,
       Refuse, Render, Digest, SolverEnds, SolverKilled, SolverHangs, Raise, Die, outside, Returns
  <2>2. QED
    BY <2>1
<1>3. QED
  BY <1>1, <1>2

\* A change that is not undone only makes a mask newer, and only Propose resets one.
LEMMA MasksGrow ==
  ASSUME Basis, Versions, Next, ~ restored'
  PROVE  ~ Propose => \A b \in Names(Binaries) : masks[b] <= masks'[b]
<1>1. TypeOK /\ edits \in Nat /\ \A b \in Names(Binaries) : masks[b] \in NoMask .. MaxEdits
  BY StateFacts DEF Basis
<1>2. CASE \E b \in Names(Binaries) : Edit(b)
  <2>1. PICK b \in Names(Binaries) : Edit(b)
    BY <1>2
  <2>2. PICK version \in 0 .. (edits + 1) :
          masks' = [masks EXCEPT ![b] = version] /\ restored' = (restored \/ version <= edits)
    BY <2>1 DEF Edit
  <2>3. version > edits
    <3>1. ~ (version <= edits)
      BY <2>2, Zenon
    <3>2. QED
      BY <1>1, <3>1
  <2>4. \A a \in Names(Binaries) : masks'[a] = IF a = b THEN version ELSE masks[a]
    BY <1>1, <2>2 DEF TypeOK
  <2>5. QED
    BY <1>1, <2>3, <2>4, CampaignBounds DEF Versions, NoMask
<1>3. CASE ~ \E b \in Names(Binaries) : Edit(b)
  <2>1. UNCHANGED masks \/ Propose
    BY <1>3 DEF Next, Driver, Solver, Begin, NextStartup, Native, Launch, ReadReceipt, Count,
       CheckReceipt, CheckEvidence, Analyse, AddCandidate, Select, Validate, Judge, Finish, Handle,
       Refuse, Render, Digest, SolverEnds, SolverKilled, SolverHangs, Raise, Die, outside, Returns
  <2>2. QED
    BY <1>1, <2>1, CampaignBounds DEF NoMask
<1>4. QED
  BY <1>2, <1>3

LEMMA VersionsStep ==
  ASSUME Basis, Versions, Next
  PROVE  Versions'
<1>1. TypeOK /\ edits \in Nat /\ \A b \in Names(Binaries) : masks[b] \in NoMask .. MaxEdits
  BY StateFacts DEF Basis
<1>2. CASE \E b \in Names(Binaries) : Edit(b)
  <2>1. PICK b \in Names(Binaries) : Edit(b)
    BY <1>2
  <2>2. PICK version \in 0 .. (edits + 1) : masks' = [masks EXCEPT ![b] = version]
    BY <2>1 DEF Edit
  <2>3. \A a \in Names(Binaries) : masks'[a] = IF a = b THEN version ELSE masks[a]
    BY <1>1, <2>2 DEF TypeOK
  <2>4. edits' = edits + 1
    BY <2>1 DEF Edit
  <2>5. QED
    BY <1>1, <2>2, <2>3, <2>4, CampaignBounds DEF Versions, NoMask
<1>3. CASE Propose
  <2>1. \A a \in Names(Binaries) : masks'[a] \in {0, masks[a]}
    BY <1>1, <1>3 DEF Propose, TypeOK
  <2>2. UNCHANGED edits
    BY <1>3 DEF Propose
  <2>3. QED
    BY <1>1, <2>1, <2>2 DEF Versions
<1>4. CASE ~ Propose /\ ~ \E b \in Names(Binaries) : Edit(b)
  <2>1. UNCHANGED <<masks, edits>>
    BY <1>4 DEF Next, Driver, Solver, Begin, NextStartup, Native, Launch, ReadReceipt, Count,
       CheckReceipt, CheckEvidence, Analyse, AddCandidate, Select, Validate, Judge, Finish, Handle,
       Refuse, Render, Digest, SolverEnds, SolverKilled, SolverHangs, Raise, Die, outside, Returns
  <2>2. QED
    BY <2>1 DEF Versions
<1>5. QED
  BY <1>2, <1>3, <1>4

\* The mask of a job does not get older while the job is worked on.
LEMMA MaskNowGrows ==
  ASSUME Basis, Versions, Next, ~ restored', pc \in Working,
         job'.name = job.name, job'.stage = job.stage, doc'.selection = doc.selection
  PROVE  MaskNow(job) <= MaskNow(job)'
<1>1. ~ Propose
  BY DEF Propose, Working
<1>2. \A b \in Names(Binaries) : masks[b] <= masks'[b]
  BY <1>1, MasksGrow
<1>3. MaskNow(job) \in NoMask .. MaxEdits
  BY BusyFacts DEF Basis, Busy
<1>4. CASE job.stage = "startup"
  BY <1>4 DEF MaskNow, NoMask
<1>5. CASE job.stage = "binary"
  <2>1. job.name \in Names(Binaries)
    BY <1>5, BusyFacts DEF Basis, Busy
  <2>2. MaskNow(job) = masks[job.name] /\ MaskNow(job)' = masks'[job.name]
    BY <1>5 DEF MaskNow, MaskOf
  <2>3. QED
    BY <1>2, <2>1, <2>2
<1>6. CASE job.stage = "validation"
  <2>1. doc.selection \in Names(Binaries)
    BY <1>6, BusyFacts DEF Basis, Busy
  <2>2. MaskNow(job) = masks[doc.selection] /\ MaskNow(job)' = masks'[doc.selection]
    BY <1>6 DEF MaskNow, MaskOf
  <2>3. QED
    BY <1>2, <2>1, <2>2
<1>7. QED
  BY <1>4, <1>5, <1>6, BusyFacts DEF Basis, Busy

LEMMA MaskReadStep ==
  ASSUME Basis, Versions, MaskRead, Next, ~ restored'
  PROVE  MaskRead'
<1> USE DEF Basis
<1>1. job \in Call /\ \A n \in Jobs : solved[n] \in NoMask .. MaxEdits
  BY StateFacts
<1>2. pc \in Busy => job.name \in Jobs /\ MaskNow(job) \in NoMask .. MaxEdits
  BY BusyFacts
<1>3. CASE Native
  <2>1. CASE pc' = "handler"
    BY <2>1 DEF MaskRead
  <2>2. CASE pc' # "handler"
    <3>1. /\ pc = "native" /\ Save("launch") /\ UNCHANGED outside /\ SameLists
          /\ job'.name = job.name /\ job'.stage = job.stage /\ job'.mask = MaskNow(job)
      BY <1>3, <2>2, NativeEffect
    <3>2. pc' = "launch"
      BY <2>2, <3>1 DEF Save, SaveFails
    <3>3. MaskNow(job)' = MaskNow(job)
      BY <3>1 DEF MaskNow, MaskOf, outside, SameLists
    <3>4. MaskNow(job) <= MaskNow(job)
      BY <1>2, <3>1, CampaignBounds DEF Busy, NoMask
    <3>5. QED
      BY <3>1, <3>2, <3>3, <3>4 DEF MaskRead
  <2>3. QED
    BY <2>1, <2>2
<1>4. CASE Launch
  <2>1. pc = "launch" /\ pc' = "render" /\ UNCHANGED <<job, doc, masks>>
    BY <1>4 DEF Launch
  <2>2. QED
    BY <2>1 DEF MaskRead, MaskNow, MaskOf
<1>5. CASE Render
  <2>1. /\ pc = "render" /\ pc' = "digest" /\ UNCHANGED <<job, doc, masks>>
        /\ solved' = [solved EXCEPT ![job.name] = MaskNow(job)] /\ job.name \in Jobs
    BY <1>2, <1>5 DEF Render, Busy, Working
  <2>2. solved'[job.name] = MaskNow(job)
    BY <2>1 DEF TypeOK
  <2>3. job.mask <= MaskNow(job) /\ MaskNow(job) <= MaskNow(job)
    BY <1>2, <2>1, CampaignBounds DEF MaskRead, Busy, Working, NoMask
  <2>4. QED
    BY <2>1, <2>2, <2>3 DEF MaskRead, MaskNow, MaskOf
<1>6. CASE Digest
  <2>1. /\ pc = "digest" /\ pc' = "compute" /\ UNCHANGED solved
        /\ job' = [job EXCEPT !.digest = MaskNow(job)] /\ folders' = folders \cup {job.name}
    BY <1>6 DEF Digest
  <2>2. job'.name = job.name /\ job'.mask = job.mask /\ job'.digest = MaskNow(job)
    BY <1>1, <2>1 DEF Call
  <2>3. job.mask <= solved[job.name] /\ solved[job.name] <= MaskNow(job)
    BY <2>1 DEF MaskRead
  <2>4. QED
    BY <2>1, <2>2, <2>3 DEF MaskRead, Rendered
<1>7. ASSUME NEW outcome, Returns(outcome),
             pc \in {"compute", "hung"} \/ (pc = "render" /\ outcome.exit = "failed")
      PROVE  MaskRead'
  <2>1. job' = [job EXCEPT !.outcome = outcome] /\ pc' = "returned" /\ UNCHANGED <<folders, solved>>
    BY <1>7 DEF Returns
  <2>2. /\ job'.name = job.name /\ job'.mask = job.mask /\ job'.digest = job.digest
        /\ job'.outcome = outcome
    BY <1>1, <2>1 DEF Call
  <2>3. outcome.exit = "ok" => Rendered
    BY <1>7 DEF MaskRead
  <2>4. QED
    BY <2>1, <2>2, <2>3 DEF MaskRead, Rendered
<1>8. CASE Refuse
  <2>1. PICK outcome : Returns(outcome) /\ outcome.exit = "failed" /\ pc = "render"
    BY <1>8 DEF Refuse, Nothing
  <2>2. QED
    BY <1>7, <2>1
<1>9. CASE SolverEnds \/ SolverKilled
  BY <1>7, <1>9 DEF SolverEnds, SolverKilled
<1>10. CASE SolverHangs \/ ReadReceipt
  <2>1. /\ UNCHANGED <<job, folders, solved>>
        /\ \/ pc = "compute" /\ pc' = "hung"
           \/ pc = "returned" /\ pc' \in {"count", "receipt", "handler"}
    BY <1>10 DEF SolverHangs, ReadReceipt, outside
  <2>2. QED
    BY <2>1 DEF MaskRead, Rendered
<1>11. CASE Count \/ CheckReceipt \/ CheckEvidence
  <2>1. /\ UNCHANGED <<job, folders, solved>> /\ pc \in {"count", "receipt", "evidence"}
        /\ pc' \in {"receipt", "evidence", "handler", "startup"} \/ (pc' = "analyse" /\ Evidence(job))
    BY <1>11, CountEffect, CheckReceiptEffect, CheckEvidenceEffect DEF outside, Save, SaveFails
  <2>2. QED
    BY <2>1 DEF MaskRead, Rendered, Evidence
<1>12. CASE \E b \in Names(Binaries) : Edit(b)
  <2>1. UNCHANGED <<pc, job, doc, solved, folders>>
    BY <1>12 DEF Edit
  <2>2. pc \in Working => MaskNow(job) <= MaskNow(job)' /\ MaskNow(job)' \in Int
    <3>1. pc \in Working => MaskNow(job) <= MaskNow(job)'
      BY <2>1, MaskNowGrows
    <3>2. TypeOK' /\ Place' /\ RowMatches'
      BY BasisStep
    <3>3. pc \in Working => MaskNow(job)' \in Int
      <4>1. CASE job.stage = "startup"
        BY <2>1, <4>1 DEF MaskNow, NoMask
      <4>2. CASE pc \in Working /\ job.stage # "startup"
        <5>1. MaskOf(job) \in Names(Binaries)
          BY <1>1, <4>2, BusyFacts, CallFacts DEF MaskOf, Busy
        <5>2. masks'[MaskOf(job)] \in NoMask .. MaxEdits
          BY <3>2, <5>1 DEF TypeOK
        <5>3. MaskNow(job)' = masks'[MaskOf(job)]
          BY <2>1, <4>2 DEF MaskNow, MaskOf
        <5>4. QED
          BY <5>2, <5>3, CampaignBounds DEF NoMask
      <4>3. QED
        BY <4>1, <4>2
    <3>4. QED
      BY <3>1, <3>3
  <2>3. /\ pc' = pc /\ job' = job /\ (Rendered <=> Rendered')
    BY <2>1 DEF Rendered
  <2>4. pc \in {"launch", "render"} => job'.mask <= MaskNow(job)'
    <3>1. pc \in {"launch", "render"} => job.mask <= MaskNow(job) /\ job.mask \in Int /\ MaskNow(job) \in Int
      BY <1>1, <1>2, CallFacts, CampaignBounds DEF MaskRead, Busy, Working, NoMask
    <3>2. QED
      BY <2>1, <2>2, <3>1 DEF Working
  <2>5. pc = "digest" => job'.mask <= solved'[job'.name] /\ solved'[job'.name] <= MaskNow(job)'
    <3>1. pc = "digest" => /\ solved[job.name] <= MaskNow(job) /\ job.mask <= solved[job.name]
                           /\ solved[job.name] \in Int /\ MaskNow(job) \in Int
      BY <1>1, <1>2, CampaignBounds DEF MaskRead, Busy, Working, NoMask
    <3>2. QED
      BY <2>1, <2>2, <3>1 DEF Working
  <2>6. QED
    BY <2>1, <2>3, <2>4, <2>5 DEF MaskRead
<1>13. CASE Begin \/ NextStartup \/ Analyse \/ Propose \/ AddCandidate \/ Select \/ Validate
            \/ Judge \/ Finish \/ Handle \/ Raise \/ Die
  <2>1. pc' \in {"startup", "ended", "propose", "native", "handler", "validate", "candidate",
                 "judge", "select", "finish"}
    BY <1>13 DEF Begin, NextStartup, Analyse, Propose, AddCandidate, Select, Validate, Judge,
                 Finish, Handle, Raise, Die, Save, SaveAndExit, SaveFails, Caller
  <2>2. QED
    BY <2>1 DEF MaskRead
<1>14. QED
  BY <1>3, <1>4, <1>5, <1>6, <1>8, <1>9, <1>10, <1>11, <1>12, <1>13 DEF Next, Driver, Solver

\* Which row an analysis is about.
LEMMA NewlyScientific ==
  ASSUME Basis, Next, NEW i \in 1 .. Last', doc'.runs[i].status \in Scientific
  PROVE  \/ i \in 1 .. Last /\ doc.runs[i].status \in Scientific
         \/ i = Last /\ Analyse
<1> USE DEF Basis
<1>1. Last \in Nat
  BY StateFacts
<1>2. CASE UNCHANGED doc
  BY <1>2 DEF Last
<1>3. CASE Native /\ ~ UNCHANGED doc
  BY <1>1, <1>3, NativeEffect DEF Scientific
<1>4. CASE Count
  <2>1. SameRows /\ Row'.status = Row.status
    BY <1>4, CountEffect
  <2>2. \A k \in 1 .. Last : doc'.runs[k].status = doc.runs[k].status
    BY <1>1, <2>1 DEF SameRows, Row
  <2>3. QED
    BY <2>1, <2>2 DEF SameRows
<1>5. ASSUME NEW status, Noted(status), status \notin Scientific
      PROVE  i \in 1 .. Last /\ doc.runs[i].status \in Scientific
  BY <1>1, <1>5 DEF Noted, SameRows, Row
<1>6. CASE (CheckReceipt \/ CheckEvidence) /\ ~ UNCHANGED doc
  <2>1. \E status : Noted(status) /\ status \notin Scientific
    BY <1>6, CheckReceiptEffect, CheckEvidenceEffect DEF Scientific
  <2>2. QED
    BY <1>5, <2>1
<1>7. CASE Analyse
  <2>1. SameRows
    BY <1>7, AnalyseEffect DEF Noted
  <2>2. QED
    BY <1>1, <1>7, <2>1 DEF SameRows
<1>8. CASE (AddCandidate \/ Select \/ Judge \/ Finish \/ Handle) /\ ~ UNCHANGED doc
  BY <1>8, AddCandidateEffect, SelectEffect, JudgeEffect, FinishEffect, HandleEffect DEF Listed, Last
<1>9. \/ UNCHANGED doc \/ Native \/ Count \/ CheckReceipt \/ CheckEvidence \/ Analyse
      \/ AddCandidate \/ Select \/ Judge \/ Finish \/ Handle
  BY DEF Next, Driver, Solver, Begin, NextStartup, Launch, ReadReceipt, Propose, Validate,
         Refuse, Render, Digest, SolverEnds, SolverKilled, SolverHangs, Raise, Die, Edit,
         Returns, outside
<1>10. QED
  BY <1>2, <1>3, <1>4, <1>6, <1>7, <1>8, <1>9

LEMMA SolvedOnceStep ==
  ASSUME Basis, MaskRead, SolvedOnce, Next
  PROVE  SolvedOnce'
<1> USE DEF Basis
<1>1. /\ Last \in Nat /\ job \in Call /\ doc \in Document
      /\ \A i \in 1 .. Last : doc.runs[i].name \in Jobs
  BY StateFacts, DocumentFacts, RowFacts DEF Last
<1>2. folders \subseteq folders'
  BY DEF Next, Driver, Solver, Begin, NextStartup, Native, Launch, ReadReceipt, Count,
       CheckReceipt, CheckEvidence, Analyse, Propose, AddCandidate, Select, Validate, Judge, Finish,
       Handle, Refuse, Render, Digest, SolverEnds, SolverKilled, SolverHangs, Raise, Die, Edit,
       outside, Returns
<1>3. \A n \in folders : solved'[n] = solved[n]
  <2>1. CASE Render
    <3>1. solved' = [solved EXCEPT ![job.name] = MaskNow(job)] /\ job.name \notin folders
      BY <2>1 DEF Render
    <3>2. QED
      BY <3>1 DEF TypeOK
  <2>2. CASE ~ Render
    BY <2>2 DEF Next, Driver, Solver, Begin, NextStartup, Native, Launch, ReadReceipt, Count,
       CheckReceipt, CheckEvidence, Analyse, Propose, AddCandidate, Select, Validate, Judge, Finish,
       Handle, Refuse, Digest, SolverEnds, SolverKilled, SolverHangs, Raise, Die, Edit,
       outside, Returns
  <2>3. QED
    BY <2>1, <2>2
<1> SUFFICES ASSUME NEW i \in 1 .. Last', doc'.runs[i].status \in Scientific
             PROVE  /\ doc'.runs[i].name \in folders'
                    /\ solved'[doc'.runs[i].name] = doc'.runs[i].mask
  BY DEF SolvedOnce
<1>4. CASE i \in 1 .. Last /\ doc.runs[i].status \in Scientific
  <2>1. doc'.runs[i].name = doc.runs[i].name /\ doc'.runs[i].mask = doc.runs[i].mask
    BY <1>4, RowsKeep
  <2>2. doc.runs[i].name \in folders /\ solved[doc.runs[i].name] = doc.runs[i].mask
    BY <1>4 DEF SolvedOnce
  <2>3. QED
    BY <1>2, <1>3, <2>1, <2>2
<1>5. CASE i = Last /\ Analyse
  <2>1. pc = "analyse" /\ UNCHANGED <<folders, solved>>
    BY <1>5, AnalyseEffect DEF outside
  <2>2. /\ Last > 0 /\ Row.name = job.name /\ Row.mask = job.mask /\ job.outcome.exit = "ok"
    BY <2>1 DEF RowMatches, Working
  <2>3. Rendered /\ job.digest = job.mask
    BY <2>1, <2>2 DEF MaskRead
  <2>4. job.mask \in Int /\ solved[job.name] \in Int
    <3>1. job.name \in Jobs
      BY <2>1, BusyFacts DEF Busy, Working
    <3>2. QED
      BY <1>1, <3>1, StateFacts, CallFacts, CampaignBounds DEF NoMask
  <2>5. job.name \in folders /\ solved[job.name] = job.mask
    BY <2>3, <2>4 DEF Rendered
  <2>6. doc'.runs[i].name = job.name /\ doc'.runs[i].mask = job.mask
    BY <1>1, <1>5, <2>2, RowsKeep DEF Row
  <2>7. QED
    BY <2>1, <2>5, <2>6
<1>6. QED
  BY <1>4, <1>5, NewlyScientific


-----------------------------------------------------------------------------
(* The lock.                                                               *)

\* Only a selection leads to the validation.
LEMMA EnterValidation ==
  ASSUME Basis, Next, ~ InValidation, InValidation'
  PROVE  Select /\ pc' = "validate"
<1> USE DEF Basis
<1>1. job \in Call /\ job.stage \in {"startup", "binary", "validation"}
  BY StateFacts, CallFacts
<1>2. \/ pc' \in {"validate", "judge", "finish"}
      \/ pc' \in Busy /\ job'.stage = "validation"
  BY DEF InValidation
<1>3. pc \notin {"validate", "judge", "finish"} /\ (pc \in Busy => job.stage # "validation")
  BY DEF InValidation
<1>4. CASE NextStartup
  <2>1. NoJob.stage = "startup"
    BY DEF NoJob
  <2>2. pc' = "native" /\ job' = [NoJob EXCEPT !.name = Startup[Last + 1]]
    BY <1>2, <1>4 DEF NextStartup, Busy, Working
  <2>3. job'.stage = "startup"
    BY <2>1, <2>2
  <2>4. QED
    BY <1>2, <2>2, <2>3
<1>5. CASE Propose
  <2>1. pc' = "native" /\ job'.stage = "binary"
    BY <1>5 DEF Propose, NoJob
  <2>2. QED
    BY <1>2, <2>1
<1>6. CASE Native
  <2>1. pc = "native" /\ pc' \in {"handler", "launch"} /\ job'.stage = job.stage
    BY <1>6, NativeEffect DEF Save, SaveFails
  <2>2. QED
    BY <1>2, <1>3, <2>1 DEF Busy, Working
<1>7. CASE Launch \/ ReadReceipt \/ Count \/ CheckReceipt \/ CheckEvidence \/ SolverHangs \/ Render
  <2>1. pc \in Busy /\ UNCHANGED job /\ pc' \notin {"validate", "judge", "finish"}
    BY <1>7 DEF Launch, ReadReceipt, Count, CheckReceipt, CheckEvidence, SolverHangs, Render, Save,
                SaveFails, Busy, Working
  <2>2. QED
    BY <1>2, <1>3, <2>1
<1>8. CASE Digest \/ Refuse \/ SolverEnds \/ SolverKilled
  <2>1. pc \in Busy /\ job'.stage = job.stage /\ pc' \notin {"validate", "judge", "finish"}
    BY <1>1, <1>8 DEF Digest, Refuse, SolverEnds, SolverKilled, Returns, Busy, Working, Call
  <2>2. QED
    BY <1>2, <1>3, <2>1
<1>9. CASE Analyse
  <2>1. pc = "analyse" /\ UNCHANGED job /\ pc' \in {"handler", Caller(job.stage)}
    BY <1>9 DEF Analyse, Save, SaveFails
  <2>2. Caller(job.stage) \in {"startup", "candidate"}
    BY <1>1, <1>3, <2>1 DEF Caller, Busy, Working
  <2>3. QED
    BY <1>2, <2>1, <2>2 DEF Busy, Working
<1>10. CASE Begin \/ AddCandidate \/ Handle \/ Raise \/ Die
  <2>1. pc' \in {"startup", "ended", "handler", "select", "propose"}
    BY <1>10 DEF Begin, AddCandidate, Handle, Raise, Die, Save, SaveFails
  <2>2. QED
    BY <1>2, <2>1 DEF Busy, Working
<1>11. CASE Select
  <2>1. pc' \in {"ended", "handler", "validate"}
    BY <1>11 DEF Select, SaveAndExit, SaveFails
  <2>2. QED
    BY <1>2, <1>11, <2>1 DEF Busy, Working
<1>12. CASE \E b \in Names(Binaries) : Edit(b)
  BY <1>2, <1>3, <1>12 DEF Edit
<1>13. QED
  BY <1>3, <1>4, <1>5, <1>6, <1>7, <1>8, <1>9, <1>10, <1>11, <1>12
     DEF Next, Driver, Solver, Validate, Judge, Finish

\* What the validation leaves alone.
LEMMA ValidationKeeps ==
  ASSUME Basis, Next, InValidation
  PROVE  /\ doc'.candidates = doc.candidates /\ Tried' = Tried
         /\ doc'.selection = doc.selection /\ doc'.hash = doc.hash
         /\ ~ Propose /\ doc.selection \in Names(Binaries)
<1> USE DEF Basis
<1>1. pc \notin {"propose", "select", "candidate"} /\ doc.selection \in Names(Binaries)
  BY DEF InValidation, Busy, Working, Place, ValidationPlace
<1>2. ~ Propose /\ ~ Select /\ ~ AddCandidate
  BY <1>1 DEF Propose, Select, AddCandidate
<1>3. /\ doc'.candidates = doc.candidates
      /\ doc'.selection = doc.selection /\ doc'.hash = doc.hash
  <2>1. CASE UNCHANGED doc
    BY <2>1
  <2>2. CASE ~ UNCHANGED doc
    BY <1>2, <2>2, NativeEffect, CountEffect, CheckReceiptEffect, CheckEvidenceEffect, AnalyseEffect,
       JudgeEffect, FinishEffect, HandleEffect
       DEF Next, Driver, Solver, Begin, NextStartup, Launch, ReadReceipt, Propose, Validate,
           Refuse, Render, Digest, SolverEnds, SolverKilled, SolverHangs, Raise, Die, Edit,
           Returns, outside, Noted, SameLists
  <2>3. QED
    BY <2>1, <2>2
<1>4. QED
  BY <1>1, <1>2, <1>3 DEF Tried

\* A job under way in the validation is either new or was so before.
LEMMA NewCheck ==
  ASSUME Basis, Next, InValidation, pc' \in Busy \cup {"judge"}
  PROVE  pc \in Busy \cup {"judge"} \/ (Validate /\ masks[doc.selection] = doc.hash)
<1>1. CASE pc = "validate"
  <2>1. Validate \/ Raise \/ Die \/ \E b \in Names(Binaries) : Edit(b)
    BY <1>1 DEF Next, Driver, Solver, Begin, NextStartup, Native, Launch, ReadReceipt, Count,
       CheckReceipt, CheckEvidence, Analyse, Propose, AddCandidate, Select, Judge, Finish,
       Handle, Refuse, Render, Digest, SolverEnds, SolverKilled, SolverHangs
  <2>2. QED
    BY <1>1, <2>1 DEF Validate, Raise, Die, Edit, Busy, Working
<1>2. CASE pc = "finish"
  <2>1. Finish \/ Raise \/ Die \/ \E b \in Names(Binaries) : Edit(b)
    BY <1>2 DEF Next, Driver, Solver, Begin, NextStartup, Native, Launch, ReadReceipt, Count,
       CheckReceipt, CheckEvidence, Analyse, Propose, AddCandidate, Select, Validate, Judge,
       Handle, Refuse, Render, Digest, SolverEnds, SolverKilled, SolverHangs
  <2>2. QED
    BY <1>2, <2>1 DEF Finish, SaveAndExit, SaveFails, Raise, Die, Edit, Busy, Working
<1>3. QED
  BY <1>1, <1>2 DEF InValidation

LEMMA LockGrowsStep ==
  ASSUME Basis, Versions, LockGrows, Next, ~ restored'
  PROVE  LockGrows'
<1> USE DEF Basis
<1> SUFFICES ASSUME InValidation' PROVE LockGrows'
  BY DEF LockGrows
<1>1. /\ Last \in Nat /\ Tried \in Nat /\ Checked \in Nat /\ Len(Startup) \in Nat
      /\ Settled \in Nat /\ Settled <= Last /\ MaxEdits \in Nat
      /\ \A b \in Names(Binaries) : masks[b] \in NoMask .. MaxEdits
  BY StateFacts, SettledFacts, ListFacts
<1>2. doc.hash \in NoMask .. MaxEdits /\ \A i \in 1 .. Last : doc.runs[i].mask \in NoMask .. MaxEdits
  BY StateFacts, DocumentFacts, RowFacts DEF Last, Document
<1>3. CASE ~ InValidation
  <2>1. Select /\ pc' = "validate"
    BY <1>3, EnterValidation
  <2>2. /\ pc = "select" /\ UNCHANGED masks /\ Listed
        /\ doc'.candidates = doc.candidates /\ doc'.locked = doc.locked
        /\ doc'.hash = masks[doc'.selection] /\ doc'.selection \in Names(Binaries)
    BY <2>1, SelectEffect DEF outside, SaveAndExit, SaveFails
  <2>3. doc.locked = <<>> /\ Settled = Len(Startup) + Tried
    BY <2>2 DEF Place, BinaryPlace, InBinary
  <2>4. Last = Len(Startup) + Tried
    BY <1>1, <2>2, <2>3 DEF Settled, Working
  <2>5. Last' = Last /\ Tried' = Tried /\ Checked' = 0
    BY <2>2, <2>3 DEF Listed, Last, Tried, Checked
  <2>6. QED
    BY <1>1, <2>2, <2>4, <2>5 DEF LockGrows
<1>4. CASE InValidation
  <2>1. /\ Tried' = Tried /\ doc'.selection = doc.selection /\ doc'.hash = doc.hash
        /\ ~ Propose /\ doc.selection \in Names(Binaries)
    BY <1>4, ValidationKeeps
  <2>2. masks[doc.selection] <= masks'[doc.selection] /\ masks'[doc.selection] \in Int
    <3>1. masks'[doc.selection] \in NoMask .. MaxEdits
      BY <2>1, TypeStep DEF TypeOK
    <3>2. QED
      BY <1>1, <2>1, <3>1, MasksGrow DEF NoMask
  <2> DEFINE before == Len(Startup) + Tried
  <2>3. before \in Nat /\ Settled = before + Checked
    BY <1>1, <1>4 DEF Place, ValidationPlace
  <2>4. \A k \in 1 .. Last - before : CheckRow(k)'.mask = CheckRow(k).mask
    BY <1>1, <2>1, <2>3, RowsKeep DEF CheckRow
  <2>5. /\ doc.hash <= masks[doc.selection]
        /\ \A k \in 1 .. Last - before :
             doc.hash <= CheckRow(k).mask /\ CheckRow(k).mask <= masks[doc.selection]
        /\ \A k \in 1 .. Checked : k < Checked \/ pc \in Busy \cup {"judge"} => CheckRow(k).mask = doc.hash
    BY <1>4 DEF LockGrows
  <2>6. \A k \in 1 .. Last - before : CheckRow(k).mask \in Int
    BY <1>1, <1>2, <2>3 DEF CheckRow, NoMask
  <2>7. doc.hash \in Int /\ masks[doc.selection] \in Int
    BY <1>1, <1>2, <2>1 DEF NoMask
  <2>8. ASSUME NEW k \in 1 .. Last' - before
        PROVE  doc.hash <= CheckRow(k)'.mask /\ CheckRow(k)'.mask <= masks'[doc.selection]
    <3>1. CASE k <= Last - before
      BY <1>1, <2>2, <2>3, <2>4, <2>5, <2>6, <2>7, <3>1
    <3>2. CASE ~ (k <= Last - before)
      <4>1. Native /\ Last' = Last + 1 /\ k = Last + 1 - before
        <5>1. Last' = Last \/ (Native /\ Last' = Last + 1)
          BY RowsKeep
        <5>2. QED
          BY <1>1, <2>3, <3>2, <5>1
      <4>2. pc = "native" /\ UNCHANGED masks /\ doc'.runs[Last + 1].mask = MaskNow(job)
        BY <1>1, <4>1, NativeEffect DEF outside, Last
      <4>3. MaskNow(job) = masks[doc.selection]
        BY <1>4, <4>2 DEF InValidation, MaskNow, MaskOf
      <4>4. before + k = Last + 1
        BY <1>1, <2>3, <4>1
      <4>5. CheckRow(k)' = doc'.runs[Last + 1]
        BY <2>1, <4>4 DEF CheckRow
      <4>6. QED
        BY <2>5, <2>7, <4>2, <4>3, <4>5
    <3>3. QED
      BY <3>1, <3>2
  <2>9. ASSUME NEW k \in 1 .. Checked', k < Checked' \/ pc' \in Busy \cup {"judge"}
        PROVE  CheckRow(k)'.mask = doc.hash
    <3>1. \/ Checked' = Checked
          \/ /\ Checked' = Checked + 1 /\ Judge
             /\ pc' \notin Busy \cup {"judge"}
      <4>1. doc'.locked = doc.locked \/ (Judge /\ Checked' = Checked + 1)
        BY ListsKeep
      <4>2. Judge => pc' \notin Busy \cup {"judge"}
        BY DEF Judge, Save, SaveAndExit, SaveFails, Busy, Working
      <4>3. QED
        BY <4>1, <4>2 DEF Checked
    <3>2. k \in 1 .. Checked /\ k \in 1 .. Last - before
      BY <1>1, <2>3, <2>9, <3>1
    <3>3. CASE k < Checked \/ pc \in Busy \cup {"judge"}
      BY <2>4, <2>5, <3>2, <3>3
    <3>4. CASE ~ (k < Checked \/ pc \in Busy \cup {"judge"})
      <4>1. ~ Judge
        BY <3>4 DEF Judge
      <4>2. pc' \in Busy \cup {"judge"}
        BY <1>1, <2>9, <3>1, <3>4, <4>1
      <4>3. masks[doc.selection] = doc.hash
        BY <1>4, <3>4, <4>2, NewCheck
      <4>4. CheckRow(k).mask = doc.hash
        BY <2>5, <2>6, <2>7, <3>2, <4>3
      <4>5. QED
        BY <2>4, <3>2, <4>4
    <3>5. QED
      BY <3>3, <3>4
  <2>10. LockGrows' <=>
           /\ doc'.hash <= masks'[doc'.selection]
           /\ \A k \in 1 .. Last' - (Len(Startup) + Tried') :
                doc'.hash <= CheckRow(k)'.mask /\ CheckRow(k)'.mask <= masks'[doc'.selection]
           /\ \A k \in 1 .. Checked' :
                k < Checked' \/ pc' \in Busy \cup {"judge"} => CheckRow(k)'.mask = doc'.hash
    BY DEF LockGrows
  <2>11. doc'.hash <= masks'[doc'.selection]
    BY <2>1, <2>2, <2>5, <2>7
  <2>12. QED
    BY <2>1, <2>8, <2>9, <2>10, <2>11
<1>5. QED
  BY <1>3, <1>4

LEMMA SelectionPassedStep ==
  ASSUME Basis, SelectionPassed, Next
  PROVE  SelectionPassed'
<1> USE DEF Basis
<1> SUFFICES ASSUME InValidation' PROVE SelectionPassed'
  BY DEF SelectionPassed
<1>1. CASE ~ InValidation
  <2>1. Select /\ pc' = "validate"
    BY <1>1, EnterValidation
  <2>2. /\ doc'.candidates = doc.candidates
        /\ \E i \in 1 .. Tried : doc.candidates[i].name = doc'.selection /\ doc.candidates[i].accepted
    BY <2>1, SelectEffect DEF SaveAndExit, SaveFails
  <2>3. QED
    BY <2>2 DEF SelectionPassed, Tried
<1>2. CASE InValidation
  BY <1>2, ValidationKeeps DEF SelectionPassed
<1>3. QED
  BY <1>1, <1>2

-----------------------------------------------------------------------------
(* What a campaign that passes has done.                                   *)

\* `pass` gets to campaign.json by the save of Finish, and by nothing else; where that
\* save has raised in spite of it, the driver is in its handler, or has ended there.
LEMMA PassWritten ==
  ASSUME Basis, StopIsHeeded, Next, Readable', disk'.status = "pass", disk' # disk
  PROVE  /\ pc = "finish" /\ disk' = doc' /\ Listed /\ SameLists /\ UNCHANGED outside
         /\ Last' = Last /\ Checked = Len(Validation) /\ Settled = Last
         /\ Last = Len(Startup) + Tried + Checked
<1> USE DEF Basis
<1>1. disk' = doc' /\ doc'.status = "pass"
  BY DiskChange DEF Readable
<1>2. Finish
  <2>1. SUFFICES ASSUME ~ Finish PROVE FALSE
    OBVIOUS
  <2>2. doc.status = "pass" /\ ~ Handle
    BY <1>1, <2>1, PassStatus
  <2>3. pc = "handler"
    BY <2>2, NothingAfterEnd DEF StopIsHeeded, Stopped
  <2>4. Die \/ \E b \in Names(Binaries) : Edit(b)
    BY <2>2, <2>3 DEF Next, Driver, Solver, Begin, NextStartup, Native, Launch, ReadReceipt, Count,
       CheckReceipt, CheckEvidence, Analyse, Propose, AddCandidate, Select, Validate, Judge,
       Finish, Refuse, Render, Digest, SolverEnds, SolverKilled, SolverHangs, Raise
  <2>5. disk' \in {disk, Torn}
    BY <2>4 DEF Die, Edit
  <2>6. QED
    BY <2>5 DEF Readable
<1>3. pc = "finish" /\ UNCHANGED outside /\ Listed /\ SameLists
  BY <1>2, FinishEffect, NothingAfterEnd DEF SaveAndExit, SaveFails
<1>4. Checked = Len(Validation) /\ Settled = Len(Startup) + Tried + Checked /\ Settled = Last
  BY <1>3 DEF Place, ValidationPlace, InValidation, Settled, Working
<1>5. QED
  BY <1>1, <1>3, <1>4 DEF Listed, Last

\* After that no solver is started, and none solves a mask.
LEMMA PassStays ==
  ASSUME Basis, StopIsHeeded, Next, disk.status = "pass", disk' = disk
  PROVE  UNCHANGED <<launched, solved>>
<1>1. pc \in Stopped
  BY DEF StopIsHeeded, Stopped
<1>2. ~ Native /\ ~ Launch /\ ~ Render
  BY <1>1 DEF Native, Launch, Render, Stopped
<1>3. QED
  BY <1>2 DEF Next, Driver, Solver, Begin, NextStartup, ReadReceipt, Count, CheckReceipt,
     CheckEvidence, Analyse, Propose, AddCandidate, Select, Validate, Judge, Finish, Handle,
     Refuse, Digest, SolverEnds, SolverKilled, SolverHangs, Raise, Die, Edit, Returns, outside

LEMMA PassStep ==
  ASSUME Basis, StopIsHeeded, CountsOptimizations, Launched, StartupRows, ValidationRows,
         SelectionPassed, PassIsEarned, Next
  PROVE  PassIsEarned'
<1> USE DEF Basis
<1>0. CASE Readable' /\ disk'.status = "pass" /\ disk' = disk
  BY <1>0, PassStays DEF PassIsEarned, Readable
<1> SUFFICES ASSUME Readable', disk'.status = "pass", disk' # disk PROVE PassIsEarned'
  BY <1>0 DEF PassIsEarned
<1>1. /\ pc = "finish" /\ disk' = doc' /\ Listed /\ SameLists /\ UNCHANGED outside
      /\ Last' = Last /\ Checked = Len(Validation) /\ Settled = Last
      /\ Last = Len(Startup) + Tried + Checked
  BY PassWritten
<1>2. /\ Last \in Nat /\ Tried \in Nat /\ Checked \in Nat /\ Len(Startup) \in Nat
      /\ Len(launched) = Last /\ \A i \in 1 .. Len(launched) : doc.runs[i].name = launched[i]
  BY <1>1, StateFacts, ListFacts DEF Launched, Stopped
<1>3. disk'.runs = doc.runs /\ disk'.candidates = doc.candidates /\ disk'.locked = doc.locked
      /\ disk'.selection = doc.selection /\ UNCHANGED launched
  BY <1>1 DEF Listed, SameLists, outside
<1>4. ASSUME NEW n \in Names(Startup)
      PROVE  \E i \in 1 .. Len(doc.runs) :
               doc.runs[i].name = n /\ doc.runs[i].status \notin {"executing", "execution_failure"}
  <2>1. PICK i \in 1 .. Len(Startup) : Startup[i] = n
    BY DEF Names
  <2>2. i \in 1 .. Len(doc.runs) /\ i <= Settled
    BY <1>1, <1>2 DEF Last
  <2>3. QED
    BY <1>1, <2>1, <2>2 DEF StartupRows, Stopped
<1>5. \E i \in 1 .. Len(doc.candidates) :
        doc.candidates[i].name = doc.selection /\ doc.candidates[i].accepted
  BY <1>1 DEF SelectionPassed, InValidation, Tried
<1>6. ASSUME NEW i \in 1 .. Len(Validation)
      PROVE  /\ doc.locked[i] = [name |-> Validation[i], accepted |-> TRUE, converged |-> TRUE]
             /\ \E j \in 1 .. Len(launched) : launched[j] = Validation[i]
                                           /\ doc.runs[j].status = "scientific_pass"
  <2>1. /\ doc.locked[i] = [name |-> Validation[i], accepted |-> TRUE, converged |-> TRUE]
        /\ CheckRow(i).name = Validation[i] /\ CheckRow(i).status = "scientific_pass"
    BY <1>1 DEF ValidationRows, Stopped
  <2>2. Len(Startup) + Tried + i \in 1 .. Len(launched)
    BY <1>1, <1>2
  <2>3. launched[Len(Startup) + Tried + i] = Validation[i]
    BY <1>2, <2>1, <2>2 DEF CheckRow
  <2>4. QED
    BY <2>1, <2>2, <2>3 DEF CheckRow
<1>7. QED
  BY <1>3, <1>4, <1>5, <1>6 DEF PassIsEarned

LEMMA LockedMaskStep ==
  ASSUME Basis, StopIsHeeded, CountsOptimizations, ValidationRows, MasksAreTold,
         LockedMaskHeld, Next
  PROVE  LockedMaskHeld'
<1> USE DEF Basis
<1>6. CASE Readable' /\ disk'.status = "pass" /\ ~ restored' /\ disk' = disk
  BY <1>6, PassStays, RestoredStays DEF LockedMaskHeld, Readable
<1> SUFFICES ASSUME Readable', disk'.status = "pass", ~ restored', disk' # disk
             PROVE  LockedMaskHeld'
  BY <1>6 DEF LockedMaskHeld
<1>0. LockGrows /\ SolvedOnce
  BY RestoredStays DEF MasksAreTold
<1>1. /\ pc = "finish" /\ disk' = doc' /\ Listed /\ SameLists /\ UNCHANGED outside
      /\ Last' = Last /\ Checked = Len(Validation) /\ Settled = Last
      /\ Last = Len(Startup) + Tried + Checked
  BY PassWritten
<1>2. Last \in Nat /\ Tried \in Nat /\ Checked \in Nat /\ Len(Startup) \in Nat
  BY StateFacts, ListFacts
<1>3. disk'.hash = doc.hash /\ UNCHANGED solved
  BY <1>1 DEF SameLists, outside
<1>4. ASSUME NEW i \in 1 .. Len(Validation) - 1
      PROVE  solved[Validation[i]] = doc.hash
  <2>1. i \in 1 .. Checked /\ i < Checked /\ Len(Startup) + Tried + i \in 1 .. Last
    BY <1>1, <1>2
  <2>2. CheckRow(i).name = Validation[i] /\ CheckRow(i).status = "scientific_pass"
    BY <1>1, <2>1 DEF ValidationRows, Stopped
  <2>3. CheckRow(i).mask = doc.hash
    BY <1>0, <1>1, <2>1 DEF LockGrows, InValidation
  <2>4. solved[CheckRow(i).name] = CheckRow(i).mask
    BY <1>0, <2>1, <2>2 DEF SolvedOnce, CheckRow, Scientific
  <2>5. QED
    BY <2>2, <2>3, <2>4
<1>5. QED
  BY <1>3, <1>4 DEF LockedMaskHeld

-----------------------------------------------------------------------------
(* The theorems.                                                           *)

CampaignInv ==
  /\ Basis /\ Launched /\ SavedFirst /\ StartedIsOnDisk
  /\ StopIsHeeded /\ CountsOptimizations /\ ExitMatchesRecord
  /\ StartupRows /\ ValidationRows /\ Marked /\ HoldoutsLast
  /\ Versions /\ MasksAreTold /\ SelectionPassed
  /\ PassIsEarned /\ LockedMaskHeld

LEMMA InvInit == Init => CampaignInv
<1> SUFFICES ASSUME Init PROVE CampaignInv
  OBVIOUS
<1>1. /\ pc = "begin" /\ doc = NewDocument /\ disk = NoFile /\ exit = "none"
      /\ launched = <<>> /\ short = {} /\ edits = 0
      /\ masks = [b \in Names(Binaries) |-> NoMask]
  BY DEF Init
<1>2. Basis
  BY BasisInit
<1>3. /\ Last = 0 /\ Checked = 0 /\ Tried = 0 /\ Len(launched) = 0 /\ Settled = 0
      /\ ~ doc.stop /\ doc.status = "running" /\ Len(doc.runs) = 0
  BY <1>1 DEF NewDocument, Last, Checked, Tried, Settled, Working
<1>4. ~ Readable /\ disk.status = "absent"
  BY <1>1 DEF Readable, NoFile
<1>5. ~ InValidation
  BY <1>1 DEF InValidation, Busy, Working
<1>6. Launched /\ SavedFirst /\ StartedIsOnDisk
  BY <1>1, <1>3, <1>4 DEF Launched, SavedFirst, StartedIsOnDisk, Stopped
<1>7. StopIsHeeded /\ CountsOptimizations /\ ExitMatchesRecord
  BY <1>1, <1>3, <1>4 DEF StopIsHeeded, CountsOptimizations, ExitMatchesRecord, Overrun, Stopped
<1>8. StartupRows /\ ValidationRows /\ Marked /\ HoldoutsLast
  BY <1>1, <1>3, <1>4, ListFacts DEF StartupRows, ValidationRows, Marked, HoldoutsLast, Told
<1>9. Versions /\ MasksAreTold
  BY <1>1, <1>3, <1>5 DEF Versions, MasksAreTold, MaskRead, SolvedOnce, LockGrows, NoMask
<1>10. SelectionPassed /\ PassIsEarned /\ LockedMaskHeld
  BY <1>4, <1>5 DEF SelectionPassed, PassIsEarned, LockedMaskHeld
<1>11. QED
  BY <1>2, <1>6, <1>7, <1>8, <1>9, <1>10 DEF CampaignInv

LEMMA InvStutter ==
  ASSUME CampaignInv, UNCHANGED vars
  PROVE  CampaignInv'
<1>1. Basis'
  BY BasisStep DEF CampaignInv
<1>2. Last' = Last /\ Settled' = Settled /\ Tried' = Tried /\ Checked' = Checked /\ Row' = Row
      /\ (InValidation' <=> InValidation) /\ (Readable' <=> Readable) /\ (Overrun' <=> Overrun)
  BY DEF vars, Last, Settled, Tried, Checked, Row, InValidation, Readable, Overrun
<1>3. \A k : CheckRow(k)' = CheckRow(k)
  BY <1>2 DEF CheckRow, vars
<1>4. Launched' /\ SavedFirst' /\ StartedIsOnDisk'
  BY <1>2 DEF CampaignInv, vars, Launched, SavedFirst, StartedIsOnDisk
<1>5. StopIsHeeded' /\ CountsOptimizations' /\ ExitMatchesRecord'
  BY <1>2 DEF CampaignInv, vars, StopIsHeeded, CountsOptimizations, ExitMatchesRecord, Optimizes
<1>6. StartupRows' /\ ValidationRows'
  BY <1>2, <1>3 DEF CampaignInv, vars, StartupRows, ValidationRows
<1>7. Marked' /\ HoldoutsLast'
  BY <1>2 DEF CampaignInv, vars, Marked, HoldoutsLast, Told, Uncounted, Optimizes
<1>8. Versions' /\ (MaskRead /\ SolvedOnce => MaskRead' /\ SolvedOnce')
  BY <1>2 DEF CampaignInv, vars, Versions, MaskRead, SolvedOnce, MaskNow, MaskOf, Rendered
<1>9. (LockGrows => LockGrows') /\ SelectionPassed'
  BY <1>2, <1>3 DEF CampaignInv, vars, LockGrows, SelectionPassed
<1>10. MasksAreTold' /\ PassIsEarned' /\ LockedMaskHeld'
  BY <1>2, <1>8, <1>9 DEF CampaignInv, vars, MasksAreTold, PassIsEarned, LockedMaskHeld
<1>11. QED
  BY <1>1, <1>4, <1>5, <1>6, <1>7, <1>8, <1>9, <1>10 DEF CampaignInv

LEMMA InvStep == CampaignInv /\ [Next]_vars => CampaignInv'
<1> SUFFICES ASSUME CampaignInv, [Next]_vars PROVE CampaignInv'
  OBVIOUS
<1>1. CASE Next
  <2>1. Basis'
    BY <1>1, BasisStep DEF CampaignInv
  <2>2. Launched' /\ SavedFirst' /\ StartedIsOnDisk'
    BY <1>1, LaunchedStep, SavedFirstStep, StartedStep DEF CampaignInv
  <2>3. StopIsHeeded' /\ CountsOptimizations' /\ ExitMatchesRecord'
    BY <1>1, StopStep, ExitStep DEF CampaignInv
  <2>4. StartupRows' /\ ValidationRows' /\ Marked' /\ HoldoutsLast'
    BY <1>1, StartupRowsStep, ValidationRowsStep, MarkedStep, HoldoutStep DEF CampaignInv
  <2>5. Versions' /\ MasksAreTold'
    BY <1>1, RestoredStays, VersionsStep, MaskReadStep, SolvedOnceStep, LockGrowsStep
       DEF CampaignInv, MasksAreTold
  <2>6. SelectionPassed' /\ PassIsEarned' /\ LockedMaskHeld'
    BY <1>1, SelectionPassedStep, PassStep, LockedMaskStep DEF CampaignInv
  <2>7. QED
    BY <2>1, <2>2, <2>3, <2>4, <2>5, <2>6 DEF CampaignInv
<1>2. CASE UNCHANGED vars
  BY <1>2, InvStutter
<1>3. QED
  BY <1>1, <1>2

\* The conjunction is inductive.
THEOREM Inductive == Spec => []CampaignInv
BY InvInit, InvStep, PTL DEF Spec

\* A campaign.json that can be read has a row for every solver that was ever
\* started, in order and within the budget: native saves the row before it
\* starts run.py.
THEOREM StartedRowsAreOnDisk == Spec => []StartedIsOnDisk
<1>1. CampaignInv => StartedIsOnDisk
  BY DEF CampaignInv
<1>2. QED
  BY <1>1, Inductive, PTL

\* Costs that do not tell all of the work are marked as lower bounds: the mark
\* is saved with, or before, the first status that follows the execution.
THEOREM CostsAreMarked == Spec => []CostIsMarked
<1>1. CampaignInv => CostIsMarked
  BY DEF CampaignInv, Marked, Told, CostIsMarked
<1>2. QED
  BY <1>1, Inductive, PTL

\* What exit codes 0, 2 and 3 say of a campaign is what campaign.json says, also when
\* saves have failed on the way, and an overrun does not end with 0 or 2.
THEOREM ExitTellsRecord == Spec => []ExitMatchesRecord
<1>1. CampaignInv => ExitMatchesRecord
  BY DEF CampaignInv
<1>2. QED
  BY <1>1, Inductive, PTL

\* An accepted or rejected run has solved the mask that its row names, unless a
\* change was undone: a row that was analysed is of the run that has made the directory.
THEOREM RowNamesSolvedMask == Spec => []NamedMaskWasSolved
<1>1. CampaignInv => NamedMaskWasSolved
  BY DEF CampaignInv, MasksAreTold, SolvedOnce, Scientific, NamedMaskWasSolved
<1>2. QED
  BY <1>1, Inductive, PTL

\* No holdout is solved before every other check was accepted and has converged.
THEOREM HoldoutsComeLast == Spec => []HoldoutsLast
<1>1. CampaignInv => HoldoutsLast
  BY DEF CampaignInv
<1>2. QED
  BY <1>1, Inductive, PTL

\* `pass` is written of a complete campaign only, by qualify_binary.
THEOREM PassesAreEarned == Spec => []PassIsEarned
<1>1. CampaignInv => PassIsEarned
  BY DEF CampaignInv
<1>2. QED
  BY <1>1, Inductive, PTL

\* All checks but the last of a campaign that passes have solved the locked mask,
\* unless a change was undone.
THEOREM LockHolds == Spec => []LockedMaskHeld
<1>1. CampaignInv => LockedMaskHeld
  BY DEF CampaignInv
<1>2. QED
  BY <1>1, Inductive, PTL

\* No solver is started once a job has exceeded its evaluations.
THEOREM OverrunIsTheEnd == Spec => OverrunStops
<1>1. CampaignInv /\ [Next]_vars => [Overrun => UNCHANGED launched]_vars
  <2> SUFFICES ASSUME CampaignInv, Next, Overrun
               PROVE  UNCHANGED launched
    OBVIOUS
  <2>1. pc # "launch"
    BY DEF CampaignInv, StopIsHeeded, Stopped
  <2>2. QED
    BY <2>1, LaunchChange DEF Native, Launch, Edit, outside
<1>2. QED
  BY <1>1, Inductive, PTL DEF Spec, OverrunStops
==============================================================================
