---------------------------- MODULE RunStoreReader ----------------------------
(***************************************************************************)
(* A reader beside the writer of RunStore: `photonic status` and the MCP   *)
(* tool inspect_project (ProjectStatusService.inspect), and the library    *)
(* call latest_trusted_run.  Another process than the writer may make the  *)
(* call, nothing locks the directory, and each of the files is opened      *)
(* twice: `recover` first hashes all of them against the checkpoint and    *)
(* then reads them again to validate what they say.  Every opening is a    *)
(* step here.                                                              *)
(***************************************************************************)
EXTENDS RunStore

VARIABLES
  reader,      \* the call under way: which file it opens next, what it has seen
  answer,      \* the answer of the last call
  quiet,       \* history: no file changed since the call under way began
  earned,      \* history: since then, run.json was accepted by passing results
  agreed       \* history: the checkpoint it compares with agrees with itself

observed == <<quiet, earned, agreed>>
statusVars == <<vars, reader, answer, observed>>

\* The hashed files in the order of `sorted(expected_names & actual_names)`,
\* and in the order of _validate_structured_state.
HashOrder == <<"results", "artifacts", "events", "provenance", "run">>
LoadOrder == <<"run", "artifacts", "provenance", "results", "events">>

Calls == {"inspect", "latest"}

NoManifest == [execution |-> "absent"]
Nothing == [recoverable |-> FALSE, manifest |-> NoManifest]

Idle == [step |-> "idle"]

\* The answers: none yet, a security violation, or the one run of the model
\* with what was found out about it.
Pending == [outcome |-> "pending"]
Error == [outcome |-> "error"]
Answer(call, found) ==
  [outcome |-> "answer", call |-> call, found |-> found, earned |-> earned, agreed |-> agreed]

\* A staging directory is listed with the runs; its name starts with a dot
\* and is no safe label, so that run_dir raises SecurityViolationError for it.
StagingExists == leftover \/ pc = "publish"

IsAccepted(manifest) ==
  manifest.execution = "succeeded" /\ manifest.acceptance = "accepted"

\* The accepted manifest and the passing results are there together.
AcceptedByResults == IsAccepted(run) /\ Accepted(results)

StatusInit ==
  /\ Init
  /\ reader = Idle
  /\ quiet = TRUE /\ earned = FALSE /\ agreed = TRUE
  /\ answer = Pending

Becomes(r) ==
  reader' = r /\ UNCHANGED <<vars, answer, observed>>

Answers(a) ==
  reader' = Idle /\ answer' = a /\ UNCHANGED <<vars, observed>>

Call ==
  /\ reader.step = "idle"
  /\ quiet' = TRUE
  /\ earned' = AcceptedByResults
  /\ agreed' = TRUE
  /\ UNCHANGED vars

\* inspect lists the run directories and recovers every one of them.
CallInspect ==
  /\ Call
  /\ IF StagingExists
       THEN reader' = Idle /\ answer' = Error
       ELSE IF directory = "absent"
              THEN reader' = Idle /\ answer' = Answer("inspect", Nothing)
              ELSE /\ reader' = [step |-> "checkpoint", call |-> "inspect"]
                   /\ answer' = Pending

\* latest_trusted_run lists them too, but loads each manifest before it looks
\* at anything else, and skips a name that is no directory any more.
CallLatest ==
  /\ Call
  /\ reader' = [step |-> "visit", call |-> "latest",
                staged |-> StagingExists, listed |-> directory = "named"]
  /\ answer' = Pending

Visit ==
  /\ reader.step = "visit"
  /\ IF reader.staged /\ StagingExists
       THEN Answers(Error)
       ELSE IF reader.listed /\ IsAccepted(run)
              THEN Becomes([step |-> "checkpoint", call |-> "latest",
                            first |-> run])
              ELSE Answers(Answer("latest", Nothing))

ReadCheckpoint ==
  /\ reader.step = "checkpoint"
  /\ reader' = [call |-> reader.call, step |-> "hash", todo |-> HashOrder,
                expected |-> checkpoint, clean |-> TRUE,
                first |-> IF reader.call = "latest" THEN reader.first ELSE NoManifest]
  /\ agreed' = (checkpoint.run.acceptance = "accepted" => Accepted(checkpoint.results))
  /\ UNCHANGED <<vars, answer, quiet, earned>>

\* Mutant: only the last comparison counts.
HashLastFile ==
  /\ reader.step = "hash"
  /\ LET name == Head(reader.todo)
         rest == Tail(reader.todo)
         clean == Hashes[name] = reader.expected[name]
     IN  IF rest # <<>>
           THEN Becomes([reader EXCEPT !.todo = rest, !.clean = clean])
           ELSE Becomes([call |-> reader.call, step |-> "load",
                         todo |-> LoadOrder, clean |-> clean, seen |-> <<>>,
                         first |-> reader.first])

\* One `sha256_file(candidate) != expected`.
HashFile ==
  /\ reader.step = "hash"
  /\ LET name == Head(reader.todo)
         rest == Tail(reader.todo)
         clean == reader.clean /\ Hashes[name] = reader.expected[name]
     IN  IF rest # <<>>
           THEN Becomes([reader EXCEPT !.todo = rest, !.clean = clean])
           ELSE Becomes([call |-> reader.call, step |-> "load",
                         todo |-> LoadOrder, clean |-> clean, seen |-> <<>>,
                         first |-> reader.first])

\* The files one after the other; the contents are appended in LoadOrder.
LoadFile ==
  /\ reader.step = "load" /\ reader.todo # <<>>
  /\ Becomes([reader EXCEPT !.todo = Tail(reader.todo),
                            !.seen = Append(reader.seen, Hashes[Head(reader.todo)])])

\* `"recoverable": not missing and not mismatches`, and the manifest read last.
Found ==
  LET manifest == reader.seen[1]
      records  == reader.seen[2]
      batch    == reader.seen[4]
      lines    == reader.seen[5]
  IN  [manifest |-> manifest,
       recoverable |-> /\ reader.clean
                       /\ ValidEvents(lines)
                       /\ ArtifactsAgree(manifest.artifact_ids, records)
                       /\ AcceptanceAgrees(manifest.acceptance, batch)]

Report ==
  /\ reader.step = "load" /\ reader.todo = <<>>
  /\ Answers(Answer(reader.call,
       IF reader.call = "inspect" THEN Found
       ELSE IF Found.recoverable
              THEN [recoverable |-> TRUE, manifest |-> reader.first]
              ELSE Nothing))

Read ==
  \/ CallInspect
  \/ CallLatest
  \/ Visit
  \/ ReadCheckpoint
  \/ HashFile
  \/ LoadFile
  \/ Report

\* A step of the writer while the call is under way.
Update ==
  /\ Next
  /\ quiet' = (quiet /\ UNCHANGED disk)
  /\ earned' = (earned \/ AcceptedByResults')
  /\ UNCHANGED <<reader, answer, agreed>>

StatusNext == Update \/ Read

StatusSpec == StatusInit /\ [][StatusNext]_statusVars

-----------------------------------------------------------------------------
(* Properties.                                                             *)

\* The type invariant of the reader.
TypeOKReader ==
  /\ TypeOK
  /\ reader.step \in {"idle", "visit", "checkpoint", "hash", "load"}
  /\ reader.step # "idle" => reader.call \in Calls
  /\ reader.step = "load" =>
       Len(reader.seen) + Len(reader.todo) = Len(LoadOrder)
  /\ answer.outcome \in {"pending", "error", "answer"}
  /\ answer.outcome = "answer" =>
       /\ answer.call \in Calls
       /\ answer.found.manifest \in Manifest \cup {NoManifest}

\* The eleven openings of an undisturbed `recover` decide what Recoverable
\* says of the directory, and return its manifest.
QuietReportIsExact ==
  reader.step = "load" /\ reader.todo = <<>> /\ quiet =>
    Found = [manifest |-> run, recoverable |-> Recoverable]

AnswerTrusts(call) ==
  /\ answer.outcome = "answer" /\ answer.call = call
  /\ answer.found.recoverable /\ IsAccepted(answer.found.manifest)

\* Whatever the writer does while inspect reads, and whatever interrupted
\* updates left behind before: if inspect calls the run trusted, there was a
\* moment during the call at which run.json was accepted and acceptance.json
\* held passing results.  The exception is a checkpoint that has taken in an
\* interrupted judgement, so that it does not agree with itself: its manifest can
\* be read before, and the results of a later judgement after, the run is rejected.
TrustedInspectIsEarned == AnswerTrusts("inspect") /\ answer.agreed => answer.earned

\* The same of latest_trusted_run, the least "requires success, acceptance
\* and recovery" can mean.  It returns the manifest it loaded before `recover`
\* looked at the files, and `recover` may have seen a rejected one.
TrustedLatestIsEarned == AnswerTrusts("latest") => answer.earned

\* The status of a project can be read, whatever creations are under way or
\* have failed.
StatusAnswers == answer.outcome # "error"
=============================================================================
