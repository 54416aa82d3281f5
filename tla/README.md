# A TLA+ model of the photonic workflow

This directory specifies, in TLA+, the stateful parts of the
`photonic_workflow` package: the files a project keeps, the calls that change
them, and what the package concludes from them. TLC checks small instances;
TLAPS proves the main results for every instance.

    tlc -config MCRunStore.cfg MCRunStore          # one run
    tlapm RunStoreProofs.tla                       # the proofs of one module

`PROJECT.json` lists components, runs, mutants (one plausible bug per property
that makes the property fail), the source lines of every definition, findings,
hazards and theorems.

## 1. The system

The package is a library with a command line (`photonic`) and an MCP server. It
holds no server state worth the name: what it knows is in files below a project
root, and every call reads the files it needs, decides, and replaces some of
them. All that is hard about it follows from that. A call touches several
files, one atomic replacement after another; it may stop between two of them;
nothing locks anything; and other processes read the same files meanwhile.

| component | state | operations | with whom | properties that make it correct |
|---|---|---|---|---|
| run store (`runtime/store.py`) | a directory per run: `run.json`, `inputs.json`, `artifacts.json`, `provenance.json`, `acceptance.json`, `events.jsonl`, `checkpoint.json` | `create`, `transition_execution`, `record_artifact`, `record_provenance`, `record_acceptance`, `recover`, `latest_trusted_run` | read by the status service | lawful status moves; what is trusted was judged on the last results; a completed update is recoverable; the log explains the files |
| status service (`application.py`) | none | `inspect` | run store, gate ledger, other processes that write | what it reports was true at some time of the call |
| gate ledger (`gates/service.py`) | `verification/gates.json` | `update`, `load`, `summary` | evidence files anybody may edit | a verified gate rests on evidence that was there, unchanged |
| backend adoption (`adoption.py`) | a file per backend target | `initialize`, `load`, `record`, `evaluate` | evidence files | adopted only with every check passed; a record is never stuck |
| campaign (`examples/comsol-hadamard-inverse`) | the document in memory, `campaign.json`, a directory per solver run, mask files | `plan`, `run`, `native`, `qualify_binary`, `save` | one solver process after another | within the budget; every solve on record; `pass` is earned; holdouts last; it ends |
| search (`optimization/search.py`) | none (a history of trials) | `suggest_candidate` | whoever runs the trials | never a point already tried; the reserve stays unspent |
| command line (`cli.py`) | none | the commands | every service and file below the root | what it reports is on disk; a refusal leaves nothing, unless it comes after the file has its name |
| MCP server (`mcp/server.py`) | the request loop | `handle`, `tool_call`, `resource_read` | clients; the services | one answer per request, none to a notification; the loop goes on |
| adapter registry (`adapters/registry.py`) | registered adapters | `register_many`, `create`, `load_entrypoint_adapters` | provider packages | a batch registers as a whole or not at all |
| schema migration (`models/versioning.py`) | registered steps, frozen or not | `register_many`, `freeze`, `migrate` | every contract that is loaded | one path between versions |
| atomic files (`models/io.py`) | one file | `atomic_write_text`, `atomic_create_text` | every store | whole content or nothing; no clobber |
| scaffold (`project.py`) | a project tree | `create_project_scaffold` | other inits | an existing project is spared; a reported one is whole |
| circuit assembly (`circuits/assembly.py`, `workflows/netlists.py`) | none | `validate_manifest`, `compose`, `validate_netlist` | recipes, tables | every port used once; the matrix is that of the circuit |

Of the other components (recipes, tables and layouts, MATLAB and COMSOL adapters,
audit) the front ends see a result or an exception; that, and the files they touch,
is modelled. The numerics of the optimizer and the developer scripts are left out;
`PROJECT.json` names them all with the reason.

Hard behaviours, in the order of what they can cost a user:

1. an update interrupted between two writes, and what later operations make of
   it;
2. a decision taken on a file that is opened twice, or on several files that
   change in between;
3. two processes that load, change and save the same file;
4. evidence that changes after it was accepted;
5. the solve budget of a campaign, with processes that fail or time out;
6. two commands, or a command and a tool, on one project, each of which may die
   between two files;
7. a batch, a log or a history that is wrong in one place, and what is accepted
   of it.

`PROJECT.json` lists each hazard at its line, with the properties that cover it.

## 2. The modules

| module | what it is |
|---|---|
| `RunLifecycle` | abstract: what one run promises through its manifest |
| `RunStore` | the run store, one file write per step; implements `RunLifecycle` |
| `RunStoreReader` | extends `RunStore` by a reader, one file opening per step |
| `GateLedger` | the gate ledger: updating processes, a summary, changing evidence |
| `AdoptionGate` | abstract: what the adoption gate of a backend promises to callers that take turns |
| `BackendAdoption` | the adoption record of a backend, one access or one look at evidence per step; implements `AdoptionGate` |
| `Campaign` | the inverse-design driver and the solver run it waits for |
| `CampaignPlan` | the plan of the campaign, by the names of its jobs |
| `Thresholds` | the contour thresholds a campaign tries, one after the other |
| `Training` | what a campaign accepts as the log of an optimization |
| `Steps` | the steps a command or a tool is made of |
| `Services` | what the services refuse, and for which classes of reasons |
| `Commands`, `McpTools` | the commands of `photonic`, the tools of the server, as sequences of steps |
| `FrontEnds` | shells and the server that run them on one project, interleaved step by step |
| `Circuits` | validation and composition of a circuit |
| `Search` | `suggest_candidate`, and a caller who does what it says |
| `AdapterRegistry` | batches of adapters, built in, registered or from providers |
| `Migrations` | batches of schema migrations, and contracts that are migrated |
| `RunStoreProofs`, `RunStoreReaderProofs`, `GateLedgerProofs`, `BackendAdoptionProofs`, `CampaignProofs`, `FrontEndsProofs`, `CircuitsProofs` | theorems about one module each |
| `InMemoryProofs` | theorems about the search, the registry, the migrations, the training evidence and the thresholds |
| `MCRunStore`, `MCRunStoreReader`, `MCGateLedger`, `MCBackendAdoption`, `MCCampaign`, `MCCampaignPlan`, `MCFrontEnds`, `MCInMemory` | instances for TLC |

`Commands` extends `Services`, which extends `Steps`; `McpTools` extends `Commands`.
`FrontEnds` extends `Steps` only: its programs are constants, so that what is proved
holds for any commands that keep to its assumptions, and `MCFrontEnds` gives it those
of `Commands` and `McpTools`. `MCInMemory` puts the six modules whose state is in
memory beside each other; a behaviour is about one of them.

Plan, in this order (`+` done, `-` to do):

    + RunLifecycle, RunStore, RunStoreProofs
    + RunStoreReader, RunStoreReaderProofs
    + GateLedger, GateLedgerProofs
    + AdoptionGate, BackendAdoption, BackendAdoptionProofs
    + Campaign, CampaignPlan, CampaignProofs
    + Steps, Services, Commands, McpTools, FrontEnds, FrontEndsProofs
    + Circuits, Search, AdapterRegistry, Migrations
    + Thresholds, Training, InMemoryProofs
    + CircuitsProofs

### RunStore

One run directory and its single writer (`docs/maintenance.md:257` says
single-writer). The variables are the files; `pc` is the next write, `plan`
what the operation computed from the files it loaded before it writes. An
operation is a `Begin...` action (load, check, compute) followed by its writes
in the order of the code: list file, `run.json`, event line, checkpoint.

| model | code |
|---|---|
| `StageRun`, `PublishRun`, `AbandonCreate` | `create`: all files in a staging directory, one rename; the `except` removes it, the end of the process does not |
| `BeginTransition`, `WriteManifest` | `transition_execution` |
| `BeginArtifact`, `WriteArtifacts`, `WriteManifest` | `record_artifact`; it loads the manifest only after `artifacts.json` is written, and skips `run.json` if the id is listed already |
| `BeginProvenance`, `WriteProvenance` | `record_provenance` |
| `BeginAcceptance`, `WriteResults`, `WriteManifest` | `record_acceptance` |
| `AppendEvent`, `TearEvent` | `_event`: an append, which may stop inside the line |
| `WriteCheckpoint` | `_checkpoint`: hashes the files as they are |
| `Interrupt` | an exception from a write or the end of the process; the store has no memory between operations, so the two are one |
| `Recoverable` | `recover` with an undisturbed directory |
| `Trusted` | `ProjectRunView.trusted` |

A hash is modelled by the content (equal exactly when the contents are).
`inputs.json`, the two log files that are written once, and the time stamps are
left out. `interrupts` and `reported` are history variables; they occur in no
guard other than the bound `MaxInterrupts`.

### RunStoreReader

`inspect` and `latest_trusted_run` from another process than the writer. Each
call opens eleven files: the checkpoint, five to hash, five to read; each
opening is a step. Another call may begin when the last one has answered.
Of the histories, `quiet` says that nothing was written during the call, `earned`
that at some moment of it the run was accepted beside passing results, and `agreed`
that the checkpoint the call has read was of such an agreement: if it has an accepted
manifest, it has passing results.
The choice of the newest of several runs is left out: the model has one.

### GateLedger

Any number of processes update gates of one ledger, each taking one step per
look at an evidence file, per reading of one, and per access to the ledger. A
summary runs beside them, and somebody edits, empties or removes evidence files
at any time. The documentation claims single-writer only for the two other
stores; for the ledger it says nothing, so the overlap is in the model, and the
properties say what survives it.

`_validated_evidence_file` (is it a file, is it nonempty) and `_sha256` open the
file at different times. The model keeps that apart (`Look` and `Hash`,
`LookAtItem` and `ReadItem`), and so admits what the code admits: an update that
records the digest of an empty file because the file was emptied in between, and
a summary that ends with an `OSError` because the file vanished in between. What
holds in spite of it is what `EvidenceWasThere` and `VerifiedEvidenceWasSeen` say.
`Remember` is the digest cache: one per update, one per summary.

The statuses `fail` and `blocked` of a record keep whatever evidence they were
given unread, so such a record has no items here. Evidence of the older form (a
list of paths, `Legacy`) has none either: only that it is not mapped matters.

### BackendAdoption

`verification/adoption/TARGET.json` of one backend; each target has a file of its
own and no operation touches two. Processes call `initialize`, `load`, `record` and
`evaluate`; a call accesses the record at most twice (once to load it, once to
replace it, or to test for it and to create it) and looks at every evidence file
in a step of its own: `record` first at the evidence it was given, then, in
`load`, at that of all decided checks.

| model | code |
|---|---|
| `Exists`, `Create` | `initialize`: the test, and `create_contract`, a link that fails on an existing file |
| `OwnEvidence`, `LookAtStored` | `_validated_evidence`, called by `record` and by `load` |
| `Load`, `Write`, `Answer` | `load_contract`, `write_contract`, the return of `load` |
| `Recorded`, `Evaluated` | `record_backend_adoption_check`, `evaluate_backend_adoption_gate` |
| `Fits` | the validator of `BackendAdoptionGateRecord`, applied to whatever is written |
| `Stop` | a refusal, an exception, the end of the process, a dry run |

The documentation asks for one writer at a time
(`docs/architecture/adapter-contract.md:114-120`). The model lets calls overlap all
the same and notes it in the history variable `overlapped`, so that each property
says whether it needs callers that take turns. `since` and `ever` are histories of
the evidence files; no guard reads any of the three.

Reasons, validity flags and time stamps are left out, and so is the canonical
form of the paths.

### Campaign

`campaign.py` and, inside it, the run of `run.py` it waits for. `pc` runs through
both: the driver is sequential, and so is what it waits for. The driver keeps the
whole document in memory (`doc`) and writes it to `campaign.json` (`disk`) at the
places where the code calls `save`. `save` overwrites the file, so one that fails,
or is interrupted, may leave an unreadable file (`Torn`); the exception takes the
driver to the handlers of `main`, whose own `save` may succeed or fail again. Nothing
catches an exception of that save, of the first one, or of a class the handlers do not
name: Python ends the driver with status 1, as the second handler does after an
execution failure, so `exit` is `"1"` in both cases, and the two cannot be told apart by it.

| model | code |
|---|---|
| `Begin` | `main`: the arguments, a plan without `--execute` (status 0 or 2, no file), and the first save, outside of the `try` |
| `NextStartup`, `Propose`, `AddCandidate`, `Select`, `Validate`, `Judge`, `Finish` | `run` and `qualify_binary`, cut at the calls of `native` and at the saves |
| `Native` ... `Analyse` | `native`: charge, launch, receipt, cost (`Count` is `record_optimization_cost`), evidence, analysis |
| `Refuse`, `Render`, `Digest`, `SolverEnds`, `SolverHangs`, `SolverKilled` | `main` and `process` of `run.py` |
| `Raise`, `Handle` | any of the exceptions `main` catches, and its two handlers |
| `Die`, `Edit` | the driver killed, or ended by an exception `main` does not name, at any step; a mask file changed from outside |

What a run leaves is an `Outcome`: the exit code, whether the receipt is there,
readable and complete, what the verified trace of an optimization says, and whether
the trace covers all stages. `Outcomes` admits every combination `run.py` can
leave. Measured numbers are outcomes as well: acceptance, convergence, and the
distance of the splitting ratio from balance. Which threshold is proposed next, and
which log is accepted, are a choice here; `Thresholds` and `Training` are about them. The
constants are the plan; `MCCampaign` takes a small plan that has every kind of job,
`MCCampaignPlan` the jobs of the real one. A job is named by its directory, so two
jobs of the same name share it, as they do in the code. `launched`, `solved`,
`short` and `restored` are histories: no guard reads them.

### Thresholds and Training

`Thresholds` is `propose_threshold` over the whole history of up to six candidates,
each measured, or without a ratio (`None`). Thresholds are integers, `Scale` of them
0.005, and quotients are rounded down: with 1512 every secant, midpoint and listed point
over imbalances from -2 to 2 is exact. `Apart` is `REPEAT_TOLERANCE`. The secant of two
rows with equal imbalance, and none, are sets of at most one value.
`GiveUp` is the `ValueError` for which the campaign ends as an
execution failure.

`Training` is `optimization_prechecks` and `training_components`: three checks of
lines, of which the log has one too many, one too few or a wrong one. Amplitudes are
modelled by the two objectives that are computed from them; which of them counts is
the profile of the configuration.

### Steps, Services, Commands, McpTools

A command is a program: the sequence of its accesses to files with, between them,
checks of what was computed in memory (`Check`, with the set of the classes of
exceptions that may come out). `Services` has one definition for each service and
says what it may raise, or which file it reads; the code of the service decides
which of these happens, the model leaves it open. A group of commands that differ
in the file they name is one set of programs. `--dry-run` and options that are not
given shorten a program (`Optionally`).

| step | code |
|---|---|
| `Read`, `Consult`, `Scan` | `load_contract`; a ledger that may be missing; a table, half of which may pass for one |
| `Replace` | `atomic_write_text`: temporary file, `os.replace` |
| `Create` | `atomic_create_text`: guard, temporary file, guard, link, guard, and removal of the target if the last guard fails |
| `Overwrite` | `open("w")`, `copyfile`: truncated, then filled |
| `Fresh`, `Verify` | the `exists` of an init; the digest of a file just created |

### FrontEnds

Shells run one command each; the server answers the lines of its client. Every step
of a program is an action, so programs interleave at every access to a file, and
`Die` ends a process between any two. `disk` has of each file the kind of its
content, who wrote it, and whether it is whole; a temporary file is the `phase` of
the step, since nobody else sees it. `Receive` is the top of the loop in `main` of the
server, `End` its answer or the exit of a command, `RefusalId` the order of its
handlers. `reports`, `fresh` and `late` are histories.

What fails before a file has its name leaves nothing; what fails after leaves the
file, and the code has no way to take it back. `Spoil` is such an end, and marks the
report as `spoilt`: `Link` and `Guard` when the temporary file cannot be removed in the
`finally` of `atomic_create_text`, `Guard` also when the file itself cannot be removed
after the last guard has failed, `Matches` when the new file cannot be read for its digest,
`Finish` when the result cannot be encoded or printed. If telling of the refusal
fails too, the process ends (`Die`).

The gate ledger and the adoption records are single files here; what is in them, and
what overlapping updates of them do, is in `GateLedger` and `BackendAdoption`.

### Circuits

A manifest is any list of connections and external ports, right or wrong;
`Validate`, `LoadAll` and `Compose` are the stages of `validate_manifest` and
`compose`. Entries are 0 and 1, and a component passes at most one path through each
port, so that the linear system can be solved by enumeration: it has one solution
unless light goes in a circle, and then the matrix is singular. Offsets, index lists
and the order of ports are those of the code.

### Search, AdapterRegistry, Migrations

`Search`: the history grows by what the caller does with the answers, by validations
nobody suggested, and by outcomes, among them records that do not fit the contract.
`AdapterRegistry`: `register_many` for batches of the embedding application and, as
one batch, what the allowed providers supply; a provider may fail, supply nothing, a
factory, a name that is taken, or be installed twice. `Migrations`: batches of steps,
some refused, before and after `freeze`. `migrate` is one round of its loop per step:
`BeginMigrate`, `ApplyStep` for each round, and `EndMigrate`. A call is refused for the
version it has come to (`RefuseVersion`: no step, or a circle), or for the payload
(`RefusePayload`: a transform that raises or makes something else of it, or a provenance
that is no list once steps were applied). The payload is not modelled, so the second may
happen in any round, and in the end. A
transform is anybody's code, so steps may be registered between two rounds too. A
batch is a family of registrations, of which a sequence is one: the code checks all
of a batch before it keeps any, and the order tells only which error is reported.

## 3. What the runs check

All passing runs exhaust their state spaces.

| run | instance | shows |
|---|---|---|
| `run_store` | 2 artifacts, 1 passing and 1 failing result, 5 log lines, 2 interruptions | see below |
| `status_reader` | 1 passing result (a batch that fails is the empty one), 7 log lines, 1 interruption, 1 provenance record, no artifacts | what a reader beside the writer may and may not conclude |
| `gate_ledger` | 2 gates (one with two checks), 1 evidence file with 2 contents, 2 writers, 2 updates, 2 edits | overlapping updates, changing evidence, a summary |
| `backend_adoption` | 2 checks, 2 evidence files, 2 callers, 4 calls, 1 change of the evidence | overlapping calls on one adoption record, and what taking turns adds |
| `campaign` | 3 start-up jobs (2 optimizations), 2 candidates, 3 validation jobs (1 holdout, 2 comparisons), 2 distances from balance, 2 mask edits | the driver through every outcome, failed save, death and hanging solver; that it ends |
| `front_ends` | 2 shells and the server, 2 requests of all commands, tools and lines, 1 death; an empty directory or a project, with a contract of 3 kinds | two requests at once on the files of a project |
| `in_memory` | a ring and a waveguide with 6 named endpoints; 3 points, budget 5, reserve 1; 2 calls on 4 adapters and 8 entry points; 3 versions, 3 ids, 2 migrations; 6 candidates with 5 imbalances; 2 stages at 2 wavelengths | the six parts without files, each on its own |
| `answers_name_requests` | the server with 2 lines | an answer that does not name its request (section 5) |
| `folders_are_new` | the real plan with 1 candidate | a name that two of its jobs share (section 5) |
| `laundered_update`, `latest_earned`, `status_answers` | smaller instances of the above | three statements of the repository that the code does not keep (section 5) |

**run_store.** `CompletedUpdateIsRecoverable`: without interruption and without
an artifact id recorded twice, every completed update leaves a run `recover`
accepts. `UninterruptedLogIsComplete`: the event log alone then explains every
other file. `NoTrustInOldVerdict`: under any interruptions, a run is never
trusted on a judgement older than the results written last.
`LifecycleImplemented`: `run.json` implements `RunLifecycle`, interruptions
included. `RejudgingHeals`: a completed `record_acceptance` repairs what an
interrupted one left. `ArtifactTearIsPermanent`: an interruption between
`artifacts.json` and `run.json` does not heal, whatever is called later.

**status_reader.** `QuietReportIsExact`: the eleven openings of an undisturbed
call decide what `Recoverable` says. `TrustedInspectIsEarned`: what `inspect`
calls trusted was accepted, by passing results, at some moment of the call, in
every interleaving with the writer, provided that the checkpoint it compared with had
not taken in an interrupted judgement (`agreed`). Without the proviso TLC finds a
counterexample of seven log lines: a judgement stops between `acceptance.json` and
`run.json`, the checkpoint of a later update hashes both as they are, `inspect`
compares them with it and finds no difference, reads the old accepted manifest, and
before it opens `acceptance.json` the run is rejected and then judged once more, by
passing results.

**gate_ledger.** `EvidenceWasThere`, `VerifiedEvidenceWasSeen`,
`OneContentPerSummary`, `QuietSummaryIsExact`, and `SerialUpdatesAreKept`: as long
as no two updates overlap nothing recorded is lost, with creation of the ledger
and updates that stop half way. (If two overlap, the later save wins and the other
update is gone; the load of a missing ledger may even reset it. That is what
the code does, and why the property has its hypothesis.)

**backend_adoption.** In every interleaving: `LoadedEvidenceWasSeen` (what is about
to be written, or answered, rests on files the call has seen),
`RecordedEvidenceExisted` (so does everything on disk, blocked checks included,
which no later call looks at), `NeverReset` (a racing initialization never throws
away an update). `TurnsImplementGate`: until two calls overlap the file behaves as
`AdoptionGate`; after that an update may be lost, and a decision may be made of
checks that are no longer recorded, which is why the documentation asks for turns.

**campaign.** `StartedIsOnDisk`: whenever `campaign.json` can be read it has, in
order, a row for every solver ever started, within the budget. `PassIsEarned`:
`pass` is written only after every job of the plan, with an accepted candidate and
every locked check accepted and converged. `HoldoutsLast`. `CostIsMarked`: once the
document says more of an optimization than that it executes, totals that miss some
of its work are marked as lower bounds. (An unreadable `receipt.json` raises before
anything is counted; the row then stays `executing`.) `OverrunStops`:
after an overrun no solver starts. `ExitMatchesRecord`: of a campaign that was begun, status
0, 2 or 3 is told only if the file says `pass`, `scientific_failure` or `cost_overrun`, saves
that failed on the way included; and an overrun is told by status 3 unless the driver is
killed or ended by an exception nobody catches, whatever else goes wrong. Status 1 tells
nothing of the file, and a file that says `pass` need not mean status 0: the last save
may raise once everything is written. `NamedMaskWasSolved`: an analysed run has solved the mask
its row names, though the file is read three times, provided no change of a mask file
was undone (`restored`): a file that is changed before `run.py` renders it and changed
back before it takes the digest is not noticed, since only digests are compared.
`LockedMaskHeld`, with the same proviso: the jobs of a
campaign that passes have solved the locked mask, all but perhaps the last: the file
is compared before each job, not after it, so a change just before the last job
reads it is not noticed (its row names the other mask). `CampaignEnds`.

**front_ends.** `WholeOrAbsent`: a file that only atomic writes touch is found whole
or not at all. `RefusalLeavesNothing`: a refused request with one file to write
atomically has left none, unless something failed after the file had its name
(`spoilt`): at the last guard, for one, it takes the file back. `ReportsAreTrue`: what a
request reported as written is there, its own or a later writer's; of two renderings of one artifact one is refused.
`LoneScaffoldIsWhole`: an init that alone passed the check and reports success has
made every file. `ProjectsAreSpared`: an init that begins in a project writes
nothing, which also means that a scaffold left by a dead process is never completed.
`AnswersInOrder`: of the lines dealt with exactly those that are no notifications have
an answer, each in its place, under its own id or with the id null.
`EveryRequestIsAnswered`: unless the server dies.

**in_memory.** `ComposedIsLightPath`: the matrix says where light goes that follows
the connections, and composition is refused exactly if light may go in a circle.
`ValidatorsAgree`: the two validators of connections accept the same, up to what only
one of them knows. `SearchIsFrugal`: a caller that obeys never repeats a point, spends
the reserve, or goes on after three equal failures. `BatchIsWhole`: the registry is
that of the accepted batches, each whole, and a provider is reported as loaded only if
all it supplies is registered. `MigrationsAreStable`: from a version that was migrated once
the registry leads on to the target for good, so that no payload of that version is
refused for it later, and each that is migrated gets the same markers; no migration takes
a step twice, or more rounds than there are versions. What a transform makes of one
payload or another, and refuses, is its author's.
`BracketsClose`: once the three probes are measured, brackets are nested and
shrink (`BracketsNest`), and the search is given up early only over a bracket: one in
which a candidate was balanced already or gave no ratio (one is enough, with up
to two still to try), or one so narrow that its middle would repeat an end.
`RescoredMinimumIsNative`: where a log is accepted, the minimum the
driver computes is the one the native program logged.

### Bounds

`MaxEvents` (5) lets a run be created, run, succeed and be judged twice, which is
what a verdict that is older than the results needs, with two interruptions on
the way (an interrupted update need not log, so more than five updates happen).
Two artifacts are needed for an id recorded twice beside another one. The reader
needs no artifacts for its questions, since the artifact rule is one of two
cross-file rules and the other, about acceptance, is the one trust hangs on; one
interruption is enough to leave a half judgement for it to find, and seven lines let a
later checkpoint take it in and the run be judged once more during the call. The ledger needs
two gates that name one file (a lost update, a shared digest), one gate with two
checks (one file named twice in a call), two contents, and two edits: there and
back again, which is what an unstable digest needs. An adoption gate needs two checks for
a decision over a mixture, two files to have one vanish while the other is looked
at, and four calls: create, record both checks, evaluate. A campaign needs a gradient
check and an optimization that is the source of another, two candidates (one is
rejected, or both are to be compared), and two checks before the holdout, one
compared with the candidate and one with another check; two edits may fall at any
step, between any two readings of the mask, and the second may undo the first. Two requests at once are what the front
ends' properties compare; one death leaves a file behind for the other request. The
two shells are alike, so the run keeps to behaviours in which the first one starts
first (`OneOrder`); a second shell that writes nothing changes nothing for the
other, and is left to the server, whose tools read as well. Programs that do the same
to the files of the instance are one program. Six endpoints name every port of a
circuit with five of them and one too many. Budget 5 with reserve 1 leaves three failures
in a row and a slot after them. Two batches of two adapters are enough for one that
fails at its second member, two steps and three versions for a chain and a cycle, two
migrations to compare one version with itself, or with a version on its way. Six
candidates are all the code allows; imbalances from -2 to 2 let two be unequal on
both sides, and next to -40 two secants make a bracket too narrow for a middle. `SYMMETRY` exchanges the
contents and the writers, for invariants only.

### Fairness

For the stores, the ledger, the reader and the parts in memory none is assumed: the package promises no
progress of its own there, it only answers calls, and a caller may stop calling,
which is why the writer-only run sets `CHECK_DEADLOCK FALSE`. The campaign runs on
its own. `WF_vars(Driver)`: the driver is one sequential program, which goes on
unless it is killed (`Die` ends the behaviour). `WF_vars(Solver)`: a solver run ends
or reaches the time limit at which `process` kills it; `SolverHangs` itself is not
fair. The two helper programs without a time limit, `extract_mask.py` and
`analyze.py`, read files and compute, and are taken to end.
`WF_vars(ServerStep)`: the server reads the next line as soon as it has answered the
last one, and nothing it does for a line waits for anybody else. Shells are not fair:
a command may stop anywhere.

## 4. What is proved

By `tlapm`, for every value of the constants that the assumptions allow, hence for
every number of artifacts, gates, files, processes, jobs, adapters or versions, and
for every bound. The assumptions, which TLC evaluates on every run:

- the bounds are in `Nat`; `Passing \subseteq Results`; a gate requires some check, and
  no content is called `empty`, `missing` or `none`; a backend has some check;
- of the front ends and of the campaign, what is said under their names below;
- `Search`: what `_configuration` asks (a budget from 2 to 512, a reserve below it), and
  that there is a centre;
- `AdapterRegistry`: batches consist of registrations, and the built-in ones fit
  together; `Migrations`: finitely many versions, with the current one among them, and
  batches of steps; `Training`: finitely many wavelengths, and logs of lines that can
  be read; `Thresholds`: a positive scale, and imbalances that are integers;
- `Circuits` (`CircuitAssumption`): there are instances, their components have ports,
  and no name of either is there twice (`validate_structure` looks at nothing else of a
  manifest that breaks this); and the entries of tables are 0 or 1, which is the
  model's own abstraction.

*RunStoreProofs.*

- `TypeCorrect` (`[]TypeOK`). Beside `TypeOK` the invariant needs that an
  artifact plan's event carries an artifact id (`PlannedArtifact`), because
  `WriteArtifacts` puts that id into the manifest.
- `NoOldVerdict` (`[]NoTrustInOldVerdict`). `Recoverable` requires that an accepted
  manifest stands beside passing results, and `reported` is the verdict of the
  results on disk whenever they are not the initial ones.
- `LifecycleTheorem`: refinement of `RunLifecycle`, step by step. It needs that a
  planned manifest differs from the one on disk by the planned move only, at each
  `pc` (`PlanFits`).
- `CompletedUpdates` (`[]CompletedUpdateIsRecoverable`), from an invariant that
  says, for each `pc`, which of the files already agree.
- `TearIsPermanent` (`ArtifactTearIsPermanent`). The count of records that
  `artifacts.json` has and `run.json` lacks never falls below zero and, once
  positive between operations, is never zero again.
- `LogIsComplete` (`[]UninterruptedLogIsComplete`). `ExplainedWhenDone` says of every
  `pc` what the log explains already: the files as they were before the operation
  until its line is appended, with what the operation has planned in their place
  (`ExecutionDue` and the like) afterwards. The property speaks of positions in the
  log: how many lines of a name there are, which is the last, and which comes first.
- `JudgingHeals` (`RejudgingHeals`). By the time a judgement writes its checkpoint,
  `acceptance.json` has its results and `run.json` its verdict, whatever earlier
  interruptions had left in either (`JudgedAgain`).

*RunStoreReaderProofs.* The reader beside the writer, for every store that
*RunStoreProofs* is about, the invariants of which hold here too.

- `ReaderTypeCorrect` (`[]TypeOKReader`), from `Shape`: what is still to be opened is the
  end of the order of openings, and what was read has the type of its file.
- `QuietReports` (`[]QuietReportIsExact`). `Undisturbed`: as long as nothing was written,
  the comparisons so far are those of the files with the checkpoint as they are, and
  the contents read so far are the files.
- `TrustIsEarned` (`[]TrustedInspectIsEarned`). `Unearned`: as long as the run was never
  accepted beside passing results, a call that has found no difference so far cannot
  have before it both an accepted manifest and a checkpoint of passing results; and
  once all is hashed, the manifest it is to read, or has read, is not an accepted one.
  This rests on a fact about the writer: `run.json` becomes accepted only in a step
  after which it is accepted beside passing results (`AcceptedByWriting`).

*GateLedgerProofs.*

- `LedgerTypeCorrect` (`[]TypeOK`).
- `MappedEvidenceWasThere` (`[]EvidenceWasThere`). The ledger alone is not
  inductive: a save writes what a call loaded long ago and what it checked since.
  `EvidenceInv` therefore says the same of the ledger every call has loaded
  (`Sound`), and of a call that is checking that the items checked and those still
  to be checked make up the gate's requirement, the checked ones having been there
  (`SoundCall`).
- `SummaryHasSeen`, `SummaryReadsOnce`, `QuietSummary`: the three properties of a
  summary, from one invariant (`UnderWay`): what is no longer to be read is
  confirmed by the cache, or its gate is blocked, and a gate is blocked only for
  evidence that was not as recorded at some time of the summary.
- `SerialUpdates` (`[]SerialUpdatesAreKept`). `SerialInv`: until two updates overlap, at
  most one is under way, what it has loaded is the ledger, and it creates a ledger
  only where there is none.

*CampaignProofs.* For every plan and every number of candidates, outcomes and changes
of a mask. `PlanAssumption`: there are thresholds to try and checks to run, and the
optimizations and holdouts are jobs of their stage. `StartupAssumption`: no two start-up
jobs share a directory. `HoldoutsAssumption`: the holdouts are the last checks, and no
other job has the name of one. `plan()` (`campaign.py:349-460`) makes them so; TLC
evaluates all three for its names too, in `folders_are_new`. That checks may share
a directory with earlier jobs, as two jobs of the real plan do, is allowed.

The invariant is one, `CampaignInv`, because its parts need each other:

- `TypeCorrect` (`[]TypeOK`), with `Place` (at each `pc` the lists of the document say which
  job of the plan is next) and `RowMatches` (the last row is that of the job under way).
  Everything below is about rows by their number, and these two say which job a
  row is.
- `StartedRowsAreOnDisk` (`[]StartedIsOnDisk`). `Launched`: the rows in memory and the solvers
  started are the same jobs in the same order, but for a row just made; `SavedFirst`: from
  the save of a row to the end of its solver nothing in memory is unsaved. Every other
  save only adds to what is on disk.
- `OverrunIsTheEnd` (`OverrunStops`), `ExitTellsRecord` (`[]ExitMatchesRecord`). `StopIsHeeded`:
  an overrun sets `stop`, with which only the rest of the same job is still possible. A
  file that says `pass` may be there although the last save raised; as long as it is,
  no solver starts and none solves a mask (`PassStays`).
- `CostsAreMarked` (`[]CostIsMarked`). `Marked`: an optimization that fell short is not
  counted yet, or the totals are lower bounds; a row that says more than `executing`
  has been counted, in memory and on disk.
- `RowNamesSolvedMask` (`[]NamedMaskWasSolved`). The three readings of the mask file are ordered,
  and as long as no change was undone versions only grow (`Versions`, `MasksGrow`), so what
  was rendered lies between the version in the row and that of the digest (`MaskRead`). If
  the two are one, so is what was rendered, and nobody renders in that directory again
  (`SolvedOnce`).
- `LockHolds` (`[]LockedMaskHeld`). `LockGrows`: the masks of the checks are at least as new
  as the locked one, and at most as new as the file; the comparison before the next
  job makes them equal.
- `HoldoutsComeLast` (`[]HoldoutsLast`), `PassesAreEarned` (`[]PassIsEarned`). `StartupRows`,
  `ValidationRows` and `SelectionPassed` say of the jobs before the present one that
  none has failed, and that the selected candidate was accepted.

*FrontEndsProofs.* For every set of shells, files and kinds of content, for every
first content of the directory, and for all programs that keep to the assumptions of
`FrontEnds` (checked for those of `Commands` and `McpTools` by TLC): what a program that
makes a `photonic.toml` writes, the files of a project, is written only by programs that
ask first whether there is one, and never by a link (`InitsAssumption`); a file that is
linked under a guard is written in no other way (`GuardsAssumption`); a program with
one file to write, atomically, goes on at most to verify it (`SingleWritesAssumption`).

- `FrontEndsTypeCorrect` (`[]TypeOK`). Beside it `BasicInv` says that what a process
  has still to do are steps of some program (`Known`), and that the server works on
  a line it was sent (`AtLine`).
- `FilesAreWholeOrAbsent` (`[]WholeOrAbsent`): only `Truncate` and `Fill` leave half a
  file, and no atomic file is the target of either.
- `LateInitsWriteNothing` (`[]ProjectsAreSpared`). `AuthorsInv`: nobody has written,
  reported, or is in `late` before his request began; the server's later lines are
  nobody's yet. `LateInv`: if any init ever was late, `photonic.toml` is
  there, and a late init under way still has its question to ask (`AsksFirst`).
- `SuccessIsOnDisk` (`[]ReportsAreTrue`). `ReportsInv` adds that of the files a running
  program owes each is on disk or among its remaining writes (`Progress`), and that
  a file linked and not yet guarded is its own (`LinkedIsMine`), so that `Guard` never
  removes another's.
- `RefusedRequestsLeaveNothing` (`[]RefusalLeavesNothing`). `RefusalInv`: of a process with
  one file to write, nothing is on disk unless it is linked and awaits its last guard,
  or has only the verification of that file to do (`Quiet`, with `Tidy` of what is left
  to do); that comparison fails only if another has written since. So of the two shapes an
  end with a refusal has, one leaves nothing of its own (`Refuses`), and the other is `spoilt`
  (`Spoils`), of which the property does not speak.
- `AnswersKeepOrder` (`[]AnswersInOrder`). The answers are numbered by the lines that ask for
  one (`Asked`): the answer to line `k` is at the place that `k` has among them. Beside it the
  invariant needs that the line a tool works on is the call that started it (`AtCall`).
- `LoneInitMakesAll` (`[]LoneScaffoldIsWhole`). `ScaffoldInv`: who has a file of the project still
  to write has asked, or asks first (`HasAsked`); and of an init that alone got past the
  question, each file it owes is still to be written or there, whole and its own
  (`MakesWhole`), because nobody else gets to write one: any later init finds
  `photonic.toml`, or asks and is no longer alone. Half a file is the one it is filling
  (`FillsItsOwn`).

*BackendAdoptionProofs.* For every set of checks, files and callers.

- `AdoptionTypeCorrect` (`[]TypeOK`, which includes that the record on disk passes
  its own validator), `EvidenceExisted`, `EvidenceSeen`: from `Invariant`, which
  says for each call (`Knows`) which files it has seen by the step it is at: of its
  own evidence and of the loaded one, all but what is still `todo`.
- `InitializeNeverResets` (`NeverReset`): `Create` never replaces a record, and
  what `Write` writes has a revision above that of a loaded record, which is at
  least 1.
- `AdoptionGateTheorem` (`TurnsImplementGate`): as long as nobody has overlapped,
  the call under way still has on disk what it has loaded (`Turns`).

*InMemoryProofs.* Five of the six parts that keep nothing on disk.

- `SuggestionsAreFrugal` (`[]SearchIsFrugal`), for every budget, reserve and pool of points.
  What is suggested was sound for the history it was computed from (`AnswerIsSound`), and
  stays so because nothing else is recorded until it was acted upon. A trial
  that ends changes none but the last (`OneAtATime`), so what was true of the history
  before a suggestion stays true.
- `BatchesAreWhole` (`[]BatchIsWhole`), for all adapters, batches and providers. `RegistryInv`
  splits the property (`Accounted`, `OneEach`, `Standing`, `Loaded`) and adds that a
  factory came with the registration the adapter has (`FactoriesAreOwn`).
- `MigrationsStayStable` (`[]MigrationsAreStable`), for all versions and steps. There is one step
  from a version and no step is ever replaced (`StepsAreOwn`), so a migration under way
  has come a chain of registered steps without repetition (`Way`, `Leads`), and one from
  a version that was migrated before is on the way that one went (`SameWay`,
  `OnTheWay`), however many steps were registered in between. A way without repetition is
  an injection into the versions, hence no longer than they are many (`WaysAreShort`).
- `RescoringIsNative` (`[]RescoredMinimumIsNative`), for every band, set of stages and log. As
  many points as wavelengths, and every wavelength among them, is one point for each
  (`PointPerWavelength`); derived objectives have different wavelengths and are as many
  (`DerivedFromPoints`), so they are those of the whole band (`WholeBand`), and their
  minimum is that of the points.
- `BracketsAreNested` (`[]BracketsNest`, the first half of `BracketsClose`), at every scale
  and for all imbalances, with rounding. What is proposed after the probes lies
  strictly within the narrowest bracket, if there is one (`Confined`); a candidate there
  replaces one end of it, or leaves it alone. Where the proof needs a narrowest
  bracket, or the first of the listed points, it takes the least of a set of numbers
  (`Least`, from the well-foundedness of `<`).

- `SearchEndsOverABracket` (`[]BracketsClose`), again at every scale and for all
  imbalances. `Followed` says only that each candidate was proposed for those before
  it; the rest is about five rows. Outside a bracket one of the eight steps
  of 0.005 is free, as four other candidates spoil four at most (`SomeStepIsFree`).
  Inside, if nothing was tried there, the middle is free as soon as the bracket lies well
  to the anchor's step (`Reached`, `MiddleIsFresh`). That it does is an argument about who
  made the bracket: the probes, and then nothing ever left them (`ReachAmong`); the fourth
  candidate, which is near the anchor it was proposed from (`FourthIsNear`); or the
  fifth, which leads away from the probes only if they are on one side of the anchor,
  and then it stays beside the anchor (`SecantLeadsAway`, `StaysBeside`).

*CircuitsProofs.* The assembly of any circuit. Its loops over lists are folds, and `Follow` is
recursive; the library's induction theorems take an operator and cannot be used, so
`Inductive` says the same of a set of numbers, from the well-foundedness of `<`. With it
a fold is the last of a sequence of accumulators, and what holds of the accumulators is
shown step by step.

- `AssemblyInvariant` (`[]Assembled`): of which shape the manifest is, and what is known of
  it, of the tables and of the matrix at each stage. The other two follow from it.
- `ValidatorsAlwaysAgree` (`[]ValidatorsAgree`). Both validators collect the endpoints of the
  same connections; after each connection they have used the same ones if none was
  unknown, and they refuse at the same one, up to what only one of them knows
  (`SameOpinion`).
- `ComposedIsAlwaysLightPath` (`[]ComposedIsLightPath`). First the numbering: `Global` lists
  each endpoint once, an instance has the positions from its offset on, and so an
  entry of `System` is an entry of the table of one component or 0. Then the linear
  system: a solution is a set of internal endpoints that contains exactly
  those that light enters from outside or from another member. Where light does
  not go in a circle, every path is shorter than there are endpoints (pigeonhole), the
  endpoints that are reached are a solution, and two solutions would differ along a path that
  goes back for ever, hence through a circle. Where it does, the circle can be added to
  a solution or left out, as passive components join no two paths.

Only model-checked, and why:

- `CampaignEnds`, `EveryRequestIsAnswered`: liveness, which needs `ENABLED`.

## 5. Where the code and its documentation disagree

Each is a run that TLC ends with the counterexample.

- `laundered_update`: an update interrupted after `run.json` is not trusted, as the
  class comment of `RunStore` says, until the next operation writes its checkpoint
  over it; then `recover` accepts a state the event log does not mention.
- `latest_earned`: `latest_trusted_run` tests success and acceptance on the manifest
  it loaded before `recover`, and returns that one.
- `status_answers`: the staging directory of a `create` under way, or of a process
  that ended inside `create`, makes `inspect` and `latest_trusted_run` raise
  `SecurityViolationError`, because its name is no safe label.
- `answers_name_requests` (an error in the code): `main` of the server catches
  `ValueError` first, for lines that are not JSON; `InvalidInputError` and `AssemblyError`
  are `ValueError`s, so a well-formed call whose arguments or files are refused is
  answered as a parse error with the id `null`.
- `folders_are_new` (an error in the code): the plan calls both the third
  optimization and the validation job at 1550 nm with another projection plane
  `projection`. `run.py` refuses a directory that exists, so that job always fails,
  and a campaign with this plan never passes: `PassesAreEarned`
  holds of it all the same; the plan of `MCCampaign` has no such clash, so that
  there something is passed.

## 6. What is not modelled

Numerical code (the optimizer's formulas, tolerances, complex amplitudes, traces of the
optimizer), the parsing and rendering of text, and what commands print: they keep no
state, and the models take their results as choices. The closure profiles of the gate
ledger, a conjunction over its effective statuses. What the MATLAB adapter finds out
about an installed engine, and the other external programs. Developer
scripts; file systems that do not rename atomically or that lose a completed write at
power failure (the package syncs what it writes); and two concurrent writers of one run, which
`docs/maintenance.md:257-266` excludes.
