------------------------------- MODULE Commands -------------------------------
(***************************************************************************)
(* The commands of `photonic` (cli.py) as programs of steps (see Steps):   *)
(* each definition is the set of the programs that a group of commands     *)
(* comes to, over the files its arguments may name.  A dry run, or an      *)
(* option that is not given, is a program of its own without the steps     *)
(* that are left out.  What is computed in memory is the reasons for which *)
(* a check may refuse; Services names them.                                *)
(*                                                                         *)
(* Files no command writes (a recipe request, a sweep table, a MATLAB      *)
(* inventory, a JSON file of lengths) are part of such checks.             *)
(***************************************************************************)
EXTENDS Services

CONSTANTS
  Contracts,     \* the contract files that the arguments of commands name
  ContractKinds  \* the contract types

-----------------------------------------------------------------------------
(* Files of a project.                                                     *)

Notes        == "PROJECT.md"  \* stands for handoff/latest.md, requirements.txt and .gitignore too
Assembly     == "circuits/assembly.json"
Ledger       == "verification/gates.json"
Adoption     == "verification/adoption/TARGET.json"
Artifact     == "a rendered recipe"
Matrix       == "a composed S matrix"
Summary      == "a composition summary"

Families == {"mzi-4port", "waveguide-cascade"}

\* The tables of a template; its manifest names them.
Tables(family) ==
  IF family = "mzi-4port" THEN <<"directional_coupler.csv", "arm.csv">>
                          ELSE <<"waveguide.csv">>

Project == <<LoadProjectConfig>>

\* The commands that read one contract of a type, or two of them.
Typed(file, kinds, reasons) == <<Read(file, kinds, reasons)>>
OneOf(kinds, reasons) == {Typed(f, kinds, reasons) : f \in Contracts}
TwoOf(left, right, reasons) ==
  {Typed(f, left, {}) \o Typed(g, right, reasons) : f, g \in Contracts}

\* One contract is read, another (or the same) is written unless it is a dry run.
Derived(kind, reasons) ==
  UNION {Optionally({Typed(f, {kind}, reasons)}, {<<Replace(g, kind)>>}) :
           f, g \in Contracts}

-----------------------------------------------------------------------------
(* init.                                                                   *)

Copied(family) ==
  <<Overwrite(Assembly, family)>>
  \o [i \in DOMAIN Tables(family) |-> Overwrite(Tables(family)[i], "table")]

\* The writes of create_project_scaffold, photonic.toml first and the templates
\* last.
Scaffold(family) ==
  <<WriteProjectConfig, Replace(Notes, "notes")>> \o Copied(family)

\* validate_safe_label of the root and the ProjectConfig of the preview; the
\* existence of photonic.toml is asked after the return of a dry run.
CreateProjectScaffold ==
  Optionally({<<Check(SafeLabel \cup MakeProjectConfig)>>},
             {<<Fresh(PhotonicToml)>> \o Scaffold(family) : family \in Families})

-----------------------------------------------------------------------------
(* Commands that only look.                                                *)

\* The ledger may be missing; the runs are read by recover (see RunStoreReader),
\* which tells what is wrong with one, and the timestamps of the trusted ones.
ProjectStatus ==
  Project \o <<Consult(Ledger, {"GateLedger"}, {"invalid"}),
               Check(WithinRoots \cup {"os"})>>

\* check and inspect of a project, doctor with the configured adapters, status,
\* inspect of a contract.
OverviewCommands ==
  {Project \o <<Consult(Ledger, {"GateLedger"}, {"invalid"})>>,
   Project \o <<Check({"invalid"})>>, Project \o ProjectStatus}
  \cup OneOf(ContractKinds, {})

PdkAndComponentCommands ==
  OneOf({"PdkManifest"}, {}) \cup OneOf(ContractKinds, {"invalid"})

\* model inspect, validate, compare and build; build has --dry-run on by default
\* and no way to turn it off.
ModelCommands ==
  OneOf({"ModelCard"}, {}) \cup TwoOf({"ModelCard"}, {"ModelCard"}, {})

ModelIngest  == Derived("ModelCard", {})

ModelRelease == Derived("ModelCard", ReleasedModelCard)

LayoutCommands ==
  TwoOf({"LayoutManifest"}, {"LayoutManifest"}, {})
  \cup Derived("LayoutManifest", NormalizedLayout)

\* validate, compare, extract (with --dry-run on by default and no way to turn
\* it off) and backannotate.
NetlistCommands ==
  OneOf(ContractKinds, {"invalid"})
  \cup TwoOf(ContractKinds, {"ExtractedNetlist"}, {"invalid"})
  \cup OneOf({"LayoutManifest"}, {})
  \cup Derived("SimulationNetlist", Backannotated)

-----------------------------------------------------------------------------
(* Circuits.                                                               *)

\* validate_manifest: the structure, then the table of every component, unless
\* the structure is all that is asked; the manifest says which tables.
ValidateManifest ==
  UNION {Optionally({<<Read(Assembly, {family}, {"invalid"})>>},
                    {[i \in DOMAIN Tables(family) |->
                       Scan(Tables(family)[i], {"table"}, ComponentPath)]}) :
           family \in Families}

CheckedManifest ==
  {s \in ValidateManifest : \E i \in DOMAIN s : s[i].op = "scan"}

CircuitCommands == ValidateManifest

\* The composition, which may fail, then the rows, then the summary if one is
\* asked for.
ComposeCommand ==
  Optionally(CheckedManifest,
             Optionally({<<Overwrite(Matrix, "matrix")>>},
                        {<<Overwrite(Summary, "summary")>>}))

-----------------------------------------------------------------------------
(* Recipes.                                                                *)

\* list and inspect, the request and its evaluation: nothing but the request
\* file is read.
RecipeCommands == {<<>>, <<Check(RecipeChoice)>>}

\* What render does before it writes: --output needs --project-root.
EvaluateRequest == {<<Check(RecipeRequest \cup RenderedRecipe)>>}

\* atomic_create_text with checked_recipe_output as its guard, and the digest of
\* what is there then.
WriteArtifact ==
  {<<Create(Artifact, "artifact", RecipeOutput), Verify(Artifact)>>}

RenderCommand ==
  Optionally(EvaluateRequest,
             Optionally({Project \o <<Check(RecipeOutput)>>}, WriteArtifact))

-----------------------------------------------------------------------------
(* Solvers and optimization.                                               *)

SolverCommands ==
  {<<>>, Project \o <<Check(JavaBatchPlan)>>}

\* plan, inspect, promote, compare and suggest; run and resume have --dry-run on
\* by default and no way to turn it off, and plan as well.
OptimizeCommands ==
  OneOf({"OptimizationSpec"}, PlannedOptimization) \cup OneOf({"PromotionDecision"}, {})
  \cup TwoOf(ContractKinds, ContractKinds, {})
  \cup TwoOf({"OptimizationSpec"}, {"OptimizationTrial"}, SuggestedCandidate)

-----------------------------------------------------------------------------
(* Evidence and gates.                                                     *)

\* variation validate; package, testplan, tapeout and measurement inspect.
EvidenceCommands ==
  UNION {OneOf({kind}, {}) : kind \in
    {"StatisticalVariationModel", "PackagingConstraint", "TestPlan",
     "TapeoutManifest", "MeasurementManifest"}}

\* enforce_tapeout_mutable refuses a manifest that is frozen; nothing asks what
\* the output is.
TapeoutFreeze == Derived("TapeoutManifest", {"security", "invalid"})

\* The metrics, the evidence and its digests, then the ledger (see GateLedger).
GateCommands ==
  {Project \o <<Consult(Ledger, {"GateLedger"}, {"invalid"})>>}
  \cup Optionally(
    {Project \o <<Consult(Ledger, {"GateLedger"}, {"invalid", "security"})>>},
    {<<Replace(Ledger, "GateLedger")>>})

\* initialize creates the record; list and inspect read it; record and evaluate
\* read it, with the evidence, and replace it (see BackendAdoption).
AdoptionCommands ==
  Optionally({Project},
             {<<Create(Adoption, "BackendAdoptionGate", {})>>})
  \cup {Project \o <<Consult(Adoption, {"BackendAdoptionGate"}, {})>>}
  \cup Optionally(
    {Project \o <<Read(Adoption, {"BackendAdoptionGate"}, {"invalid", "security"})>>},
    {<<Replace(Adoption, "BackendAdoptionGate")>>})

-----------------------------------------------------------------------------
(* Audit and MATLAB.                                                       *)

\* With --fail-on-issues the findings are told, and then the exit code is that
\* of a security violation.
AuditAndReportCommands ==
  {<<Check({"security"} \cup AuditedArtifacts)>>,
   Project \o ProjectStatus}

\* check exits with unavailable if it found no available MATLAB; doctor, products,
\* toolboxes, sessions (which refuses nothing) and inspect.
MatlabProbes ==
  {<<Check({"unavailable"} \cup MatlabEnvironment)>>, <<Check(MatlabEnvironment)>>,
   <<>>, <<Check(MatlabResult)>>}

\* plan, and run without --execute, tell the plan; with --execute the adapter
\* has no execute of its own.  test exits with unavailable.
MatlabRuns ==
  Optionally(Then({Project}, OneOf({"MatlabRunSpec"}, MatlabPlan)),
             {<<Fail("unavailable")>>})
  \cup {<<Fail("unavailable")>>}

AllCommands ==
  CreateProjectScaffold \cup OverviewCommands \cup PdkAndComponentCommands
  \cup ModelCommands \cup ModelIngest \cup ModelRelease \cup LayoutCommands
  \cup NetlistCommands \cup CircuitCommands \cup ComposeCommand
  \cup RecipeCommands \cup RenderCommand \cup SolverCommands \cup OptimizeCommands
  \cup EvidenceCommands \cup TapeoutFreeze \cup GateCommands \cup AdoptionCommands
  \cup AuditAndReportCommands \cup MatlabProbes \cup MatlabRuns
=============================================================================
