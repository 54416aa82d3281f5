------------------------------- MODULE Services -------------------------------
(***************************************************************************)
(* What the services under the two front ends may refuse.  They compute in *)
(* memory from arguments, environment and file contents, and all that the  *)
(* front ends see of them is a result or the class of an exception; a      *)
(* definition here is the set of the classes that can come out of the code *)
(* it stands for, or the step it takes on a file.  Which file contents     *)
(* lead to which of them is in Circuits, GateLedger, BackendAdoption and   *)
(* Search, for the parts where that matters.                               *)
(***************************************************************************)
EXTENDS Steps

PhotonicToml == "photonic.toml"

-----------------------------------------------------------------------------
(* Paths, labels and the configuration of a project.                       *)

\* ensure_within_allowed_roots; resolve() of a name with a NUL is a ValueError.
WithinRoots == {"security", "invalid"}

\* validate_safe_label and the identifiers: no separators, no reserved names.
SafeLabel == {"security"}

\* The allowed roots of photonic.toml, which have to contain the project root.
ResolvedAllowedRoots == WithinRoots

\* load_project_config, TOML and contract; _project asks for the roots next.
LoadProjectConfig == Read(PhotonicToml, {"ProjectConfig"}, ResolvedAllowedRoots)

\* make_project_config: the validation of the ProjectConfig.
MakeProjectConfig == {"invalid"}

\* The TOML of the configuration, over whatever is there.
WriteProjectConfig == Replace(PhotonicToml, "ProjectConfig")

-----------------------------------------------------------------------------
(* Recipes.                                                                *)

\* Size, UTF-8, JSON without duplicate keys or constants, the four root keys, the
\* schema version, the depth of the parameters.
RecipeRequest == {"invalid", "version", "os"}

\* The id and, where one is asked for, the version of a recipe.
RecipeChoice == {"invalid", "version"}

\* ParameterSpec.validate_value and the sets of required and known fields.
ParameterContract == {"invalid"}

\* The evaluator of the recipe and a JSON object as its output.
RecipeEvaluation == RecipeChoice \cup ParameterContract

\* A fresh evaluation has to give the output that is rendered.
JavaFragment == {"invalid"}

\* Renderer and instance id have to fit the recipe and each other.
RenderedRecipe == RecipeEvaluation \cup JavaFragment

\* checked_recipe_output: below the root and over no link; lstat of a component
\* that has just been removed is an OSError.
RecipeOutput == WithinRoots \cup {"os"}

-----------------------------------------------------------------------------
(* Models, layouts, netlists, tables.                                      *)

\* release_model_card: what validate_model_card asks, then the contract again.
ReleasedModelCard == {"invalid"}

NormalizedLayout == {"invalid"}

\* Unknown instances, lengths that are not positive.  The lengths are a JSON file
\* that the command reads; float() of a list is a TypeError.
Backannotated == {"invalid", "os", "unlisted"}

\* resolve_component_path: under the manifest's directory or the read roots.
ComponentPath == WithinRoots

\* parse_table: rows of four finite columns, one per wavelength, at least one.
SweepTable == {"invalid", "os"}

\* The threshold of summary_structured.
SweepSummary == {"invalid"}

\* write_csv: open("w") and the rows.
WriteCsv(path) == Overwrite(path, "sweep")

-----------------------------------------------------------------------------
(* Plans.                                                                  *)

\* Four paths, three suffixes, the timeout.
JavaBatchPlan == WithinRoots \cup {"invalid"}

PlannedOptimization == {"invalid"}

\* _configuration and what suggest_candidate asks of the history (see Search).
SuggestedCandidate == {"invalid"}

-----------------------------------------------------------------------------
(* MATLAB.                                                                 *)

\* Product records, unique names, booleans and statuses of an inventory file.
ProductInventory == {"invalid", "os"}

\* Aliases, paths and fingerprints of the community toolboxes.
CommunityRecords == {"invalid"} \cup SafeLabel \cup WithinRoots

\* check: whatever goes wrong with the Engine for Python is one of the reasons it
\* tells, not a refusal.
MatlabEnvironment == ProductInventory \cup CommunityRecords

\* plan: entry point, operation, dry run, workers, paths, the packaged wrapper,
\* and the environment at last.
MatlabPlan == {"unavailable"} \cup SafeLabel \cup WithinRoots \cup MatlabEnvironment

\* A result file: the contract, the exit code that fits the status, relative
\* paths, unique artifacts.
MatlabResult == {"invalid", "version", "os"}

-----------------------------------------------------------------------------
(* Audit.                                                                  *)

\* A file that cannot be read is passed over; one that is removed between
\* is_file and stat is an OSError.
AuditedArtifacts == {"os"}
=============================================================================
