------------------------------- MODULE McpTools -------------------------------
(***************************************************************************)
(* The tools of the MCP server (mcp/server.py, tool_call) as programs of   *)
(* steps (see Steps).  Paths are checked against the read or write roots   *)
(* of the server, not those of the project.                                *)
(***************************************************************************)
EXTENDS Commands

\* _validate_tool_arguments: name, keys and JSON types; float() of an integer that
\* is too large is an OverflowError.
ToolArguments == {"mcp", "unlisted"}

\* _read_path, and _write_path, which refuses too if no root is writable; most
\* tools begin with one of them.
ReadPath  == <<Check(ToolArguments \cup WithinRoots)>>
WritePath == <<Check(ToolArguments \cup WithinRoots \cup {"mcp"})>>

\* resources/read: an unknown URI, a link out of the skill, bytes that are not
\* UTF-8.
ResourceRequests == {<<>>, <<Check({"mcp", "os"} \cup WithinRoots)>>}

\* The request and the output have to be absolute; the output is checked again
\* against the links on its way, and the request is evaluated, before anything
\* is written.
RenderRecipeTool ==
  Then({WritePath \o <<Check(RecipeOutput \cup RecipeRequest \cup RenderedRecipe)>>},
       WriteArtifact)

\* Two tables, one after the other.
ParseSweepTool ==
  {WritePath \o <<Check(SafeLabel \cup SweepTable \cup SweepSummary \cup WithinRoots),
                  WriteCsv("summary.csv"), WriteCsv("trace.csv")>>}

ScaffoldTool ==
  {WritePath \o <<Check(SafeLabel \cup MakeProjectConfig), Fresh(PhotonicToml)>>
     \o Scaffold(f) : f \in Families}

\* list_recipes, list_allowed_roots, inspect_recipe, audit_project_artifacts,
\* gate_status, inspect_project, validate_contract and validate_circuit.
LookingTools ==
  {<<Check(ToolArguments)>>, <<Check(ToolArguments \cup RecipeChoice)>>,
   ReadPath \o <<Check(AuditedArtifacts)>>,
   ReadPath \o <<Consult(Ledger, {"GateLedger"}, {"invalid"})>>,
   ReadPath \o ProjectStatus}
  \cup Then({ReadPath}, OneOf(ContractKinds, {}))
  \cup Then({ReadPath}, ValidateManifest)

\* The paths of the manifest and the matrix are checked first; that of the
\* summary is checked when the matrix has been written.
ComposeTool ==
  Then({WritePath}, Then(CheckedManifest,
    Optionally({<<Overwrite(Matrix, "matrix")>>},
               {WritePath \o <<Overwrite(Summary, "summary")>>})))

\* A plan; arguments that ask for execution are refused.
JavaBatchTool ==
  {WritePath \o <<Check(JavaBatchPlan)>>}

AllTools ==
  RenderRecipeTool \cup ParseSweepTool \cup ScaffoldTool \cup LookingTools
  \cup ComposeTool \cup JavaBatchTool \cup ResourceRequests
=============================================================================
