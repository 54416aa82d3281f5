-------------------------------- MODULE Steps --------------------------------
(***************************************************************************)
(* What a command of the command line, or a tool of the MCP server, does   *)
(* with the files of a project: a program, the sequence of the steps that  *)
(* touch a file or that may refuse the request.  The programs themselves   *)
(* are in Commands and McpTools, what a step does is in FrontEnds.         *)
(*                                                                         *)
(* A step says which file it is about, which kinds of content it accepts   *)
(* or writes, and for which reasons it may refuse apart from what it finds *)
(* in the file: what it computes from arguments, environment and contents. *)
(***************************************************************************)
EXTENDS Sequences

\* Why a request is refused.  "invalid" is InvalidInputError, AssemblyError and
\* whatever else is a ValueError; "os" an OSError; "security", "version" and
\* "unavailable" the other classes of exceptions.py that these programs raise;
\* "mcp" an McpError; "unlisted" an exception that main does not name.
Refusals == {"invalid", "os", "security", "version", "unavailable", "mcp", "unlisted"}

Reads  == {"read", "consult", "scan"}
Writes == {"replace", "create", "overwrite"}
Ops    == Reads \cup Writes \cup {"check", "fail", "fresh", "verify"}

NoFile == "no file"

\* A file that has to be there, whole, and of one of these kinds; `reasons` are
\* those for which what was read, or what is made of it in memory, is refused.
Read(path, kinds, reasons) ==
  [op |-> "read", path |-> path, kinds |-> kinds, may |-> reasons \cup {"os"}]

\* The same of a file that may also be missing.
Consult(path, kinds, reasons) ==
  [op |-> "consult", path |-> path, kinds |-> kinds, may |-> reasons \cup {"os"}]

\* A table: half of one may pass for a table.
Scan(path, kinds, reasons) ==
  [op |-> "scan", path |-> path, kinds |-> kinds, may |-> reasons \cup {"os"}]

\* atomic_write_text: a temporary file, flushed, takes the name of the target.
Replace(path, kind) ==
  [op |-> "replace", path |-> path, kinds |-> {kind}, may |-> {"os"}]

\* atomic_create_text: the temporary file is linked to the name of the target,
\* which fails if the name is taken; `may` holds what the path guard raises,
\* and it is empty for a call that passes no guard.
Create(path, kind, guard) ==
  [op |-> "create", path |-> path, kinds |-> {kind}, may |-> guard]

\* open("w") and write, or copyfile: the target is truncated, then filled.
Overwrite(path, kind) ==
  [op |-> "overwrite", path |-> path, kinds |-> {kind}, may |-> {"os"}]

\* Arguments and environment, before any file is read.
Check(reasons) == [op |-> "check", path |-> NoFile, kinds |-> {}, may |-> reasons]

\* A command that cannot do what it is asked for.
Fail(reason) == [op |-> "fail", path |-> NoFile, kinds |-> {}, may |-> {reason}]

\* The exists() that create_project_scaffold asks before it writes anything.
Fresh(path) == [op |-> "fresh", path |-> path, kinds |-> {}, may |-> {}]

\* sha256_file of a written file against the digest of what was rendered.
Verify(path) == [op |-> "verify", path |-> path, kinds |-> {}, may |-> {}]

-----------------------------------------------------------------------------
(* Programs and sets of programs.                                          *)

WrittenBy(steps) ==
  {steps[i].path : i \in {j \in DOMAIN steps : steps[j].op \in Writes}}

Then(first, second) == {s \o t : s \in first, t \in second}

\* --dry-run, or an option that is not given, leaves out what comes after.
Optionally(first, second) == first \cup Then(first, second)
=============================================================================
