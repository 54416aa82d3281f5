\* An interrupted update followed by a complete one.
SPECIFICATION Spec
CONSTANTS
  a1 = a1
  a2 = a2
  good = good
  bad = bad
  Artifacts <- MCArtifacts
  Results <- MCResults
  Passing <- MCPassing
  MaxArtifacts = 0
  MaxProvenance = 1
  MaxEvents = 3
  MaxInterrupts = 1
\* The bounds of the model stop the writer, and callers may stop calling.
CHECK_DEADLOCK FALSE
INVARIANT RecoverableStateIsLogged
