\* One run directory, up to five log lines.
SPECIFICATION Spec
CONSTANTS
  a1 = a1
  a2 = a2
  good = good
  bad = bad
  Artifacts <- MCArtifacts
  Results <- MCResults
  Passing <- MCPassing
  MaxArtifacts = 2
  MaxProvenance = 1
  MaxEvents = 5
  MaxInterrupts = 2
\* The bounds of the model stop the writer, and callers may stop calling.
CHECK_DEADLOCK FALSE
INVARIANT CompletedUpdateIsRecoverable
INVARIANT UninterruptedLogIsComplete
INVARIANT NoTrustInOldVerdict
PROPERTY LifecycleImplemented
PROPERTY RejudgingHeals
PROPERTY ArtifactTearIsPermanent
