\* A reader beside a writer that is never interrupted.
SPECIFICATION StatusSpec
CONSTANTS
  good = good
  bad = bad
  Artifacts = {}
  Results <- MCResults
  Passing <- MCPassing
  MaxArtifacts = 0
  MaxProvenance = 0
  MaxEvents = 5
  MaxInterrupts = 0
INVARIANT TrustedLatestIsEarned
