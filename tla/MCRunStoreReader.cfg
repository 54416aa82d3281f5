\* One call at a time, in every interleaving with a writer that is interrupted
\* once.  Seven events are enough for an interrupted judgement, an update whose
\* checkpoint takes it in, and a further judgement while inspect reads.
SPECIFICATION StatusSpec
CONSTANTS
  good = good
  bad = bad
  Artifacts = {}
  Results <- MCJustGood
  Passing <- MCPassing
  MaxArtifacts = 0
  MaxProvenance = 1
  MaxEvents = 7
  MaxInterrupts = 1
INVARIANT QuietReportIsExact
INVARIANT TrustedInspectIsEarned
