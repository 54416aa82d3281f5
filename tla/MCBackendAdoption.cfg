\* Four calls, in every interleaving with each other and with the files.
SPECIFICATION Spec
CONSTANTS
  k1 = k1
  k2 = k2
  f1 = f1
  f2 = f2
  w1 = w1
  w2 = w2
  Checks <- MCChecks
  Files <- MCFiles
  Writers <- MCWriters
  MaxEdits = 1
  MaxCalls = 4
\* The bounds of the model stop the callers, and nobody has to call.
CHECK_DEADLOCK FALSE
INVARIANT LoadedEvidenceWasSeen
INVARIANT RecordedEvidenceExisted
PROPERTY TurnsImplementGate
PROPERTY NeverReset
