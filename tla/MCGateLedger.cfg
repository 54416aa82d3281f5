\* Two updates, in every interleaving with each other and with a summary.
SPECIFICATION Spec
CONSTANTS
  G0 = G0
  G2 = G2
  k1 = k1
  k2 = k2
  f1 = f1
  c1 = c1
  c2 = c2
  w1 = w1
  w2 = w2
  Gates <- MCGates
  Requires <- MCRequires
  AllowsNA <- MCAllowsNA
  Files <- MCFiles
  Contents <- MCContents
  Writers <- MCWriters
  MaxEdits = 2
  MaxUpdates = 2
SYMMETRY MCSymmetry
INVARIANT EvidenceWasThere
INVARIANT SerialUpdatesAreKept
INVARIANT VerifiedEvidenceWasSeen
INVARIANT OneContentPerSummary
INVARIANT QuietSummaryIsExact
