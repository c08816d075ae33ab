SPECIFICATION FairSpec
CONSTANTS
  Anchorers = {p1, p2}
  MaxSeq = 5
INVARIANTS
  NoBlockSkipped
  AnchorsRecompute
  EveryProofVerifies
  RootCommits
PROPERTIES
  EveryBlockAnchored
