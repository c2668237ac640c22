SPECIFICATION FairSpec
CONSTANTS
  None = None
  a = a
  A = A
  ab = ab
  b = b
  Text <- MCText
  Normalized <- MCNormalized
  Within <- MCWithin
  Requests = {r1, r2}
  InitialBriefs <- MCInitialBriefs
  Extractions <- MCExtractions
  Candidates <- MCCandidates
  MaxTurns = 2
INVARIANTS StatusTellsTruth TurnsAreKept
PROPERTIES BriefChangeOutdatesPlan EveryRequestEnds
