SPECIFICATION Spec
CONSTANTS
  None = None
  Word <- MCWord
  Marker <- MCMarker
  Promotion = "promote"
  Requests = {r1, r2}
  Texts <- MCTexts
  Classifications <- MCClassifications
  Histories <- MCHistories
  HistoryLimit = 100
  MaxMessages = 5
SYMMETRY Interchangeable
INVARIANTS OneGenerationPerKey ConversationIsWhole BriefsAreStated NothingForgotten
