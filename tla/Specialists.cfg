SPECIFICATION Spec
CONSTANTS
  None = None
  Word <- MCWord
  Marker <- MCMarker
  Promotion = "promote"
  GoalMarked <- MCGoalMarked
  ActionMarked <- MCActionMarked
  BusinessTypes <- MCBusinessTypes
  DeclaresProduct <- MCDeclaresProduct
  DeclaresBusiness <- MCDeclaresBusiness
  Inside <- MCInside
  Fact <- MCFact
  Term <- MCTerm
  Assumed <- MCAssumed
  Segment <- MCSegment
  Claim <- MCClaim
  NoClaim = "none"
  Conjunction <- MCConjunction
  Token <- MCToken
  Size <- MCSize
  Figure <- MCFigure
  Capital <- MCCapital
  Drifted = "c0"
  Scaffold <- MCScaffold
  Inputs <- MCInputs
  Answers <- MCAnswers
INVARIANTS BriefIsSound StrategyIsSound CreativeIsSound ProductionGoesOn GatesAreExact
  ApprovedAsSeen FindingsAreActedOn CompositionIsSound
CHECK_DEADLOCK FALSE
