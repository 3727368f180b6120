SPECIFICATION Spec
CONSTANTS
  Cards = {c1, c2, c3}
  NoCard = NoCard
  Cap = 3
  LastNode = 3
  MaxMock = 4
INVARIANTS TypeOK QuietWalkIsExact SailsFollowIndices FailureHasCause LinksJoinSails
PROPERTIES WalkEnds WalkIsBounded
