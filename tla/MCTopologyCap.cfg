SPECIFICATION Spec
CONSTANTS
  Cards = {c1, c2, c3}
  NoCard = NoCard
  Cap = 2
  LastNode = 2
  MaxMock = 0
INVARIANT StopsAtFirstGap
