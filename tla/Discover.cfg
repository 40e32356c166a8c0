SPECIFICATION LearnerSpec
CONSTANTS
  Handlers = {h1, h2}
  Keys = {k1, k2, k3}
  Surfaces = {"casa", "Casa", "casa blanca"}
  Folded <- MCFolded
  Parts <- MCParts
  Blank = Blank
  Count = 1
  RawAnswers <- MCRawAnswers
  RawCards <- MCRawCards
  Ttl = 2
  MaxEntries = 2
  MaxTime = 2
  MaxAsks = 4
SYMMETRY SomeSymmetry
INVARIANT PreviewsHold
PROPERTY ImplementsReuseWindow
CHECK_DEADLOCK FALSE
