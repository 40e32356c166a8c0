SPECIFICATION Spec
CONSTANTS
  Handlers = {h1, h2}
  MaxRequests = 4
  Keys = {"new", "total", "count"}
  Saves <- MCSaves
  Bounds <- MCBounds
  Names <- MCNames
  Folded <- MCFolded
  Unset = Unset
  Text = Text
  Untouched = Untouched
  NoRow = NoRow
INVARIANTS LimitsOrdered SavesAreWhole NoTwins
PROPERTY ReAddKeepsLevel
CHECK_DEADLOCK FALSE
