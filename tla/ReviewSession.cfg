SPECIFICATION TabFairSpec
CONSTANTS
  Deck = {c1, c2, c3}
  Settings <- MCSettings
  Garbage = Garbage
  DefaultNew = 1
  DefaultTotal = 1
  Posts = {p1}
  MaxDue = 3
PROPERTIES WalkIsFaithful QueueDrains
