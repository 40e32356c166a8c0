SPECIFICATION FairSpec
CONSTANTS
  c1 = c1
  c2 = c2
  Handlers = {h1, h2}
  Cards = {c1, c2}
  Ratings = {1, 4}
  LevelDelta <- MCLevelDelta
  LevelMax = 2400
  LevelWindow = 400
  Production = {c1}
  GenLevel <- MCGenLevel
  NoLevel = NoLevel
  Overrides = {800, 2800}
  MaxGrades = 3
INVARIANTS SameCardSerial LatestGradeCounts ScheduleFromLog
PROPERTY EveryGradeEnds
CHECK_DEADLOCK FALSE
