SPECIFICATION FairSpec
CONSTANTS
  Uids = {a1, a2}
  Handlers = {h1, h2}
  LinkTtl = 0
  AccessTtl = 1
  MaxTime = 1
  MaxLinks = 1
INVARIANTS GoneIsGone
PROPERTIES ImplementsErasure LinkSparesSuccessor HalfErasedEnds
CHECK_DEADLOCK FALSE
