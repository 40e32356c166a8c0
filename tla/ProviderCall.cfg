SPECIFICATION Spec
CONSTANTS
  Calls = {c1, c2}
  Ops = {"explain", "generate", "suggest"}
  Words = {w1, w2}
  Cards = {k1, k2}
  Vendors = {"groq", "gemini", "fake"}
  Faults = {"limit", "connection", "request"}
  Permits = 1
  MaxAttempts = 2
INVARIANTS SpanTellsOwnCall AnswersTellFaults NotesPaidAndShared
PROPERTY LostToOverlapOnly
ACTION_CONSTRAINT OneVendorsCards
SYMMETRY Symmetry
