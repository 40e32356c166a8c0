SPECIFICATION Spec
CONSTANTS
  Slots = {s1, s2, s3}
  Users = {u1}
  Verified = {u1}
  Routes = {"generate"}
  GlobalBudget = 1
  KindMax = 3
  KindDefault = 3
  Day0Cap = 3
  ServerMax <- MCServerMax
  ServerDefault <- MCServerDefault
  FirstDay <- MCFirstDay
  Overrides = {}
  Unset = Unset
  MaxConcurrency = 1
  MaxAttempts = 2
  MaxDay = 0
  MaxRestarts = 0
SYMMETRY SlotSymmetry
INVARIANT OvershootWithinConcurrency
