SPECIFICATION FairSpec
CONSTANTS
  Slots = {s1, s2}
  Users = {u1}
  Verified = {u1}
  Routes = {"explain", "generate"}
  GlobalBudget = 1
  KindMax = 2
  KindDefault = 2
  Day0Cap = 1
  ServerMax <- MCServerMax
  ServerDefault <- MCServerDefault
  FirstDay <- MCFirstDay
  Overrides = {}
  Unset = Unset
  MaxConcurrency = 1
  MaxAttempts = 2
  MaxDay = 1
  MaxRestarts = 1
INVARIANTS PermitsConserved BooksAreInOrder
PROPERTIES CountedOnDayRead BudgetIsMetered CapIsMetered EveryRequestEnds KillSwitchHolds
