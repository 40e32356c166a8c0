SPECIFICATION StoreFairSpec
CONSTANTS
  v1 = v1
  v2 = v2
  v3 = v3
  Callers = {c1, c2}
  Versions <- MCVersions
  Content <- MCContent
  Row <- MCRow
  EnvDefault = FALSE
  Defaults = Defaults
  Nothing = Nothing
  Ttl = 2
  ReadTicks = 1
INVARIANTS NotTorn
PROPERTIES ServedInTime WaitersGetOn
