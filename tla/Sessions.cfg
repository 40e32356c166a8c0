SPECIFICATION FairSpec
CONSTANTS
  Requests = {r1, r2}
  Users = {u1, u2}
  NoUser = NoUser
  Conns = {k1, k2, k3}
  NoConn = NoConn
  Kinds = {"plain", "gated", "deletion", "probe"}
  Verifier = "secret"
  MaxStatements = 2
  MaxExpiries = 1
INVARIANTS ConnectionsKept OwnRowsOnly
PROPERTY RequestsEnd
