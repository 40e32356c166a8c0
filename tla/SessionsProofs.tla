--------------------------- MODULE SessionsProofs ---------------------------
(* Whose rows a statement sees and where connections are, for every number *)
(* of requests, users and connections.                                     *)
EXTENDS Sessions, TLAPS

(* A request on its way has an identity, saw nobody else's rows, and has a *)
(* statement left when it works.                                           *)
Fits(rec) ==
  /\ rec.pc \in {"idle", "token"} => rec.held = NoConns /\ rec.saw = {}
  /\ rec.pc \notin {"idle", "token", "ping", "close"} => rec.user \in Users
  /\ rec.saw \subseteq {rec.user}
  /\ rec.pc = "work" \/ (rec.pc = "token" /\ rec.kind = "plain") => rec.left > 0

SessionsInv == /\ TypeOK
               /\ ConnectionsKept
               /\ \A r \in Requests : Fits(req[r])

LEMMA IdleFits == Idle \in Request /\ Fits(Idle) /\ Idle.held = NoConns
<1>1. NoConns \in [Slots -> Conns \cup {NoConn}]
  BY DEF NoConns
<1> HIDE DEF NoConns
<1>2. QED
  BY <1>1, SessionsAssumption DEF Idle, Request, Stages, Querying, AllKinds, Fits

LEMMA SessionsInit == Init => SessionsInv
<1> SUFFICES ASSUME Init PROVE SessionsInv
  OBVIOUS
<1>1. TypeOK
  BY IdleFits, SessionsAssumption DEF Init, TypeOK, Privileged
<1>2. \A r \in Requests : Fits(req[r]) /\ req[r].held = NoConns
  BY IdleFits DEF Init
<1>3. ConnectionsKept
  BY <1>2 DEF Init, ConnectionsKept, LentOnce, IdentityKept, NoConns, Free
<1>4. QED
  BY <1>1, <1>2, <1>3 DEF SessionsInv

(* What a request gives back is as it came, and nobody else had it: every  *)
(* step but a checkout gives back the connections of some sessions, or of  *)
(* none, and keeps those of the others for the same user.                  *)
LEMMA Release ==
  ASSUME SessionsInv, NEW r \in Requests, NEW slots \in SUBSET Slots,
         NEW rec \in Request, Fits(rec), Become(r, rec),
         rec.held = Without(slots, r), conn' = Reset(slots, r),
         rec.user = req[r].user \/ rec.held = NoConns,
         lock' \in Requests \cup {"nobody"}, expired' \in BOOLEAN, expiries' \in 0 .. MaxExpiries
  PROVE  SessionsInv'
<1>1. /\ req' \in [Requests -> Request]
      /\ req'[r] = rec
      /\ \A o \in Requests \ {r} : req'[o] = req[o]
  BY DEF SessionsInv, TypeOK, Become
<1>2. conn' \in [Conns -> [role : {"postgres", "authenticated"}, sub : Users \cup {NoUser}]]
  BY DEF SessionsInv, TypeOK, Reset, Privileged
<1>3. TypeOK'
  BY <1>1, <1>2 DEF TypeOK
<1>4. \A o \in Requests : Fits(req[o])'
  BY <1>1 DEF SessionsInv, Fits
<1>5. \A s \in Slots : req'[r].held[s] = IF s \in slots THEN NoConn ELSE req[r].held[s]
  BY <1>1 DEF Without
<1>6. \A o \in Requests, s \in Slots : req'[o].held[s] # NoConn =>
        /\ req'[o].held[s] = req[o].held[s]
        /\ o = r => s \notin slots
  BY <1>1, <1>5
<1>7. LentOnce'
  <2>1. \A r1, r2 \in Requests, s1, s2 \in Slots :
          req'[r1].held[s1] = req'[r2].held[s2] /\ req'[r1].held[s1] # NoConn
            => r1 = r2 /\ s1 = s2
    BY <1>6 DEF SessionsInv, ConnectionsKept, LentOnce
  <2>2. \A o \in Requests : req'[o].pc \in {"idle", "token"} => req'[o].held = NoConns
    BY <1>4 DEF Fits, NoConns
  <2>3. QED
    BY <2>1, <2>2 DEF LentOnce
<1>8. \A k \in Conns : conn'[k] = IF \E s \in slots : k = req[r].held[s] THEN Privileged ELSE conn[k]
  BY DEF Reset
<1>9. \A o \in Requests, s \in Slots : req'[o].held[s] # NoConn => conn'[req'[o].held[s]] = conn[req[o].held[s]]
  <2> SUFFICES ASSUME NEW o \in Requests, NEW s \in Slots, req'[o].held[s] # NoConn
               PROVE  conn'[req'[o].held[s]] = conn[req[o].held[s]]
    OBVIOUS
  <2>1. req[o].held[s] \in Conns
    BY <1>6 DEF SessionsInv, TypeOK, Request
  <2>2. \A t \in slots : req[r].held[t] # req[o].held[s]
    BY <1>6, <2>1, SessionsAssumption DEF SessionsInv, ConnectionsKept, LentOnce
  <2>3. QED
    BY <1>6, <1>8, <2>1, <2>2
<1>10. \A o \in Requests, s \in Slots : req'[o].held[s] # NoConn => req'[o].user = req[o].user
  BY <1>1 DEF NoConns
<1>11. \A k \in Conns : conn'[k] = Privileged \/ (conn'[k] = conn[k] /\ \A s \in slots : k # req[r].held[s])
  BY <1>8
<1>12. \A k \in Free' : conn'[k] = Privileged
  <2> SUFFICES ASSUME NEW k \in Free' PROVE conn'[k] = Privileged
    OBVIOUS
  <2>1. k \in Conns /\ \A o \in Requests, s \in Slots : k # req'[o].held[s]
    BY SessionsAssumption DEF Free, Held
  <2>2. CASE \A s \in slots : k # req[r].held[s]
    <3>1. \A o \in Requests, s \in Slots : k # req[o].held[s]
      BY <2>1, <2>2, <1>1, <1>5
    <3>2. k \in Free
      BY <2>1, <3>1 DEF Free, Held
    <3>3. QED
      BY <2>1, <3>2, <1>11 DEF SessionsInv, ConnectionsKept, IdentityKept
  <2>3. QED
    BY <2>1, <2>2, <1>11
<1>13. IdentityKept'
  BY <1>6, <1>9, <1>10, <1>12 DEF SessionsInv, ConnectionsKept, IdentityKept, BoundTo
<1>14. QED
  BY <1>3, <1>4, <1>7, <1>13 DEF SessionsInv, ConnectionsKept

(* Steps that give nothing back.                                           *)
LEMMA Keep ==
  ASSUME SessionsInv, NEW r \in Requests,
         NEW rec \in Request, Fits(rec), Become(r, rec), conn' = conn,
         rec.held = req[r].held, rec.user = req[r].user \/ rec.held = NoConns,
         lock' \in Requests \cup {"nobody"}, expired' \in BOOLEAN, expiries' \in 0 .. MaxExpiries
  PROVE  SessionsInv'
<1>1. conn' = Reset({}, r)
  BY DEF SessionsInv, TypeOK, Reset
<1>2. rec.held = Without({}, r)
  BY DEF SessionsInv, TypeOK, Request, Without
<1>3. QED
  BY <1>1, <1>2, Release

LEMMA ReqTyped == SessionsInv => /\ \A r \in Requests : req[r] \in Request /\ Fits(req[r])
                                 /\ lock \in Requests \cup {"nobody"}
                                 /\ expired \in BOOLEAN /\ expiries \in 0 .. MaxExpiries
  BY DEF SessionsInv, TypeOK

(* The stages of a request that has an identity.                           *)
Named == {"prompts", "provider", "identity", "work", "cap", "save", "budget", "record",
          "purge", "warm"}
Onward == (Named \ {"work"}) \cup {"close"}

LEMMA MovedFits ==
  ASSUME NEW rec \in Request, Fits(rec), NEW stage \in Onward,
         rec.pc \in Named \/ (stage = "close" /\ rec.pc = "ping")
  PROVE  LET next == [rec EXCEPT !.pc = stage]
         IN  /\ next \in Request /\ Fits(next)
             /\ next.held = rec.held /\ next.user = rec.user
BY DEF Fits, Request, Stages, Querying, Named, Onward

(* A step to the next stage, or to the end.                                *)
LEMMA GotoStep ==
  ASSUME SessionsInv, NEW r \in Requests, NEW stage \in Onward,
         req[r].pc \in Named \/ (stage = "close" /\ req[r].pc = "ping"),
         Goto(r, stage), conn' = conn,
         lock' \in Requests \cup {"nobody"}, expired' \in BOOLEAN, expiries' \in 0 .. MaxExpiries
  PROVE  SessionsInv'
<1> DEFINE next == [req[r] EXCEPT !.pc = stage]
<1>1. /\ next \in Request /\ Fits(next)
      /\ next.held = req[r].held /\ next.user = req[r].user
  BY ReqTyped, MovedFits
<1>2. Become(r, next)
  BY DEF Goto
<1> HIDE DEF next
<1>3. QED
  BY <1>1, <1>2, Keep

LEMMA GiveBackStep ==
  ASSUME SessionsInv, NEW r \in Requests, NEW slots \in SUBSET Slots,
         NEW stage \in Onward,
         req[r].pc \in Named \/ (stage = "close" /\ req[r].pc = "ping"),
         GiveBack(r, slots, stage),
         lock' \in Requests \cup {"nobody"}, expired' \in BOOLEAN, expiries' \in 0 .. MaxExpiries
  PROVE  SessionsInv'
<1> DEFINE held == Without(slots, r)
           next == [req[r] EXCEPT !.held = held, !.pc = stage]
<1>1. held \in [Slots -> Conns \cup {NoConn}]
  BY ReqTyped DEF Request, Without
<1>2. Become(r, next) /\ conn' = Reset(slots, r)
  BY DEF GiveBack
<1> HIDE DEF held
<1>3. /\ next \in Request /\ Fits(next)
      /\ next.held = held /\ next.user = req[r].user
  BY <1>1, ReqTyped DEF Fits, Request, Stages, Querying, Named, Onward
<1> HIDE DEF next
<1>4. QED
  BY <1>2, <1>3, Release DEF held
-----------------------------------------------------------------------------
LEMMA ArriveStep ==
  ASSUME SessionsInv, NEW r \in Requests, NEW kind \in Kinds, Arrive(r, kind)
  PROVE  SessionsInv'
<1> DEFINE stage == IF kind = "probe" THEN "ping" ELSE "token"
           left  == IF kind = "plain" THEN MaxStatements ELSE 0
           next  == [Idle EXCEPT !.kind = kind, !.pc = stage, !.left = left]
<1>1. Become(r, next) /\ UNCHANGED <<conn, prompts>>
  BY DEF Arrive
<1>2. /\ stage \in {"ping", "token"} /\ kind \in AllKinds
      /\ left \in 0 .. MaxStatements /\ (kind = "plain" => left > 0)
  BY SessionsAssumption
<1> HIDE DEF stage, left
<1>3. /\ next \in Request /\ Fits(next)
      /\ next.held = NoConns /\ next.user = NoUser
  <2>1. NoConns \in [Slots -> Conns \cup {NoConn}]
    BY DEF NoConns
  <2> HIDE DEF NoConns
  <2>2. QED
    BY <1>2, <2>1 DEF Idle, Request, Stages, Querying, Fits
<1>4. req[r].held = NoConns
  BY ReqTyped DEF Arrive, At, Fits
<1> HIDE DEF next
<1>5. QED
  BY <1>1, <1>3, <1>4, ReqTyped, Keep DEF prompts

LEMMA AuthenticateStep ==
  ASSUME SessionsInv, NEW r \in Requests, NEW t \in Tokens, Authenticate(r, t)
  PROVE  SessionsInv'
<1> DEFINE user == IdentityOf(t)
           stage == FirstStage(req[r].kind)
           next == [req[r] EXCEPT !.user = user, !.pc = stage]
<1>1. /\ req[r] \in Request /\ req[r].held = NoConns /\ req[r].saw = {} /\ req[r].pc = "token"
      /\ req[r].kind = "plain" => req[r].left > 0
  BY ReqTyped DEF Authenticate, At, Fits
<1>2. UNCHANGED <<conn, lock, expired, expiries>>
  BY DEF Authenticate, prompts
<1>3. CASE user = NoUser
  BY <1>1, <1>2, <1>3, IdleFits, ReqTyped, Keep DEF Authenticate
<1>4. CASE user # NoUser
  <2>1. user \in Users
    BY <1>4 DEF IdentityOf, Tokens
  <2>2. stage \in Named \cup {"ping"} /\ (stage = "work" => req[r].kind = "plain")
    BY DEF FirstStage, Named
  <2>3. Become(r, next)
    BY <1>4 DEF Authenticate
  <2> HIDE DEF user, stage
  <2>4. /\ next \in Request /\ Fits(next)
        /\ next.held = NoConns
    BY <1>1, <2>1, <2>2 DEF Request, Stages, Querying, Named, Fits
  <2> HIDE DEF next
  <2>5. QED
    BY <1>1, <1>2, <2>3, <2>4, ReqTyped, Keep
<1>5. QED
  BY <1>3, <1>4

(* A connection that nobody holds is as it came.  The main session's takes *)
(* the identity of the request on it, which then has one.                  *)
LEMMA CheckoutStep ==
  ASSUME SessionsInv, NEW r \in Requests, NEW k \in Conns, Checkout(r, k)
  PROVE  SessionsInv'
<1> DEFINE slot == Slot(r)
           next == [req[r] EXCEPT !.held[slot] = k]
<1>1. /\ req[r] \in Request /\ Fits(req[r]) /\ req[r].pc \in Querying
      /\ slot \in Slots /\ req[r].held[slot] = NoConn
      /\ slot = "main" => req[r].user \in Users
  BY ReqTyped DEF Checkout, Wanting, Mine, Slot, SlotOf, Slots, Querying, Fits
<1>2. /\ k # NoConn /\ conn[k] = Privileged
      /\ \A o \in Requests, s \in Slots : req[o].held[s] # k
  BY SessionsAssumption DEF Checkout, Free, Held, SessionsInv, ConnectionsKept, IdentityKept
<1>3. /\ Become(r, next)
      /\ conn' = [conn EXCEPT ![k] = IF slot = "main" THEN BoundTo(req[r].user) ELSE conn[k]]
      /\ UNCHANGED <<lock, expired, expiries>>
  BY DEF Checkout, Begin, prompts
<1> HIDE DEF slot
<1>4. /\ next \in Request
      /\ next.pc = req[r].pc /\ next.user = req[r].user /\ next.saw = req[r].saw
      /\ next.kind = req[r].kind /\ next.left = req[r].left
      /\ next.held = [req[r].held EXCEPT ![slot] = k]
  BY <1>1 DEF Request
<1> HIDE DEF next
<1>5. Fits(next)
  BY <1>1, <1>4 DEF Fits, Querying
<1>6. /\ req' \in [Requests -> Request]
      /\ req'[r] = next
      /\ \A o \in Requests \ {r} : req'[o] = req[o]
  BY <1>3, <1>4 DEF SessionsInv, TypeOK, Become
<1>7. conn' \in [Conns -> [role : {"postgres", "authenticated"}, sub : Users \cup {NoUser}]]
  BY <1>1, <1>3 DEF SessionsInv, TypeOK, BoundTo
<1>8. TypeOK' /\ \A o \in Requests : Fits(req[o])'
  BY <1>3, <1>5, <1>6, <1>7 DEF SessionsInv, TypeOK, Fits
<1>9. \A o \in Requests, s \in Slots :
        req'[o].held[s] = IF o = r /\ s = slot THEN k ELSE req[o].held[s]
  BY <1>1, <1>4, <1>6 DEF Request
<1>10. LentOnce'
  <2>1. \A r1, r2 \in Requests, s1, s2 \in Slots :
          req'[r1].held[s1] = req'[r2].held[s2] /\ req'[r1].held[s1] # NoConn
            => r1 = r2 /\ s1 = s2
    BY <1>2, <1>9 DEF SessionsInv, ConnectionsKept, LentOnce
  <2>2. \A o \in Requests : req'[o].pc \in {"idle", "token"} => req'[o].held = NoConns
    BY <1>8 DEF Fits, NoConns
  <2>3. QED
    BY <2>1, <2>2 DEF LentOnce
<1>11. IdentityKept'
  <2>1. \A o \in Requests : req'[o].user = req[o].user
    BY <1>4, <1>6
  <2>2. conn'[k] = IF slot = "main" THEN BoundTo(req[r].user) ELSE Privileged
    BY <1>2, <1>3 DEF SessionsInv, TypeOK
  <2>3. \A j \in Conns \ {k} : conn'[j] = conn[j]
    BY <1>3 DEF SessionsInv, TypeOK
  <2>4. ASSUME NEW o \in Requests, NEW s \in Slots, req'[o].held[s] # NoConn
        PROVE  conn'[req'[o].held[s]] = IF s = "main" THEN BoundTo(req'[o].user) ELSE Privileged
    <3>1. CASE o = r /\ s = slot
      BY <1>9, <2>1, <2>2, <3>1
    <3>2. CASE ~(o = r /\ s = slot)
      <4>1. req'[o].held[s] = req[o].held[s] /\ req[o].held[s] # k
        BY <1>2, <1>9, <3>2
      <4>2. req[o].held[s] \in Conns
        BY <4>1, <2>4 DEF SessionsInv, TypeOK, Request
      <4>3. conn[req[o].held[s]] = IF s = "main" THEN BoundTo(req[o].user) ELSE Privileged
        BY <4>1, <2>4 DEF SessionsInv, ConnectionsKept, IdentityKept
      <4>4. QED
        BY <4>1, <4>2, <4>3, <2>1, <2>3
    <3>3. QED
      BY <3>1, <3>2
  <2>5. \A j \in Free' : conn'[j] = Privileged
    <3> SUFFICES ASSUME NEW j \in Free' PROVE conn'[j] = Privileged
      OBVIOUS
    <3>1. j \in Conns /\ \A o \in Requests, s \in Slots : j # req'[o].held[s]
      BY SessionsAssumption DEF Free, Held
    <3>2. j # k
      BY <1>1, <1>9, <3>1
    <3>3. \A o \in Requests, s \in Slots : j # req[o].held[s]
      BY <1>1, <1>9, <3>1, SessionsAssumption
    <3>4. j \in Free
      BY <3>1, <3>3 DEF Free, Held
    <3>5. QED
      BY <2>3, <3>1, <3>2, <3>4 DEF SessionsInv, ConnectionsKept, IdentityKept
  <2>6. QED
    BY <2>4, <2>5 DEF IdentityKept, BoundTo
<1>12. QED
  BY <1>8, <1>10, <1>11 DEF SessionsInv, ConnectionsKept
-----------------------------------------------------------------------------
(* A statement of the main session sees the user's rows.                   *)
LEMMA SeesOwn ==
  ASSUME SessionsInv, NEW r \in Requests, req[r].pc \in {"work", "cap", "save"}, Mine(r) # NoConn
  PROVE  req[r].user \in Users /\ Seeing(r) \subseteq {req[r].user}
<1>1. req[r].user \in Users /\ req[r].saw \subseteq {req[r].user}
  BY ReqTyped DEF Fits
<1>2. Slot(r) = "main" /\ "main" \in Slots
  BY DEF Slot, SlotOf, Slots
<1>3. conn[Mine(r)] = BoundTo(req[r].user)
  BY <1>2 DEF Mine, SessionsInv, ConnectionsKept, IdentityKept
<1>4. Visible(Mine(r)) = {req[r].user}
  BY <1>3 DEF Visible, BoundTo
<1>5. QED
  BY <1>1, <1>4 DEF Seeing

LEMMA HeldTyped ==
  ASSUME SessionsInv, NEW r \in Requests, NEW slots
  PROVE  /\ req[r].held \in [Slots -> Conns \cup {NoConn}]
         /\ Without(slots, r) \in [Slots -> Conns \cup {NoConn}]
         /\ req[r].left \in 0 .. MaxStatements
BY ReqTyped DEF Request, Without

LEMMA WorkStep ==
  ASSUME SessionsInv, NEW r \in Requests, Work(r) PROVE SessionsInv'
<1>1. PICK ended \in SUBSET Slots, stage \in {"work", "close"} :
        /\ conn' = Reset(ended, r)
        /\ Become(r, [req[r] EXCEPT !.saw = Seeing(r), !.held = Without(ended, r),
                                    !.pc = stage, !.left = req[r].left - 1])
        /\ stage = "work" => req[r].left > 1
  BY DEF Work, Slots
<1>2. UNCHANGED <<lock, expired, expiries>> /\ req[r].pc = "work" /\ Mine(r) # NoConn
  BY DEF Work, Ready, At, prompts
<1> DEFINE saw == Seeing(r)
           held == Without(ended, r)
           left == req[r].left - 1
           next == [req[r] EXCEPT !.saw = saw, !.held = held, !.pc = stage, !.left = left]
<1>3. /\ saw \subseteq {req[r].user}
      /\ held \in [Slots -> Conns \cup {NoConn}]
      /\ left \in 0 .. MaxStatements /\ (stage = "work" => left > 0)
  <2>1. req[r].left \in 0 .. MaxStatements /\ req[r].left > 0
    BY <1>2, ReqTyped, HeldTyped DEF Fits
  <2>2. left \in 0 .. MaxStatements /\ (stage = "work" => left > 0)
    BY <1>1, <2>1, SessionsAssumption
  <2>3. QED
    BY <1>2, <2>2, SeesOwn, HeldTyped
<1>4. Become(r, next)
  BY <1>1
<1> HIDE DEF saw, left
<1>5. /\ next \in Request /\ Fits(next)
      /\ next.held = Without(ended, r) /\ next.user = req[r].user
  <2> HIDE DEF held
  <2>1. next \in Request /\ Fits(next) /\ next.held = held /\ next.user = req[r].user
    BY <1>2, <1>3, ReqTyped, SeesOwn DEF Fits, Request, Stages, Querying
  <2>2. QED
    BY <2>1 DEF held
<1> HIDE DEF next
<1>6. QED
  BY <1>1, <1>2, <1>4, <1>5, ReqTyped, Release

LEMMA ReadCapStep ==
  ASSUME SessionsInv, NEW r \in Requests, ReadCap(r) PROVE SessionsInv'
<1>1. PICK stage \in {"budget", "close"} :
        Become(r, [req[r] EXCEPT !.saw = Seeing(r), !.pc = stage])
  BY DEF ReadCap
<1>2. UNCHANGED <<conn, lock, expired, expiries>> /\ req[r].pc = "cap" /\ Mine(r) # NoConn
  BY DEF ReadCap, Ready, At, prompts
<1> DEFINE saw == Seeing(r)
           next == [req[r] EXCEPT !.saw = saw, !.pc = stage]
<1>3. saw \subseteq {req[r].user} /\ req[r].user \in Users
  BY <1>2, SeesOwn
<1>4. Become(r, next)
  BY <1>1
<1> HIDE DEF saw
<1>5. next \in Request /\ Fits(next) /\ next.held = req[r].held /\ next.user = req[r].user
  BY <1>2, <1>3, ReqTyped DEF Fits, Request, Stages, Querying
<1> HIDE DEF next
<1>6. QED
  BY <1>2, <1>4, <1>5, ReqTyped, Keep

LEMMA SaveStep ==
  ASSUME SessionsInv, NEW r \in Requests, Save(r) PROVE SessionsInv'
<1> DEFINE saw == Seeing(r)
           held == Without({"main"}, r)
           next == [req[r] EXCEPT !.saw = saw, !.held = held, !.pc = "close"]
<1>1. Become(r, next) /\ conn' = Reset({"main"}, r)
  BY DEF Save
<1>2. UNCHANGED <<lock, expired, expiries>> /\ req[r].pc = "save" /\ Mine(r) # NoConn
  BY DEF Save, Ready, At, prompts
<1>3. /\ saw \subseteq {req[r].user} /\ req[r].user \in Users
      /\ held \in [Slots -> Conns \cup {NoConn}]
  BY <1>2, SeesOwn, HeldTyped
<1> HIDE DEF saw, held
<1>4. next \in Request /\ Fits(next) /\ next.held = held /\ next.user = req[r].user
  BY <1>2, <1>3, ReqTyped DEF Fits, Request, Stages, Querying
<1> HIDE DEF next
<1>5. {"main"} \in SUBSET Slots
  BY DEF Slots
<1>6. QED
  BY <1>1, <1>2, <1>4, <1>5, ReqTyped, Release DEF held

LEMMA CloseStep ==
  ASSUME SessionsInv, NEW r \in Requests, Close(r) PROVE SessionsInv'
<1>1. Become(r, Idle) /\ conn' = Reset(Slots, r) /\ UNCHANGED <<lock, expired, expiries>>
  BY DEF Close, prompts
<1>2. Idle.held = Without(Slots, r)
  BY IdleFits DEF NoConns, Without
<1>3. QED
  BY <1>1, <1>2, IdleFits, ReqTyped, Release
-----------------------------------------------------------------------------
(* The steps that only take a request on, or back from a session.          *)
LEMMA RefreshStep ==
  ASSUME SessionsInv, NEW r \in Requests, RefreshPrompts(r) PROVE SessionsInv'
<1>1. GiveBack(r, {"inner"}, "provider") /\ req[r].pc = "warm"
      /\ lock' = "nobody" /\ expired' = FALSE /\ UNCHANGED expiries
  BY DEF RefreshPrompts, At
<1>2. QED
  BY <1>1, ReqTyped, GiveBackStep DEF Named, Onward, Slots

LEMMA FailsStep ==
  ASSUME SessionsInv, NEW r \in Requests, req[r].pc \in Querying, Fails(r) PROVE SessionsInv'
<1>1. CASE At(r, "warm")
  BY <1>1, RefreshStep DEF Fails
<1>2. CASE ~At(r, "warm")
  BY <1>2, ReqTyped, GotoStep DEF Fails, At, Named, Onward, Querying, prompts
<1>3. QED
  BY <1>1, <1>2

LEMMA MovingStep ==
  ASSUME SessionsInv, NEW r \in Requests,
         \/ ReadBudget(r) \/ ServePrompts(r) \/ LockPrompts(r) \/ Provider(r) \/ DeleteIdentity(r)
  PROVE  SessionsInv'
<1>1. \E stage \in Onward : Goto(r, stage) /\ req[r].pc \in Named
  BY DEF ReadBudget, ServePrompts, LockPrompts, Provider, DeleteIdentity, Ready, At, Named, Onward
<1>2. /\ conn' = conn
      /\ lock' \in Requests \cup {"nobody"} /\ expired' = expired /\ expiries' = expiries
  BY ReqTyped DEF ReadBudget, ServePrompts, LockPrompts, Provider, DeleteIdentity, prompts
<1>3. QED
  BY <1>1, <1>2, ReqTyped, GotoStep

LEMMA ReturningStep ==
  ASSUME SessionsInv, NEW r \in Requests,
         Record(r) \/ Purge(r) \/ Ping(r) \/ ProbeTimeout(r)
  PROVE  SessionsInv'
<1>1. \E slots \in SUBSET Slots, stage \in Onward :
        /\ GiveBack(r, slots, stage)
        /\ req[r].pc \in Named \/ (stage = "close" /\ req[r].pc = "ping")
  BY DEF Record, Purge, Ping, ProbeTimeout, Ready, At, Named, Onward, Slots
<1>2. UNCHANGED <<lock, expired, expiries>>
  BY DEF Record, Purge, Ping, ProbeTimeout, prompts
<1>3. QED
  BY <1>1, <1>2, ReqTyped, GiveBackStep

LEMMA ServeStep ==
  ASSUME SessionsInv, NEW r \in Requests, Serve(r) PROVE SessionsInv'
<1>1. CASE \E t \in Tokens : Authenticate(r, t)
  BY <1>1, AuthenticateStep
<1>2. CASE \E k \in Conns : Checkout(r, k)
  BY <1>2, CheckoutStep
<1>3. CASE Work(r) \/ ReadCap(r) \/ Save(r) \/ Close(r)
  BY <1>3, WorkStep, ReadCapStep, SaveStep, CloseStep
<1>4. CASE \/ ReadBudget(r) \/ ServePrompts(r) \/ LockPrompts(r) \/ Provider(r) \/ DeleteIdentity(r)
  BY <1>4, MovingStep
<1>5. CASE Record(r) \/ Purge(r) \/ Ping(r) \/ ProbeTimeout(r)
  BY <1>5, ReturningStep
<1>6. CASE ReadPrompts(r) \/ PoolTimeout(r) \/ StatementFails(r)
  BY <1>6, RefreshStep, FailsStep DEF ReadPrompts, PoolTimeout, StatementFails, Wanting
<1>7. QED
  BY <1>1, <1>2, <1>3, <1>4, <1>5, <1>6 DEF Serve

LEMMA SessionsNext == SessionsInv /\ [Next]_vars => SessionsInv'
<1> SUFFICES ASSUME SessionsInv, [Next]_vars PROVE SessionsInv'
  OBVIOUS
<1>1. CASE \E r \in Requests : Serve(r)
  BY <1>1, ServeStep
<1>2. CASE \E r \in Requests, kind \in Kinds : Arrive(r, kind)
  BY <1>2, ArriveStep
<1>3. CASE Expire
  <2>1. UNCHANGED <<conn, req, lock>> /\ expired' = TRUE /\ expiries' \in 0 .. MaxExpiries
    BY <1>3, ReqTyped, SessionsAssumption DEF Expire
  <2>2. TypeOK'
    BY <2>1 DEF SessionsInv, TypeOK
  <2>3. ConnectionsKept' /\ \A r \in Requests : Fits(req[r])'
    BY <2>1 DEF SessionsInv, ConnectionsKept, LentOnce, IdentityKept, Free, Held, Fits
  <2>4. QED
    BY <2>2, <2>3 DEF SessionsInv
<1>4. CASE UNCHANGED vars
  <2>1. UNCHANGED <<conn, req, lock, expired, expiries>>
    BY <1>4 DEF vars
  <2>2. TypeOK'
    BY <2>1 DEF SessionsInv, TypeOK
  <2>3. ConnectionsKept' /\ \A r \in Requests : Fits(req[r])'
    BY <2>1 DEF SessionsInv, ConnectionsKept, LentOnce, IdentityKept, Free, Held, Fits
  <2>4. QED
    BY <2>2, <2>3 DEF SessionsInv
<1>5. QED
  BY <1>1, <1>2, <1>3, <1>4 DEF Next

LEMMA SessionsAlways == Spec => []SessionsInv
  BY SessionsInit, SessionsNext, PTL DEF Spec

(* The stages, the connections and the identities keep their types         *)
(* (app/deps.py).                                                          *)
THEOREM SessionsType == Spec => []TypeOK
<1>1. SessionsInv => TypeOK
  BY DEF SessionsInv
<1>2. QED
  BY <1>1, SessionsAlways, PTL

(* However many requests share however many connections: none is lent      *)
(* twice or lost, each transaction of a user's session runs as that user,  *)
(* each of a privileged one as the connecting role, and what is in the     *)
(* pool carries nobody's identity (app/db/rls.py, app/db/session.py).      *)
THEOREM ConnectionsAreKept == Spec => []ConnectionsKept
<1>1. SessionsInv => ConnectionsKept
  BY DEF SessionsInv
<1>2. QED
  BY <1>1, SessionsAlways, PTL

(* No statement on a user's data sees rows of another user                 *)
(* (migrations/versions/20260626_0003_rls_policies.py).                    *)
THEOREM OwnRows == Spec => []OwnRowsOnly
<1>1. SessionsInv => OwnRowsOnly
  BY DEF SessionsInv, Fits, OwnRowsOnly
<1>2. QED
  BY <1>1, SessionsAlways, PTL

-----------------------------------------------------------------------------
(* The other end of an identity: the API client of a browser tab, which    *)
(* keeps the session it sends tokens of, for any number of users and of    *)
(* calls at a time.  What a query fetched is the signed-in user's because  *)
(* every query on its way that is still kept was asked, and is sent again, *)
(* in his session; and whoever waits for a refresh waits for the one in    *)
(* flight.                                                                 *)
CONSTANTS AccessTokens, NoToken, Calls

VARIABLES session, settings, cache, call, inFlight

Client == INSTANCE ApiClient WITH Tokens <- AccessTokens


(* Of a call k in a session s: a query that is kept is the signed-in       *)
(* user's, and an answer says what kind of call it answers and for whom.   *)
Own(k, s) ==
  /\ k.kept => /\ s # Client!NoSession /\ k.kind = "read"
               /\ k.pc # "leaving" => k.auth.user = s.user
  /\ k.pc = "sent" => k.auth # Client!NoSession
  /\ k.answer = "ok" => k.data # Client!NoData /\ k.data.user = k.auth.user /\ k.data.from = k.kind

KeptIsOwn == \A c \in Calls : Own(call[c], session)

(* Whoever waits, waits for the refresh in flight, and there is one.       *)
WaitsForInFlight ==
  /\ \A r, s \in inFlight : r = s
  /\ \A c \in Calls : Client!Waiting(c) => call[c].on \in inFlight

Inv == Client!TypeOK /\ Client!FetchedIsOwn /\ KeptIsOwn /\ WaitsForInFlight

-----------------------------------------------------------------------------
LEMMA IdleOwn ==
  ASSUME NEW c \in Calls, NEW s
  PROVE  Client!Idle(c) \in Client!CallType /\ Own(Client!Idle(c), s) /\ Client!Idle(c).pc = "idle"
  BY DEF Client!Idle, Client!CallType, Own, Client!NoSession, Client!NoData, Client!Sessions,
     Client!Data

LEMMA InitInv == Client!Init => Inv
<1> SUFFICES ASSUME Client!Init PROVE Inv
  OBVIOUS
<1>1. Client!TypeOK
  BY IdleOwn DEF Client!Init, Client!TypeOK, Client!NoSession, Client!NoData, Client!Sessions,
     Client!Data
<1>2. Client!FetchedIsOwn
  BY DEF Client!Init, Client!FetchedIsOwn, Client!NoData
<1>3. KeptIsOwn
  BY IdleOwn DEF Client!Init, KeptIsOwn
<1>4. WaitsForInFlight
  BY IdleOwn DEF Client!Init, WaitsForInFlight, Client!Waiting
<1> QED BY <1>1, <1>2, <1>3, <1>4 DEF Inv

LEMMA RenewKeeps ==
  ASSUME NoUser \notin Users, NEW u \in Users, Client!Renew(u)
  PROVE  session' \in Client!Sessions /\ Client!SignedIn' /\ session' # Client!NoSession /\ session'.user = u
  BY DEF Client!Renew, Client!Sessions, Client!SignedIn, Client!NoSession

LEMMA UserKnown == ASSUME Client!TypeOK, Client!SignedIn PROVE session.user \in Users
  BY DEF Client!TypeOK, Client!SignedIn, Client!Sessions

LEMMA SignInInv == ASSUME NoUser \notin Users, Inv, Client!SignIn PROVE Inv'
<1>1. PICK u \in Users : Client!Renew(u)
  BY DEF Client!SignIn
<1>2. session' \in Client!Sessions /\ Client!SignedIn' /\ session' # Client!NoSession
  BY <1>1, RenewKeeps
<1>3. UNCHANGED <<settings, cache, call, inFlight>> /\ ~Client!SignedIn
  BY DEF Client!SignIn, Client!client
<1>4. Client!TypeOK'
  BY <1>2, <1>3 DEF Inv, Client!TypeOK
<1>5. Client!FetchedIsOwn'
  BY <1>3 DEF Inv, Client!FetchedIsOwn
<1>6. KeptIsOwn'
  BY <1>3 DEF Inv, KeptIsOwn, Own, Client!SignedIn
<1>7. WaitsForInFlight'
  BY <1>3 DEF Inv, WaitsForInFlight, Client!Waiting
<1> QED BY <1>4, <1>5, <1>6, <1>7 DEF Inv

LEMMA AutoRefreshInv == ASSUME NoUser \notin Users, Inv, Client!AutoRefresh PROVE Inv'
<1>1. Client!SignedIn /\ Client!Renew(session.user) /\ UNCHANGED <<settings, cache, call, inFlight>>
  BY DEF Client!AutoRefresh, Client!client
<1>2. session' \in Client!Sessions /\ Client!SignedIn' /\ session' # Client!NoSession /\ session'.user = session.user
  BY <1>1, RenewKeeps, UserKnown DEF Inv
<1>3. Client!TypeOK'
  BY <1>1, <1>2 DEF Inv, Client!TypeOK
<1>4. Client!FetchedIsOwn'
  BY <1>1, <1>2 DEF Inv, Client!FetchedIsOwn
<1>5. KeptIsOwn'
  BY <1>1, <1>2 DEF Inv, KeptIsOwn, Own
<1>6. WaitsForInFlight'
  BY <1>1 DEF Inv, WaitsForInFlight, Client!Waiting
<1> QED BY <1>3, <1>4, <1>5, <1>6 DEF Inv

(* A session that ends lets go of its queries and of what they fetched.    *)
LEMMA LetGoOwn ==
  ASSUME NEW c \in Calls, NEW k \in Client!CallType, NEW s, Own(k, s)
  PROVE  /\ [k EXCEPT !.kept = FALSE] \in Client!CallType
         /\ \A t : Own([k EXCEPT !.kept = FALSE], t)
         /\ [k EXCEPT !.kept = FALSE].pc = k.pc /\ [k EXCEPT !.kept = FALSE].on = k.on
<1>1. [k EXCEPT !.kept = FALSE] \in Client!CallType
  BY DEF Client!CallType
<1>2. \A t : Own([k EXCEPT !.kept = FALSE], t)
  BY DEF Client!CallType, Own
<1> QED BY <1>1, <1>2 DEF Client!CallType

LEMMA EndInv ==
  ASSUME Inv, Client!EndSession, UNCHANGED <<settings, inFlight>>,
         NEW calls, call' = Client!LetGo(calls),
         \A c \in Calls : calls[c] = call[c] \/ calls[c] = Client!Idle(c)
  PROVE  Inv'
<1>1. ASSUME NEW c \in Calls
      PROVE  /\ calls[c] \in Client!CallType /\ Own(calls[c], session)
             /\ calls[c].pc = "waiting" => Client!Waiting(c) /\ calls[c].on = call[c].on
  BY IdleOwn DEF Inv, Client!TypeOK, KeptIsOwn, Client!Waiting
<1>2. ASSUME NEW c \in Calls
      PROVE  /\ call'[c] \in Client!CallType /\ Own(call'[c], session')
             /\ Client!Waiting(c)' => Client!Waiting(c) /\ call'[c].on = call[c].on
  <2>1. call'[c] = [calls[c] EXCEPT !.kept = FALSE]
    BY DEF Client!LetGo
  <2> QED BY <1>1, <2>1, LetGoOwn DEF Client!Waiting
<1>3. Client!TypeOK'
  <2>1. call' \in [Calls -> Client!CallType]
    BY <1>2 DEF Client!LetGo
  <2> QED BY <2>1 DEF Inv, Client!TypeOK, Client!EndSession, Client!Sessions, Client!Data
<1>4. Client!FetchedIsOwn'
  BY DEF Client!EndSession, Client!FetchedIsOwn, Client!NoData
<1>5. KeptIsOwn'
  BY <1>2 DEF KeptIsOwn
<1>6. WaitsForInFlight'
  BY <1>2 DEF Inv, WaitsForInFlight
<1> QED BY <1>3, <1>4, <1>5, <1>6 DEF Inv

LEMMA SignOutInv == ASSUME Inv, Client!SignOut PROVE Inv'
  BY EndInv DEF Client!SignOut

(* One call moves on, the session stays, and the cache is left alone or    *)
(* holds what is the signed-in user's.                                     *)
LEMMA OneCallInv ==
  ASSUME Inv, session' = session, settings' \in [Users -> Nat],
         cache' \in Client!Data, Client!FetchedIsOwn',
         NEW c \in Calls, NEW k \in Client!CallType, Own(k, session),
         call' = [call EXCEPT ![c] = k],
         inFlight' \subseteq Calls, \A r, s \in inFlight' : r = s,
         inFlight \subseteq inFlight',
         k.pc = "waiting" => k.on \in inFlight'
  PROVE  Inv'
<1>1. \A d \in Calls : call'[d] = IF d = c THEN k ELSE call[d]
  BY DEF Inv, Client!TypeOK
<1>2. Client!TypeOK'
  BY DEF Inv, Client!TypeOK
<1>3. KeptIsOwn'
  BY <1>1 DEF Inv, KeptIsOwn
<1>4. WaitsForInFlight'
  BY <1>1 DEF Inv, WaitsForInFlight, Client!Waiting
<1> QED BY <1>2, <1>3, <1>4 DEF Inv

LEMMA SendInv ==
  ASSUME Inv, NEW c \in Calls, NEW request \in Client!CallType, Own(request, session),
         request.pc = "sent",
         Client!Send(c, request)
  PROVE  Inv'
<1>1. call' = [call EXCEPT ![c] = request] /\ UNCHANGED <<session, settings, cache, inFlight>>
  BY DEF Client!Send
<1> QED BY <1>1, OneCallInv DEF Inv, Client!TypeOK, Client!FetchedIsOwn, Client!SignedIn,
           WaitsForInFlight

LEMMA ReadInv == ASSUME Inv, NEW c \in Calls, Client!Read(c) PROVE Inv'
<1>1. PICK k \in Client!CallType : k = Client!Idle(c) /\ k.kind = "read" /\ k.answer = "none"
  BY IdleOwn DEF Client!Idle
<1>2. Client!Reading(c) = [k EXCEPT !.pc = "sent", !.auth = session, !.kept = TRUE]
  BY <1>1 DEF Client!Reading
<1>3. Client!Reading(c) \in Client!CallType
  BY <1>2 DEF Inv, Client!TypeOK, Client!CallType
<1>4. Own(Client!Reading(c), session) /\ Client!Reading(c).pc = "sent"
  BY <1>1, <1>2 DEF Client!CallType, Own, Client!Read, Client!Send, Client!SignedIn
<1> QED BY <1>3, <1>4, SendInv DEF Client!Read

LEMMA SaveInv == ASSUME Inv, NEW c \in Calls, Client!Save(c) PROVE Inv'
<1>1. PICK k \in Client!CallType : k = Client!Idle(c) /\ k.kept = FALSE /\ k.answer = "none"
  BY IdleOwn DEF Client!Idle
<1>2. Client!Saving(c) = [k EXCEPT !.pc = "sent", !.auth = session, !.kind = "save"]
  BY <1>1 DEF Client!Saving
<1>3. Client!Saving(c) \in Client!CallType
  BY <1>2 DEF Inv, Client!TypeOK, Client!CallType
<1>4. Own(Client!Saving(c), session) /\ Client!Saving(c).pc = "sent"
  BY <1>1, <1>2 DEF Client!CallType, Own, Client!Save, Client!Send, Client!SignedIn
<1> QED BY <1>3, <1>4, SendInv DEF Client!Save

LEMMA CollectInv == ASSUME Inv, Client!Collect PROVE Inv'
  BY DEF Client!Collect, Client!client, Inv, Client!TypeOK, Client!FetchedIsOwn, KeptIsOwn,
     WaitsForInFlight, Client!Waiting, Client!NoData, Client!Data

(* What one call knows of itself. *)
LEMMA CallKnown ==
  ASSUME Inv, NEW c \in Calls
  PROVE  call[c] \in Client!CallType /\ Own(call[c], session)
  BY DEF Inv, Client!TypeOK, KeptIsOwn

LEMMA DoneInv ==
  ASSUME Inv, NEW c \in Calls, Client!Done(c), UNCHANGED <<session, settings, inFlight>>,
         cache' \in Client!Data, Client!FetchedIsOwn'
  PROVE  Inv'
<1>1. call' = [call EXCEPT ![c] = Client!Idle(c)]
  BY DEF Client!Done
<1> QED BY <1>1, IdleOwn, OneCallInv DEF Inv, Client!TypeOK, WaitsForInFlight

LEMMA LandInv == ASSUME Inv, NEW c \in Calls, Client!Land(c) PROVE Inv'
<1>1. call[c] \in Client!CallType /\ Own(call[c], session)
  BY CallKnown
<1>2. cache' \in Client!Data
  BY <1>1 DEF Client!Land, Inv, Client!TypeOK, Client!CallType
<1>3. CASE call[c].kind = "save"
  <2>1. cache'.from = "save"
    BY <1>1, <1>3 DEF Client!Land, Own
  <2>2. Client!FetchedIsOwn'
    BY <2>1 DEF Client!FetchedIsOwn
  <2> QED BY <1>2, <2>2, DoneInv DEF Client!Land
<1>4. CASE call[c].kept /\ call[c].kind # "save"
  <2>1. session # Client!NoSession /\ cache'.user = session.user
    BY <1>1, <1>4 DEF Client!Land, Own
  <2>2. Client!FetchedIsOwn'
    BY <2>1 DEF Client!FetchedIsOwn, Client!Land, Client!SignedIn
  <2> QED BY <1>2, <2>2, DoneInv DEF Client!Land
<1>5. CASE ~call[c].kept /\ call[c].kind # "save"
  <2>1. Client!FetchedIsOwn'
    BY <1>5 DEF Client!FetchedIsOwn, Client!Land, Client!SignedIn, Inv
  <2> QED BY <1>2, <2>1, DoneInv DEF Client!Land
<1> QED BY <1>3, <1>4, <1>5

LEMMA EndsInv == ASSUME Inv, NEW c \in Calls, Client!Lose(c) \/ Client!GiveUp(c) PROVE Inv'
<1>1. Client!Done(c) /\ UNCHANGED <<session, settings, cache, inFlight>>
  BY DEF Client!Lose, Client!GiveUp
<1>2. cache' \in Client!Data /\ Client!FetchedIsOwn'
  BY <1>1 DEF Inv, Client!TypeOK, Client!FetchedIsOwn, Client!SignedIn
<1> QED BY <1>1, <1>2, DoneInv

(* An answer to the user of the token, or none.                            *)
LEMMA AnsweredInv ==
  ASSUME Inv, NEW c \in Calls, call[c].pc = "sent", NEW answer \in {"ok", "refused"},
         NEW data \in Client!Data,
         Client!Answered(c, answer, data), UNCHANGED <<session, cache, inFlight>>, settings' \in [Users -> Nat],
         answer = "ok" => data # Client!NoData /\ data.user = call[c].auth.user /\ data.from = call[c].kind
  PROVE  Inv'
<1> DEFINE k == [call[c] EXCEPT !.pc = "answered", !.answer = answer, !.data = data]
<1>1. call[c] \in Client!CallType /\ Own(call[c], session)
  BY CallKnown
<1>2. k \in Client!CallType
  BY <1>1 DEF Client!CallType
<1>3. Own(k, session) /\ k.pc = "answered"
  BY <1>1 DEF Client!CallType, Own
<1>4. call' = [call EXCEPT ![c] = k]
  BY DEF Client!Answered, Inv, Client!TypeOK, Client!CallType
<1> HIDE DEF k
<1> QED BY <1>2, <1>3, <1>4, OneCallInv DEF Inv, Client!TypeOK, Client!FetchedIsOwn,
           Client!SignedIn, WaitsForInFlight

LEMMA ServeInv == ASSUME Inv, NEW c \in Calls, Client!Serve(c) PROVE Inv'
<1> DEFINE u == call[c].auth.user
           n == settings[u] + (IF call[c].kind = "save" THEN 1 ELSE 0)
           data == [user |-> u, save |-> n, from |-> call[c].kind]
<1>1. call[c] \in Client!CallType /\ Own(call[c], session) /\ call[c].pc = "sent"
  BY CallKnown DEF Client!Serve
<1>2. u \in Users
  BY <1>1 DEF Client!CallType, Own, Client!Sessions
<1>3. n \in Nat
  BY <1>2 DEF Inv, Client!TypeOK
<1>4. call[c].kind \in {"read", "save"}
  BY <1>1 DEF Client!CallType
<1>5. data \in Client!Data /\ data # Client!NoData /\ data.user = u /\ data.from = call[c].kind
  BY <1>2, <1>3, <1>4 DEF Client!Data, Client!NoData
<1>6. Client!Answered(c, "ok", data) /\ settings' = [settings EXCEPT ![u] = n] /\ UNCHANGED <<session, cache, inFlight>>
  BY DEF Client!Serve
<1>7. settings' \in [Users -> Nat]
  BY <1>2, <1>3, <1>6 DEF Inv, Client!TypeOK
<1> HIDE DEF data
<1> QED BY <1>1, <1>5, <1>6, <1>7, AnsweredInv

LEMMA RefuseInv == ASSUME Inv, NEW c \in Calls, Client!Refuse(c) PROVE Inv'
<1>1. Client!NoData \in Client!Data /\ settings' \in [Users -> Nat]
  BY DEF Client!Refuse, Client!Data, Inv, Client!TypeOK
<1> QED BY <1>1, AnsweredInv DEF Client!Refuse

LEMMA AwaitInv == ASSUME Inv, NEW c \in Calls, Client!AwaitRefresh(c) PROVE Inv'
<1>1. PICK r \in IF inFlight = {} THEN {c} ELSE inFlight : Client!AwaitOn(c, r)
  BY DEF Client!AwaitRefresh
<1>2. r \in Calls /\ inFlight' = {r} /\ inFlight \subseteq {r}
  BY <1>1 DEF Client!AwaitOn, Inv, Client!TypeOK, WaitsForInFlight
<1> DEFINE k == [call[c] EXCEPT !.pc = "waiting", !.on = r]
<1>3. call[c] \in Client!CallType /\ Own(call[c], session) /\ call[c].pc = "answered" /\ call[c].answer = "refused"
  BY CallKnown DEF Client!AwaitRefresh, Client!RefusedFirst
<1>4. k \in Client!CallType /\ k.on = r
  BY <1>2, <1>3 DEF Client!CallType
<1>5. Own(k, session)
  BY <1>3 DEF Client!CallType, Own
<1>6. call' = [call EXCEPT ![c] = k] /\ UNCHANGED <<session, settings, cache>>
  BY <1>1 DEF Client!AwaitOn, Inv, Client!TypeOK, Client!CallType
<1> HIDE DEF k
<1> QED BY <1>2, <1>4, <1>5, <1>6, OneCallInv DEF Inv, Client!TypeOK, Client!FetchedIsOwn,
           Client!SignedIn

LEMMA LeaveInv == ASSUME Inv, NEW c \in Calls, Client!Leave(c) PROVE Inv'
<1> DEFINE calls == [call EXCEPT ![c] = Client!Idle(c)]
<1>1. CASE Client!EndSession /\ call' = Client!LetGo(calls)
  <2>1. \A d \in Calls : calls[d] = call[d] \/ calls[d] = Client!Idle(d)
    BY DEF Inv, Client!TypeOK
  <2> HIDE DEF calls
  <2> QED BY <1>1, <2>1, EndInv DEF Client!Leave
<1>2. CASE Client!Done(c) /\ UNCHANGED <<session, cache>>
  <2>1. cache' \in Client!Data /\ Client!FetchedIsOwn'
    BY <1>2 DEF Inv, Client!TypeOK, Client!FetchedIsOwn, Client!SignedIn
  <2> QED BY <1>2, <2>1, DoneInv DEF Client!Leave
<1> QED BY <1>1, <1>2 DEF Client!Leave

-----------------------------------------------------------------------------
(* A refresh settles: by WaitsForInFlight everyone who waits is woken.     *)
LEMMA AllWoken ==
  ASSUME Inv, NEW r \in Calls, Client!Settles(r), NEW c \in Calls, Client!Waiting(c)
  PROVE  call[c].on = r
  BY DEF Client!Settles, Inv, WaitsForInFlight

LEMMA WokenInv ==
  ASSUME Inv, NEW r \in Calls, Client!Settles(r), NEW woken, Client!Wake(r, woken), inFlight' = {},
         UNCHANGED <<settings, cache>>, session' \in Client!Sessions,
         session = Client!NoSession <=> session' = Client!NoSession, session'.user = session.user,
         \A c \in Calls : Client!Waiting(c) => /\ woken[c] \in Client!CallType /\ woken[c].pc # "waiting"
                                       /\ Own(woken[c], session')
  PROVE  Inv'
<1>1. ASSUME NEW c \in Calls
      PROVE  call'[c] = (IF Client!Waiting(c) THEN woken[c] ELSE call[c])
  BY AllWoken DEF Client!Wake
<1>2. ASSUME NEW c \in Calls
      PROVE  call'[c] \in Client!CallType /\ Own(call'[c], session') /\ ~Client!Waiting(c)'
  <2>1. CASE Client!Waiting(c)
    BY <1>1, <2>1 DEF Client!Waiting
  <2>2. CASE ~Client!Waiting(c)
    <3>1. Own(call[c], session) /\ call[c] \in Client!CallType
      BY CallKnown
    <3>2. Own(call[c], session')
      BY <3>1 DEF Own
    <3> QED BY <1>1, <2>2, <3>1, <3>2 DEF Client!Waiting
  <2> QED BY <2>1, <2>2
<1>3. Client!TypeOK'
  <2>1. call' \in [Calls -> Client!CallType]
    BY <1>2 DEF Client!Wake
  <2> QED BY <2>1 DEF Inv, Client!TypeOK
<1>4. Client!FetchedIsOwn'
  BY DEF Inv, Client!FetchedIsOwn, Client!SignedIn
<1>5. KeptIsOwn'
  BY <1>2 DEF KeptIsOwn
<1>6. WaitsForInFlight'
  BY <1>2 DEF WaitsForInFlight
<1> QED BY <1>3, <1>4, <1>5, <1>6 DEF Inv

LEMMA RefreshedInv == ASSUME NoUser \notin Users, Inv, NEW r \in Calls, Client!Refreshed(r) PROVE Inv'
<1>1. session' \in Client!Sessions /\ session' # Client!NoSession /\ session # Client!NoSession /\ session'.user = session.user
  BY RenewKeeps, UserKnown DEF Client!Refreshed, Inv, Client!SignedIn
<1>2. ASSUME NEW c \in Calls, Client!Waiting(c)
      PROVE  /\ Client!Resent[c] \in Client!CallType /\ Client!Resent[c].pc # "waiting"
             /\ Own(Client!Resent[c], session')
  <2>1. call[c] \in Client!CallType /\ Own(call[c], session)
    BY CallKnown
  <2>2. Client!Resent[c] = [pc |-> "sent", kind |-> call[c].kind, auth |-> session', retried |-> TRUE,
                     kept |-> call[c].kept, on |-> c, answer |-> "none", data |-> Client!NoData]
    BY DEF Client!Resent, Client!Idle
  <2>3. Client!Resent[c] \in Client!CallType
    BY <1>1, <2>1, <2>2 DEF Client!CallType, Client!Data
  <2> QED BY <1>1, <2>1, <2>2, <2>3 DEF Own
<1> QED BY <1>1, <1>2, WokenInv DEF Client!Refreshed

LEMMA RefreshFailedInv == ASSUME Inv, NEW r \in Calls, Client!RefreshFailed(r) PROVE Inv'
<1>1. ASSUME NEW c \in Calls, Client!Waiting(c)
      PROVE  /\ Client!GivenUp[c] \in Client!CallType /\ Client!GivenUp[c].pc # "waiting"
             /\ Own(Client!GivenUp[c], session)
  <2>1. call[c] \in Client!CallType /\ Own(call[c], session)
    BY CallKnown
  <2>2. Client!GivenUp[c] = [pc |-> "leaving", kind |-> "read", auth |-> Client!NoSession, retried |-> FALSE,
                      kept |-> call[c].kept, on |-> c, answer |-> "none", data |-> Client!NoData]
    BY DEF Client!GivenUp, Client!Idle
  <2>3. Client!GivenUp[c] \in Client!CallType
    BY <2>1, <2>2 DEF Client!CallType, Client!Data, Client!Sessions
  <2> QED BY <2>1, <2>2, <2>3 DEF Own
<1>2. session' = session /\ session' \in Client!Sessions
  BY DEF Client!RefreshFailed, Inv, Client!TypeOK
<1> QED BY <1>1, <1>2, WokenInv DEF Client!RefreshFailed

-----------------------------------------------------------------------------
LEMMA NextInv == ASSUME NoUser \notin Users, Inv, [Client!Next]_(Client!vars) PROVE Inv'
<1>1. CASE Client!SignIn
  BY <1>1, SignInInv
<1>2. CASE Client!AutoRefresh
  BY <1>2, AutoRefreshInv
<1>3. CASE Client!SignOut
  BY <1>3, SignOutInv
<1>4. CASE Client!Collect
  BY <1>4, CollectInv
<1>5. ASSUME NEW c \in Calls, Client!Read(c) \/ Client!Save(c) PROVE Inv'
  BY <1>5, ReadInv, SaveInv
<1>6. ASSUME NEW c \in Calls, Client!Serve(c) \/ Client!Refuse(c) \/ Client!Lose(c) PROVE Inv'
  BY <1>6, ServeInv, RefuseInv, EndsInv
<1>7. ASSUME NEW c \in Calls, Client!Receive(c) PROVE Inv'
  BY <1>7, LandInv, EndsInv, AwaitInv DEF Client!Receive
<1>8. ASSUME NEW c \in Calls, Client!Settle(c) PROVE Inv'
  BY <1>8, RefreshedInv, RefreshFailedInv DEF Client!Settle
<1>9. ASSUME NEW c \in Calls, Client!Leave(c) PROVE Inv'
  BY <1>9, LeaveInv
<1>10. CASE UNCHANGED Client!vars
  BY <1>10 DEF Client!vars, Client!client, Inv, Client!TypeOK, Client!FetchedIsOwn,
     Client!SignedIn, KeptIsOwn, WaitsForInFlight, Client!Waiting
<1> QED BY <1>1, <1>2, <1>3, <1>4, <1>5, <1>6, <1>7, <1>8, <1>9, <1>10 DEF Client!Next

LEMMA InvHolds == ASSUME NoUser \notin Users PROVE Client!Spec => []Inv
<1>1. Inv /\ [Client!Next]_(Client!vars) => Inv'
  BY NextInv
<1> QED BY <1>1, InitInv, PTL DEF Client!Spec

(* No previous user's fetched data lingers, for any number of users and of *)
(* calls (auth-provider.tsx; lib/api-client.ts sends calls of an ended     *)
(* session again with the token of the next).                              *)
THEOREM FetchedStaysOwn == ASSUME NoUser \notin Users PROVE Client!Spec => []Client!FetchedIsOwn
<1>1. Inv => Client!FetchedIsOwn
  BY DEF Inv
<1>2. Client!Spec => []Inv
  BY InvHolds
<1> QED BY <1>1, <1>2, PTL

(* A step that wakes a call wakes all of them to one outcome.              *)
LEMMA OneOutcome ==
  ASSUME Inv, [Client!Next]_(Client!vars), NEW c \in Calls, NEW d \in Calls, Client!Waiting(c),
         Client!Waiting(d), ~Client!Waiting(c)'
  PROVE  \/ call'[c].pc = "leaving" /\ call'[d].pc = "leaving"
         \/ /\ call'[c].pc = "sent" /\ call'[c].auth = session'
            /\ call'[d].pc = "sent" /\ call'[d].auth = session'
<1>1. PICK r \in Calls : Client!Settle(r)
  <2>1. ~(UNCHANGED call)
    BY DEF Client!Waiting
  <2>2. ~Client!SignIn /\ ~Client!AutoRefresh /\ ~Client!Collect /\ ~(UNCHANGED Client!vars)
    BY <2>1 DEF Client!SignIn, Client!AutoRefresh, Client!Collect, Client!vars, Client!client
  <2>3. ~Client!SignOut
    BY DEF Client!SignOut, Client!Refreshing
  <2>4. ASSUME NEW e \in Calls PROVE ~Client!Read(e) /\ ~Client!Save(e) /\ ~Client!Leave(e)
    BY DEF Client!Read, Client!Save, Client!Send, Client!Leave, Client!Refreshing
  <2>5. ASSUME NEW e \in Calls, NEW k, call' = [call EXCEPT ![e] = k], call[e].pc # "waiting" PROVE FALSE
    BY <2>5 DEF Client!Waiting, Inv, Client!TypeOK
  <2>6. ASSUME NEW e \in Calls PROVE ~Client!Serve(e) /\ ~Client!Refuse(e)
    BY DEF Client!Serve, Client!Refuse, Client!Answered, Client!Waiting, Inv, Client!TypeOK
  <2>7. ASSUME NEW e \in Calls PROVE ~Client!Lose(e) /\ ~Client!Receive(e)
    BY <2>5 DEF Client!Lose, Client!Receive, Client!Land, Client!GiveUp, Client!AwaitRefresh,
       Client!RefusedFirst, Client!AwaitOn, Client!Done, Client!Waiting, Inv, Client!TypeOK
  <2> QED BY <2>2, <2>3, <2>4, <2>6, <2>7 DEF Client!Next
<1>2. call[c].on = r /\ call[d].on = r
  BY <1>1, AllWoken DEF Client!Settle, Client!Refreshed, Client!RefreshFailed
<1>3. CASE Client!Refreshed(r)
  BY <1>2, <1>3 DEF Client!Refreshed, Client!Wake, Client!Resent, Client!Idle
<1>4. CASE Client!RefreshFailed(r)
  BY <1>2, <1>4 DEF Client!RefreshFailed, Client!Wake, Client!GivenUp, Client!Idle
<1> QED BY <1>1, <1>3, <1>4 DEF Client!Settle

(* However many calls are refused at once, they share one refresh and its  *)
(* outcome (sessionRefreshToken and createRefreshRetryFetch).              *)
THEOREM BurstShares == ASSUME NoUser \notin Users PROVE Client!Spec => Client!BurstSharesRefresh
<1>1. Inv => Client!TypeOK /\ Client!OneRefresh
  BY DEF Inv, WaitsForInFlight, Client!OneRefresh
<1>2. Inv /\ [Client!Next]_(Client!vars) =>
        [\A c, d \in Calls : Client!Waiting(c) /\ Client!Waiting(d) /\ ~Client!Waiting(c)' =>
           \/ call'[c].pc = "leaving" /\ call'[d].pc = "leaving"
           \/ /\ call'[c].pc = "sent" /\ call'[c].auth = session'
              /\ call'[d].pc = "sent" /\ call'[d].auth = session']_(Client!vars)
  BY OneOutcome
<1>3. Client!Spec => []Inv
  BY InvHolds
<1> QED BY <1>1, <1>2, <1>3, PTL DEF Client!Spec, Client!BurstSharesRefresh, Client!SharedOutcome
=============================================================================
