-------------------------- MODULE CostGuardProofs --------------------------
(* Theorems about the cost guard, for every number of requests in hand, of *)
(* users and of permits, every cap and every budget.                       *)
EXTENDS CostGuard, FiniteSetTheorems, SequenceTheorems, WellFoundedInduction, TLAPS

LEMMA IdleType == Idle \in Request
BY GuardAssumption DEF Idle, Request, Stages, AllRoutes, NoDay, Days

(* The records a step can turn a request into are requests.                *)
LEMMA RequestShapes ==
  ASSUME NEW r \in Request, NEW p \in Stages
  PROVE  /\ [r EXCEPT !.pc = p] \in Request
         /\ \A d \in Days \cup {NoDay} : [r EXCEPT !.pc = p, !.day = d] \in Request
         /\ \A c \in Int : [r EXCEPT !.pc = p, !.cap = c] \in Request
         /\ \A c \in Int, b \in BOOLEAN : [r EXCEPT !.pc = p, !.cap = c, !.raised = b] \in Request
         /\ \A d \in Days \cup {NoDay} : [r EXCEPT !.pc = p, !.read = d] \in Request
         /\ \A b \in BOOLEAN : [r EXCEPT !.pc = p, !.saved = b] \in Request
         /\ \A b \in BOOLEAN, t \in 0 .. MaxAttempts - 1 :
              [r EXCEPT !.pc = p, !.raised = b, !.tries = t] \in Request
         /\ \A t \in 0 .. MaxAttempts - 1 : /\ [r EXCEPT !.tries = t] \in Request
                                            /\ [r EXCEPT !.tries = t, !.pc = p] \in Request
         /\ \A l \in Seq(Refusals \cup {"success", "error"}), f \in BOOLEAN :
              [r EXCEPT !.pc = p, !.log = l, !.finalized = f] \in Request
         /\ \A l \in Seq(Refusals \cup {"success", "error"}), f \in BOOLEAN, b \in BOOLEAN :
              [r EXCEPT !.pc = p, !.log = l, !.finalized = f, !.counted = b] \in Request
BY DEF Request

LEMMA BlockedShape ==
  ASSUME NEW r \in Request, NEW p \in Stages, NEW d \in Days \cup {NoDay}, NEW c \in Int,
         NEW l \in Seq(Refusals \cup {"success", "error"}), NEW f \in BOOLEAN, NEW b \in BOOLEAN
  PROVE  [r EXCEPT !.pc = p, !.day = d, !.cap = c, !.log = l, !.finalized = f, !.raised = b]
            \in Request
BY DEF Request

(* The values the actions write, each of the type of its field.            *)
LEMMA FieldTypes ==
  ASSUME TypeOK, NEW s \in Slots
  PROVE  /\ req[s] \in Request
         /\ req[s].user \in Users /\ req[s].route \in AllRoutes
         /\ req[s].day \in Days \cup {NoDay}
         /\ today \in Days \cup {NoDay}
         /\ \A r \in Refusals \cup {"success", "error"} :
              Append(req[s].log, r) \in Seq(Refusals \cup {"success", "error"})
         /\ EffectiveCap(req[s].user, KindOf(req[s].route), req[s].day) \in Int
         /\ 0 \in Int /\ 0 \in 0 .. MaxAttempts - 1
         /\ (IF Upfront(req[s].route) THEN "done" ELSE "teardown") \in Stages
<1>1. req[s] \in Request /\ today \in Days
  BY DEF TypeOK
<1>2. req[s].user \in Users /\ req[s].route \in AllRoutes
  BY <1>1 DEF Request
<1>3. req[s].day \in Days \cup {NoDay} /\ req[s].log \in Seq(Refusals \cup {"success", "error"})
  BY <1>1 DEF Request
<1>4. ASSUME NEW k \in Kinds PROVE UserCap(req[s].user, k) \in Int
  <2>1. override[<<req[s].user, k>>] \in Overrides \cup {Unset}
    BY <1>2 DEF TypeOK
  <2>2. ServerMax[k] \in Int /\ ServerDefault[k] \in Int
    BY GuardAssumption
  <2>3. QED
    BY <2>1, <2>2, GuardAssumption DEF UserCap, Smaller
<1>5. KindOf(req[s].route) \in Kinds
  BY <1>2 DEF KindOf, AllRoutes, Kinds
<1>6. EffectiveCap(req[s].user, KindOf(req[s].route), req[s].day) \in Int
  BY <1>4, <1>5, GuardAssumption DEF EffectiveCap, Smaller
<1>7. 0 \in 0 .. MaxAttempts - 1
  BY GuardAssumption
<1>8. QED
  BY <1>1, <1>2, <1>3, <1>6, <1>7 DEF Stages

(* A step that gives one request a new record keeps the table of requests. *)
LEMMA BecomeType ==
  ASSUME TypeOK, NEW s \in Slots, NEW r \in Request, Become(s, r)
  PROVE  req' \in [Slots -> Request]
BY DEF TypeOK, Become

LEMMA RaiseType ==
  ASSUME TypeOK, NEW s \in Slots, Raise(s) PROVE req' \in [Slots -> Request]
<1>1. [req[s] EXCEPT !.pc = "teardown", !.raised = TRUE, !.tries = 0] \in Request
  BY FieldTypes, RequestShapes DEF Stages
<1>2. QED
  BY <1>1, BecomeType DEF Raise

LEMMA GotoType ==
  ASSUME TypeOK, NEW s \in Slots, NEW stage \in Stages, Goto(s, stage)
  PROVE  req' \in [Slots -> Request]
<1>1. [req[s] EXCEPT !.pc = stage] \in Request
  BY FieldTypes, RequestShapes
<1>2. QED
  BY <1>1, BecomeType DEF Goto

LEMMA BlockType ==
  ASSUME TypeOK, NEW s \in Slots, NEW refusal \in Refusals, Block(s, refusal)
  PROVE  req' \in [Slots -> Request]
<1>1. (IF req[s].day = NoDay THEN today ELSE req[s].day) \in Days \cup {NoDay}
  BY FieldTypes
<1>2. [req[s] EXCEPT !.pc = IF Upfront(req[s].route) THEN "done" ELSE "teardown",
                     !.day = IF @ = NoDay THEN today ELSE @,
                     !.cap = 0, !.log = Append(@, refusal),
                     !.finalized = TRUE, !.raised = TRUE] \in Request
  BY <1>1, FieldTypes, BlockedShape
<1>3. QED
  BY <1>2, BecomeType DEF Block

(* Adding one to a counter keeps a family of counters.                     *)
LEMMA BumpType ==
  ASSUME NEW S, NEW f \in [S -> Nat], NEW x PROVE [f EXCEPT ![x] = @ + 1] \in [S -> Nat]
<1>1. CASE x \in S
  <2>1. f[x] + 1 \in Nat
    BY <1>1
  <2>2. QED
    BY <2>1
<1>2. CASE x \notin S
  BY <1>2
<1>3. QED
  BY <1>1, <1>2

(* The guard's state keeps its shape: counters never go below zero, the    *)
(* semaphore never below no permit, a request never beyond its attempts.   *)
THEOREM GuardType == Spec => []TypeOK
<1>1. Init => TypeOK
  BY IdleType, GuardAssumption DEF Init, TypeOK, Days, CounterKeys
<1>2. TypeOK /\ [Next]_vars => TypeOK'
  <2> SUFFICES ASSUME TypeOK, [Next]_vars PROVE TypeOK'
    OBVIOUS
  <2> USE GuardAssumption
  <2>1. ASSUME NEW s \in Slots, Arrive(s) PROVE TypeOK'
    <3>1. PICK u \in Users, route \in Routes :
            Become(s, [Idle EXCEPT !.pc = IF Upfront(route) THEN "gates" ELSE "lookup",
                                   !.user = u, !.route = route])
      BY <2>1 DEF Arrive
    <3>2. [Idle EXCEPT !.pc = IF Upfront(route) THEN "gates" ELSE "lookup",
                       !.user = u, !.route = route] \in Request
      BY IdleType DEF Request, Stages
    <3>3. req' \in [Slots -> Request]
      BY <3>1, <3>2, BecomeType
    <3>4. QED
      BY <2>1, <3>3 DEF Arrive, TypeOK, db, env
  <2>2. ASSUME NEW s \in Slots, Lookup(s) PROVE TypeOK'
    BY <2>2, GotoType, RaiseType DEF Lookup, TypeOK, Stages, db, env
  <2>3. ASSUME NEW s \in Slots, NEW allowed \in BOOLEAN, Gates(s, allowed) PROVE TypeOK'
    <3>1. [req[s] EXCEPT !.pc = "cap", !.day = today] \in Request
      BY FieldTypes, RequestShapes DEF Stages
    <3>2. req' \in [Slots -> Request]
      BY <2>3, <3>1, BecomeType, BlockType DEF Gates, Refusals
    <3>3. QED
      BY <2>3, <3>2 DEF Gates, TypeOK, db, env
  <2>4. ASSUME NEW s \in Slots, ReadCap(s) PROVE TypeOK'
    <3>1. [req[s] EXCEPT !.pc = "usage",
                 !.cap = EffectiveCap(req[s].user, KindOf(req[s].route), req[s].day)] \in Request
      BY FieldTypes, RequestShapes DEF Stages
    <3>2. req' \in [Slots -> Request]
      BY <2>4, <3>1, BecomeType DEF ReadCap
    <3>3. QED
      BY <2>4, <3>2 DEF ReadCap, TypeOK, db, env
  <2>5. ASSUME NEW s \in Slots, ReadUsage(s) PROVE TypeOK'
    <3>1. [req[s] EXCEPT !.pc = "budget", !.cap = 0] \in Request
      BY FieldTypes, RequestShapes DEF Stages
    <3>2. req' \in [Slots -> Request]
      BY <2>5, <3>1, BecomeType, BlockType DEF ReadUsage, Refusals
    <3>3. QED
      BY <2>5, <3>2 DEF ReadUsage, TypeOK, db, env
  <2>6. ASSUME NEW s \in Slots, ReadBudget(s) PROVE TypeOK'
    <3>1. [req[s] EXCEPT !.pc = "admitted", !.read = req[s].day] \in Request
      BY FieldTypes, RequestShapes DEF Stages
    <3>2. req' \in [Slots -> Request]
      BY <2>6, <3>1, BecomeType, BlockType DEF ReadBudget, Refusals
    <3>3. QED
      BY <2>6, <3>2 DEF ReadBudget, TypeOK, db, env
  <2>7. ASSUME NEW s \in Slots, GateReadFails(s) PROVE TypeOK'
    <3>1. [req[s] EXCEPT !.pc = IF Upfront(req[s].route) THEN "done" ELSE "teardown",
                         !.cap = 0, !.raised = TRUE] \in Request
      BY FieldTypes, RequestShapes
    <3>2. req' \in [Slots -> Request]
      BY <2>7, <3>1, BecomeType DEF GateReadFails
    <3>3. QED
      BY <2>7, <3>2 DEF GateReadFails, TypeOK, db, env
  <2>8. ASSUME NEW s \in Slots, Prepare(s) PROVE TypeOK'
    BY <2>8, GotoType, RaiseType DEF Prepare, TypeOK, Stages, db, env
  <2>9. ASSUME NEW s \in Slots, Acquire(s) PROVE TypeOK'
    BY <2>9, GotoType DEF Acquire, TypeOK, Stages, db, env
  <2>10. ASSUME NEW s \in Slots, AcquireTimeout(s) PROVE TypeOK'
    BY <2>10, RaiseType DEF AcquireTimeout, TypeOK, db, env
  <2>11. ASSUME NEW s \in Slots, AttemptFails(s) PROVE TypeOK'
    <3>1. req[s].tries + 1 \in 0 .. MaxAttempts - 1
      BY <2>11, FieldTypes DEF AttemptFails, Request
    <3>2. [req[s] EXCEPT !.tries = @ + 1] \in Request
      BY <3>1, FieldTypes, RequestShapes DEF Stages
    <3>3. req' \in [Slots -> Request]
      BY <2>11, <3>2, BecomeType DEF AttemptFails
    <3>4. QED
      BY <2>11, <3>3 DEF AttemptFails, TypeOK, db, env
  <2>12. ASSUME NEW s \in Slots, CallFails(s) PROVE TypeOK'
    <3>1. req' \in [Slots -> Request]
      BY <2>12, RaiseType DEF CallFails
    <3>2. QED
      BY <2>12, <3>1 DEF CallFails, TypeOK, db, env
  <2>b. \A route, empty : AfterCall(route, empty) \in Stages
    BY DEF AfterCall, Stages
  <2>13. ASSUME NEW s \in Slots, CallReturns(s) PROVE TypeOK'
    <3>1. \A p \in Stages : [req[s] EXCEPT !.tries = 0, !.pc = p] \in Request
      BY FieldTypes, RequestShapes
    <3>2. req' \in [Slots -> Request]
      BY <2>13, <2>b, <3>1, BecomeType DEF CallReturns
    <3>3. QED
      BY <2>13, <3>2 DEF CallReturns, TypeOK, db, env
  <2>14. ASSUME NEW s \in Slots, NothingToAsk(s) PROVE TypeOK'
    <3>1. req' \in [Slots -> Request]
      BY <2>14, <2>b, GotoType DEF NothingToAsk
    <3>2. QED
      BY <2>14, <3>1 DEF NothingToAsk, TypeOK, db, env
  <2>15. ASSUME NEW s \in Slots, RecordSuccess(s) PROVE TypeOK'
    <3>1. \A p \in Stages : [req[s] EXCEPT !.pc = p, !.log = Append(@, "success"),
                                           !.finalized = TRUE, !.counted = TRUE] \in Request
      BY FieldTypes, RequestShapes
    <3>2. (IF req[s].route \in {"accept", "explain"} THEN "save" ELSE "teardown") \in Stages
      BY DEF Stages
    <3>3. req' \in [Slots -> Request]
      BY <2>15, <3>1, <3>2, BecomeType DEF RecordSuccess
    <3>4. usage' \in [CounterKeys -> Nat]
      BY <2>15, BumpType DEF RecordSuccess, TypeOK
    <3>5. budget' \in [Days -> Nat]
      BY <2>15, BumpType DEF RecordSuccess, TypeOK
    <3>6. QED
      BY <2>15, <3>3, <3>4, <3>5 DEF RecordSuccess, TypeOK, env
  <2>16. ASSUME NEW s \in Slots, RecordFails(s) PROVE TypeOK'
    BY <2>16, RaiseType DEF RecordFails, TypeOK, db, env
  <2>17. ASSUME NEW s \in Slots, Save(s) PROVE TypeOK'
    <3>1. [req[s] EXCEPT !.pc = "teardown", !.saved = TRUE] \in Request
      BY FieldTypes, RequestShapes DEF Stages
    <3>2. req' \in [Slots -> Request]
      BY <2>17, <3>1, BecomeType, RaiseType DEF Save
    <3>3. QED
      BY <2>17, <3>2 DEF Save, TypeOK, db, env
  <2>18. ASSUME NEW s \in Slots, Finalize(s) PROVE TypeOK'
    <3>1. [req[s] EXCEPT !.pc = "done", !.log = Append(@, "error"), !.finalized = TRUE] \in Request
      BY FieldTypes, RequestShapes DEF Stages
    <3>2. req' \in [Slots -> Request]
      BY <2>18, <3>1, BecomeType, GotoType DEF Finalize, Stages
    <3>3. QED
      BY <2>18, <3>2 DEF Finalize, TypeOK, db, env
  <2>19. ASSUME NEW s \in Slots, Respond(s) PROVE TypeOK'
    BY <2>19, IdleType, BecomeType DEF Respond, TypeOK, db, env
  <2>20. ASSUME NEW u \in Users, NEW k \in Kinds, NEW cap \in Overrides \cup {Unset}, SetCap(u, k, cap)
         PROVE TypeOK'
    BY <2>20 DEF SetCap, TypeOK, env
  <2>21. CASE Midnight
    BY <2>21 DEF Midnight, TypeOK, db, Days
  <2>22. CASE Restart
    BY <2>22, IdleType DEF Restart, TypeOK, db
  <2>23. CASE UNCHANGED vars
    BY <2>23 DEF vars, TypeOK
  <2>24. QED
    BY <2>1, <2>2, <2>3, <2>4, <2>5, <2>6, <2>7, <2>8, <2>9, <2>10, <2>11, <2>12, <2>13, <2>14,
       <2>15, <2>16, <2>17, <2>18, <2>19, <2>20, <2>21, <2>22, <2>23 DEF Next, Serve
<1>3. QED
  BY <1>1, <1>2, PTL DEF Spec

-----------------------------------------------------------------------------
(* The strengthening: a request past the first two gates has its day       *)
(* pinned, and the cap it is about to be compared with is no higher than   *)
(* the server allows its user on that day.                                 *)
Pinned == {"cap", "usage", "budget", "admitted", "queued", "calling", "record"}

DayPinned == \A s \in Slots : req[s].pc \in Pinned => req[s].day \in Days

CapHeld == \A s \in Slots : At(s, "usage") => req[s].cap <= CapCeiling[CounterOf(s)]

GuardInv == DayPinned /\ CapHeld

LEMMA CounterOfType ==
  ASSUME TypeOK, DayPinned, NEW s \in Slots, req[s].pc \in Pinned
  PROVE  CounterOf(s) \in CounterKeys
<1>1. req[s].user \in Users /\ KindOf(req[s].route) \in Kinds
  BY FieldTypes DEF KindOf, AllRoutes, Kinds
<1>2. QED
  BY <1>1 DEF CounterOf, CounterKeys, DayPinned

(* Whatever a user stores, the cap a request is held to stays below the    *)
(* server's: resolve_user_cap clamps it, and so does an account's first    *)
(* day (resolve_daily_cap_state).                                          *)
LEMMA EffectiveCapBound ==
  ASSUME TypeOK, NEW u \in Users, NEW k \in Kinds, NEW d \in Days
  PROVE  EffectiveCap(u, k, d) <= CapCeiling[<<u, k, d>>]
<1>1. override[<<u, k>>] \in Int \cup {Unset}
  BY GuardAssumption DEF TypeOK
<1>2. ServerMax[k] \in Nat /\ ServerDefault[k] \in Nat /\ ServerDefault[k] <= ServerMax[k]
  BY GuardAssumption
<1>3. UserCap(u, k) \in Int /\ UserCap(u, k) <= ServerMax[k]
  BY <1>1, <1>2, GuardAssumption DEF UserCap, Smaller
<1>4. <<u, k, d>> \in CounterKeys
  BY DEF CounterKeys
<1>5. CapCeiling[<<u, k, d>>] = IF k = "generate" /\ FirstDay[u] = d
                                THEN Smaller(ServerMax[k], Day0Cap) ELSE ServerMax[k]
  BY <1>4 DEF CapCeiling
<1>6. QED
  BY <1>2, <1>3, <1>5, GuardAssumption DEF EffectiveCap, Smaller

LEMMA GuardInvInit == Init => GuardInv
BY DEF Init, Idle, GuardInv, DayPinned, CapHeld, Pinned, At

(* A step that leaves the request in slot s with its day, user and route,  *)
(* and not at the usage gate, keeps the strengthening.                     *)
LEMMA GuardInvKept ==
  ASSUME TypeOK, GuardInv, NEW s \in Slots, NEW r, Become(s, r),
         r.pc \in Pinned => r.day \in Days,
         r.pc = "usage" => r.cap <= CapCeiling[<<r.user, KindOf(r.route), r.day>>]
  PROVE  GuardInv'
BY DEF TypeOK, GuardInv, DayPinned, CapHeld, Become, At, CounterOf

LEMMA GuardInvStep == ASSUME TypeOK, GuardInv, [Next]_vars PROVE GuardInv'
<1>b. ASSUME NEW s \in Slots, NEW refusal, Block(s, refusal) PROVE GuardInv'
  BY <1>b, FieldTypes, GuardInvKept DEF Block, Pinned, Request
<1>r. ASSUME NEW s \in Slots, Raise(s) PROVE GuardInv'
  BY <1>r, FieldTypes, GuardInvKept DEF Raise, Pinned, Request
<1>g. ASSUME NEW s \in Slots, NEW stage \in Stages \ {"usage"}, Goto(s, stage),
             stage \in Pinned => req[s].pc \in Pinned
      PROVE  GuardInv'
  BY <1>g, FieldTypes, GuardInvKept DEF Goto, Request, GuardInv, DayPinned
<1>1. ASSUME NEW s \in Slots, Arrive(s) PROVE GuardInv'
  <2>1. PICK u \in Users, route \in Routes :
          Become(s, [Idle EXCEPT !.pc = IF Upfront(route) THEN "gates" ELSE "lookup",
                                 !.user = u, !.route = route])
    BY <1>1 DEF Arrive
  <2> DEFINE r == [Idle EXCEPT !.pc = IF Upfront(route) THEN "gates" ELSE "lookup",
                               !.user = u, !.route = route]
  <2>2. r.pc \in {"gates", "lookup"}
    BY DEF Idle
  <2>3. r.pc \notin Pinned /\ r.pc # "usage"
    BY <2>2 DEF Pinned
  <2>4. QED
    BY <2>1, <2>3, GuardInvKept
<1>2. ASSUME NEW s \in Slots, Lookup(s) PROVE GuardInv'
  BY <1>2, <1>g, <1>r DEF Lookup, Stages, Pinned
<1>3. ASSUME NEW s \in Slots, NEW allowed \in BOOLEAN, Gates(s, allowed) PROVE GuardInv'
  BY <1>3, <1>b, FieldTypes, GuardInvKept DEF Gates, Pinned, Request, TypeOK
<1>4. ASSUME NEW s \in Slots, ReadCap(s) PROVE GuardInv'
  <2>1. req[s].user \in Users /\ KindOf(req[s].route) \in Kinds
    BY FieldTypes DEF KindOf, AllRoutes, Kinds
  <2>2. req[s].day \in Days
    BY <1>4 DEF ReadCap, At, GuardInv, DayPinned, Pinned
  <2>3. EffectiveCap(req[s].user, KindOf(req[s].route), req[s].day)
           <= CapCeiling[<<req[s].user, KindOf(req[s].route), req[s].day>>]
    BY <2>1, <2>2, EffectiveCapBound
  <2>4. QED
    BY <1>4, <2>2, <2>3, FieldTypes, GuardInvKept DEF ReadCap, Request
<1>5. ASSUME NEW s \in Slots, ReadUsage(s) PROVE GuardInv'
  BY <1>5, <1>b, FieldTypes, GuardInvKept DEF ReadUsage, Pinned, Request, At, GuardInv, DayPinned
<1>6. ASSUME NEW s \in Slots, ReadBudget(s) PROVE GuardInv'
  BY <1>6, <1>b, FieldTypes, GuardInvKept DEF ReadBudget, Pinned, Request, At, GuardInv, DayPinned
<1>7. ASSUME NEW s \in Slots, GateReadFails(s) PROVE GuardInv'
  BY <1>7, FieldTypes, GuardInvKept DEF GateReadFails, Pinned, Request
<1>8. ASSUME NEW s \in Slots, Prepare(s) PROVE GuardInv'
  BY <1>8, <1>g, <1>r DEF Prepare, At, Stages, Pinned
<1>9. ASSUME NEW s \in Slots, Acquire(s) PROVE GuardInv'
  BY <1>9, <1>g DEF Acquire, At, Stages, Pinned
<1>10. ASSUME NEW s \in Slots, AcquireTimeout(s) PROVE GuardInv'
  BY <1>10, <1>r DEF AcquireTimeout
<1>11. ASSUME NEW s \in Slots, AttemptFails(s) PROVE GuardInv'
  BY <1>11, FieldTypes, GuardInvKept DEF AttemptFails, At, Request, GuardInv, DayPinned
<1>12. ASSUME NEW s \in Slots, CallFails(s) PROVE GuardInv'
  BY <1>12, <1>r DEF CallFails
<1>13. ASSUME NEW s \in Slots, CallReturns(s) PROVE GuardInv'
  BY <1>13, FieldTypes, GuardInvKept
     DEF CallReturns, AfterCall, At, Pinned, Request, GuardInv, DayPinned
<1>14. ASSUME NEW s \in Slots, NothingToAsk(s) PROVE GuardInv'
  BY <1>14, <1>g DEF NothingToAsk, AfterCall, At, Stages, Pinned
<1>15. ASSUME NEW s \in Slots, RecordSuccess(s) PROVE GuardInv'
  BY <1>15, FieldTypes, GuardInvKept DEF RecordSuccess, Pinned, Request
<1>16. ASSUME NEW s \in Slots, RecordFails(s) PROVE GuardInv'
  BY <1>16, <1>r DEF RecordFails
<1>17. ASSUME NEW s \in Slots, Save(s) PROVE GuardInv'
  BY <1>17, <1>r, FieldTypes, GuardInvKept DEF Save, Pinned, Request
<1>18. ASSUME NEW s \in Slots, Finalize(s) PROVE GuardInv'
  BY <1>18, <1>g, FieldTypes, GuardInvKept DEF Finalize, Pinned, Stages, Request
<1>19. ASSUME NEW s \in Slots, Respond(s) PROVE GuardInv'
  BY <1>19, GuardInvKept DEF Respond, Idle, Pinned
<1>20. CASE UNCHANGED req
  BY <1>20 DEF GuardInv, DayPinned, CapHeld, At, CounterOf
<1>21. CASE Restart
  BY <1>21 DEF Restart, Idle, GuardInv, DayPinned, CapHeld, Pinned, At
<1>22. QED
  BY <1>1, <1>2, <1>3, <1>4, <1>5, <1>6, <1>7, <1>8, <1>9, <1>10, <1>11, <1>12, <1>13, <1>14,
     <1>15, <1>16, <1>17, <1>18, <1>19, <1>20, <1>21 DEF Next, Serve, SetCap, Midnight, vars

LEMMA GuardInvariant == Spec => []GuardInv
<1>1. TypeOK /\ GuardInv /\ [Next]_vars => GuardInv'
  BY GuardInvStep
<1>2. QED
  BY <1>1, GuardInvInit, GuardType, PTL DEF Spec

-----------------------------------------------------------------------------
(* A step is quiet when no request passes a gate and nothing is counted:   *)
(* requests already past a gate stay there, on the same counters, or leave.*)
UsageQuiet == /\ \A s \in Slots : PastUsageGate(s)' => PastUsageGate(s) /\ CounterOf(s)' = CounterOf(s)
              /\ UNCHANGED usage

BudgetQuiet == /\ \A s \in Slots : PastBudgetGate(s)' => PastBudgetGate(s) /\ req'[s].day = req[s].day
               /\ UNCHANGED budget

Quiet == UsageQuiet /\ BudgetQuiet

(* The steps that are not: a request passes the usage gate, or the budget  *)
(* gate, or is counted.                                                    *)
LetIn(s) == /\ At(s, "usage") /\ ~CapReached(s)
            /\ Become(s, [req[s] EXCEPT !.pc = "budget", !.cap = 0])
            /\ UNCHANGED <<usage, budget>>

LetOn(s) == /\ At(s, "budget") /\ ~BudgetSpent(s)
            /\ Become(s, [req[s] EXCEPT !.pc = "admitted", !.read = req[s].day])
            /\ UNCHANGED <<usage, budget>>

LEMMA QuietStep ==
  ASSUME TypeOK, [Next]_vars
  PROVE  Quiet \/ \E s \in Slots : LetIn(s) \/ LetOn(s) \/ RecordSuccess(s)
<1> USE DEF Quiet, UsageQuiet, BudgetQuiet, PastUsageGate, PastBudgetGate, At
<1>g. ASSUME NEW s \in Slots, NEW stage, Goto(s, stage), UNCHANGED <<usage, budget>>,
             stage \in {"admitted", "queued", "calling", "record"} => PastBudgetGate(s),
             stage # "budget"
      PROVE  Quiet
  BY <1>g DEF Goto, Become, TypeOK, CounterOf, Request
<1>r. ASSUME NEW s \in Slots, Raise(s), UNCHANGED <<usage, budget>> PROVE Quiet
  BY <1>r DEF Raise, Become, TypeOK, CounterOf, Request
<1>b. ASSUME NEW s \in Slots, NEW refusal, Block(s, refusal), UNCHANGED <<usage, budget>> PROVE Quiet
  BY <1>b DEF Block, Become, TypeOK, CounterOf, Request
<1>1. ASSUME NEW s \in Slots, Arrive(s) PROVE Quiet
  <2>1. PICK u \in Users, route \in Routes :
          Become(s, [Idle EXCEPT !.pc = IF Upfront(route) THEN "gates" ELSE "lookup",
                                 !.user = u, !.route = route])
    BY <1>1 DEF Arrive
  <2>2. req'[s].pc \in {"gates", "lookup"} /\ \A o \in Slots \ {s} : req'[o] = req[o]
    BY <2>1 DEF Become, TypeOK, Idle
  <2>3. QED
    BY <1>1, <2>2 DEF Arrive, CounterOf, db
<1>2. ASSUME NEW s \in Slots, Lookup(s) PROVE Quiet
  BY <1>2, <1>g, <1>r DEF Lookup, db
<1>3. ASSUME NEW s \in Slots, NEW allowed \in BOOLEAN, Gates(s, allowed) PROVE Quiet
  <2>1. CASE \E refusal : Block(s, refusal)
    BY <1>3, <2>1, <1>b DEF Gates, db
  <2>2. CASE Become(s, [req[s] EXCEPT !.pc = "cap", !.day = today])
    BY <1>3, <2>2 DEF Gates, Become, TypeOK, CounterOf, Request, db
  <2>3. QED
    BY <1>3, <2>1, <2>2 DEF Gates
<1>4. ASSUME NEW s \in Slots, ReadCap(s) PROVE Quiet
  BY <1>4 DEF ReadCap, Become, TypeOK, CounterOf, Request, db
<1>5. ASSUME NEW s \in Slots, ReadUsage(s) PROVE Quiet \/ LetIn(s)
  BY <1>5, <1>b DEF ReadUsage, LetIn, db
<1>6. ASSUME NEW s \in Slots, ReadBudget(s) PROVE Quiet \/ LetOn(s)
  BY <1>6, <1>b DEF ReadBudget, LetOn, db
<1>7. ASSUME NEW s \in Slots, GateReadFails(s) PROVE Quiet
  BY <1>7 DEF GateReadFails, Become, TypeOK, CounterOf, Request, db
<1>8. ASSUME NEW s \in Slots, Prepare(s) PROVE Quiet
  BY <1>8, <1>g, <1>r DEF Prepare, db
<1>9. ASSUME NEW s \in Slots, Acquire(s) PROVE Quiet
  BY <1>9, <1>g DEF Acquire, db
<1>10. ASSUME NEW s \in Slots, AcquireTimeout(s) PROVE Quiet
  BY <1>10, <1>r DEF AcquireTimeout, db
<1>11. ASSUME NEW s \in Slots, AttemptFails(s) PROVE Quiet
  BY <1>11 DEF AttemptFails, Become, TypeOK, CounterOf, Request, db
<1>12. ASSUME NEW s \in Slots, CallFails(s) PROVE Quiet
  BY <1>12, <1>r DEF CallFails, db
<1>13. ASSUME NEW s \in Slots, CallReturns(s) PROVE Quiet
  BY <1>13 DEF CallReturns, AfterCall, Become, TypeOK, CounterOf, Request, db
<1>14. ASSUME NEW s \in Slots, NothingToAsk(s) PROVE Quiet
  BY <1>14, <1>g DEF NothingToAsk, AfterCall, db
<1>15. ASSUME NEW s \in Slots, RecordFails(s) PROVE Quiet
  BY <1>15, <1>r DEF RecordFails, db
<1>16. ASSUME NEW s \in Slots, Save(s) PROVE Quiet
  BY <1>16, <1>r DEF Save, Become, TypeOK, CounterOf, Request, db
<1>17. ASSUME NEW s \in Slots, Finalize(s) PROVE Quiet
  <2>1. CASE Goto(s, "done")
    BY <1>17, <2>1, <1>g DEF Finalize, db
  <2>2. CASE Become(s, [req[s] EXCEPT !.pc = "done", !.log = Append(@, "error"), !.finalized = TRUE])
    BY <1>17, <2>2 DEF Finalize, Become, TypeOK, CounterOf, Request, db
  <2>3. QED
    BY <1>17, <2>1, <2>2 DEF Finalize
<1>18. ASSUME NEW s \in Slots, Respond(s) PROVE Quiet
  BY <1>18 DEF Respond, Become, Idle, TypeOK, CounterOf, db
<1>19. CASE UNCHANGED <<req, usage, budget>>
  BY <1>19 DEF CounterOf
<1>20. CASE Restart
  BY <1>20 DEF Restart, Idle, db
<1>21. QED
  BY <1>1, <1>2, <1>3, <1>4, <1>5, <1>6, <1>7, <1>8, <1>9, <1>10, <1>11, <1>12, <1>13, <1>14,
     <1>15, <1>16, <1>17, <1>18, <1>19, <1>20 DEF Next, Serve, SetCap, Midnight, vars, db

-----------------------------------------------------------------------------
(* Meter, for every set of jobs, counters and ceilings, of given values of *)
(* its variables: what its assumption, its types, its bound and a step of  *)
(* it say of them.                                                         *)
Metering(J, K, ceiling, closed) == /\ J # {} /\ IsFiniteSet(J)
                                   /\ ceiling \in [K -> Nat]
                                   /\ closed \notin K

Below(J, K, ceiling, open, spent) ==
  \A k \in K : spent[k] + Cardinality({j \in J : open[j] = k}) <= ceiling[k] + Cardinality(J) - 1

Metered(J, K, ceiling, closed, open, spent) ==
  /\ open \in [J -> K \cup {closed}] /\ spent \in [K -> Nat]
  /\ Below(J, K, ceiling, open, spent)

MeterMoves(J, K, ceiling, closed, open, spent, next, counted) ==
  \/ \E j \in J, k \in K : /\ open[j] = closed /\ spent[k] < ceiling[k]
                           /\ next = [open EXCEPT ![j] = k] /\ counted = spent
  \/ \E j \in J : /\ open[j] # closed /\ counted = [spent EXCEPT ![open[j]] = @ + 1]
                  /\ next = [open EXCEPT ![j] = closed]
  \/ \E gone \in SUBSET J :
       next = [j \in J |-> IF j \in gone THEN closed ELSE open[j]] /\ counted = spent

(* What is open on a counter is finite, and no more than all the jobs.     *)
LEMMA OpenIsFinite ==
  ASSUME NEW J, IsFiniteSet(J), NEW S, S \subseteq J
  PROVE  /\ IsFiniteSet(S) /\ Cardinality(S) \in Nat
         /\ Cardinality(S) <= Cardinality(J) /\ Cardinality(J) \in Nat
BY FS_Subset, FS_CardinalityType

(* At first nothing is open and nothing counted.                           *)
LEMMA MeterStarts ==
  ASSUME NEW J, NEW K, NEW ceiling, NEW closed, Metering(J, K, ceiling, closed)
  PROVE  Metered(J, K, ceiling, closed, [j \in J |-> closed], [k \in K |-> 0])
<1> DEFINE open == [j \in J |-> closed]
           spent == [k \in K |-> 0]
<1>1. ASSUME NEW c \in K
      PROVE  spent[c] + Cardinality({j \in J : open[j] = c}) <= ceiling[c] + Cardinality(J) - 1
  <2>1. {j \in J : open[j] = c} = {}
    BY DEF Metering
  <2>2. Cardinality(J) \in Nat /\ Cardinality(J) # 0
    BY FS_EmptySet, FS_CardinalityType DEF Metering
  <2>3. ceiling[c] \in Nat /\ spent[c] = 0
    BY DEF Metering
  <2> HIDE DEF open, spent
  <2>4. QED
    BY <2>1, <2>2, <2>3, FS_EmptySet
<1>2. QED
  BY <1>1 DEF Metered, Below

(* Letting a job in leaves room for it: the counter is below its ceiling   *)
(* and the job itself was not among the open ones.                         *)
LEMMA MeterAdmits ==
  ASSUME NEW J, NEW K, NEW ceiling, NEW closed, Metering(J, K, ceiling, closed),
         NEW open, NEW spent, Metered(J, K, ceiling, closed, open, spent),
         NEW j \in J, NEW k \in K, open[j] = closed, spent[k] < ceiling[k]
  PROVE  Metered(J, K, ceiling, closed, [open EXCEPT ![j] = k], spent)
<1> DEFINE next == [open EXCEPT ![j] = k]
<1>n. next \in [J -> K \cup {closed}] /\ next[j] = k /\ \A i \in J \ {j} : next[i] = open[i]
  BY DEF Metered
<1> HIDE DEF next
<1>1. ASSUME NEW c \in K
      PROVE  spent[c] + Cardinality({i \in J : next[i] = c}) <= ceiling[c] + Cardinality(J) - 1
  <2>t. ceiling[c] \in Nat /\ spent[c] \in Nat
    BY DEF Metering, Metered
  <2>1. CASE c = k
    <3>1. j \notin {i \in J : open[i] = c}
      BY <2>1 DEF Metering
    <3>2. {i \in J : next[i] = c} = {i \in J : open[i] = c} \cup {j}
      BY <1>n, <2>1
    <3>3. Cardinality({i \in J : next[i] = c}) \in Nat
          /\ Cardinality({i \in J : next[i] = c}) <= Cardinality(J) /\ Cardinality(J) \in Nat
      BY OpenIsFinite DEF Metering
    <3>4. QED
      BY <2>1, <2>t, <3>3
  <2>2. CASE c # k
    <3>1. {i \in J : next[i] = c} = {i \in J : open[i] = c}
      BY <1>n, <2>2 DEF Metering
    <3>2. QED
      BY <3>1 DEF Metered, Below
  <2>3. QED
    BY <2>1, <2>2
<1>2. QED
  BY <1>n, <1>1 DEF Metered, Below, next

(* Settling moves a job from the open ones to the counter.                 *)
LEMMA MeterSettles ==
  ASSUME NEW J, NEW K, NEW ceiling, NEW closed, Metering(J, K, ceiling, closed),
         NEW open, NEW spent, Metered(J, K, ceiling, closed, open, spent),
         NEW j \in J, open[j] # closed
  PROVE  Metered(J, K, ceiling, closed,
                 [open EXCEPT ![j] = closed], [spent EXCEPT ![open[j]] = @ + 1])
<1> DEFINE next == [open EXCEPT ![j] = closed]
           counted == [spent EXCEPT ![open[j]] = @ + 1]
<1>k. open[j] \in K
  BY DEF Metered
<1>n. next \in [J -> K \cup {closed}] /\ next[j] = closed /\ \A i \in J \ {j} : next[i] = open[i]
  BY DEF Metered
<1>s. /\ counted \in [K -> Nat]
      /\ counted[open[j]] = spent[open[j]] + 1
      /\ \A c \in K \ {open[j]} : counted[c] = spent[c]
  BY <1>k DEF Metered
<1> HIDE DEF next, counted
<1>1. ASSUME NEW c \in K
      PROVE  counted[c] + Cardinality({i \in J : next[i] = c}) <= ceiling[c] + Cardinality(J) - 1
  <2> DEFINE before == {i \in J : open[i] = c}
             after  == {i \in J : next[i] = c}
  <2>t. ceiling[c] \in Nat /\ spent[c] \in Nat
    BY DEF Metering, Metered
  <2>o. spent[c] + Cardinality(before) <= ceiling[c] + Cardinality(J) - 1
    BY DEF Metered, Below
  <2>f. /\ IsFiniteSet(before) /\ Cardinality(before) \in Nat /\ Cardinality(after) \in Nat
        /\ Cardinality(J) \in Nat
    BY OpenIsFinite DEF Metering
  <2>1. CASE c = open[j]
    <3>1. j \in before /\ after = before \ {j}
      BY <1>n, <1>k, <2>1 DEF Metering
    <3> HIDE DEF before, after
    <3>2. Cardinality(after) = Cardinality(before) - 1
      BY <3>1, <2>f, FS_RemoveElement
    <3>3. QED
      BY <1>s, <2>1, <2>o, <2>t, <2>f, <3>2 DEF after
  <2>2. CASE c # open[j]
    <3>1. after = before
      BY <1>n, <2>2 DEF Metering
    <3>2. QED
      BY <1>s, <2>2, <2>o, <3>1
  <2>3. QED
    BY <2>1, <2>2
<1>2. QED
  BY <1>n, <1>s, <1>1 DEF Metered, Below, next, counted

(* Dropping jobs only shrinks what is open.                                *)
LEMMA MeterDrops ==
  ASSUME NEW J, NEW K, NEW ceiling, NEW closed, Metering(J, K, ceiling, closed),
         NEW open, NEW spent, Metered(J, K, ceiling, closed, open, spent), NEW gone
  PROVE  Metered(J, K, ceiling, closed, [j \in J |-> IF j \in gone THEN closed ELSE open[j]], spent)
<1> DEFINE next == [j \in J |-> IF j \in gone THEN closed ELSE open[j]]
<1>n. next \in [J -> K \cup {closed}] /\ \A i \in J : next[i] \in {open[i], closed}
  BY DEF Metered
<1> HIDE DEF next
<1>1. ASSUME NEW c \in K
      PROVE  spent[c] + Cardinality({i \in J : next[i] = c}) <= ceiling[c] + Cardinality(J) - 1
  <2> DEFINE before == {i \in J : open[i] = c}
             after  == {i \in J : next[i] = c}
  <2>1. after \subseteq before
    BY <1>n DEF Metering
  <2>2. IsFiniteSet(before) /\ Cardinality(before) \in Nat /\ Cardinality(J) \in Nat
    BY OpenIsFinite DEF Metering
  <2>3. spent[c] + Cardinality(before) <= ceiling[c] + Cardinality(J) - 1
    BY DEF Metered, Below
  <2>4. ceiling[c] \in Nat /\ spent[c] \in Nat
    BY DEF Metering, Metered
  <2> HIDE DEF before, after
  <2>5. Cardinality(after) <= Cardinality(before) /\ Cardinality(after) \in Nat
    BY <2>1, <2>2, OpenIsFinite
  <2>6. spent[c] + Cardinality(after) <= ceiling[c] + Cardinality(J) - 1
    BY <2>2, <2>3, <2>4, <2>5
  <2>7. QED
    BY <2>6 DEF after
<1>2. QED
  BY <1>n, <1>1 DEF Metered, Below, next

(* What a counter holds, and what may still be added to it, never pass its *)
(* ceiling by as much as the number of jobs: QuotaGuard's check-then-      *)
(* increment overshoots by fewer calls than the server has requests.       *)
LEMMA MeterOvershoot ==
  ASSUME NEW J, NEW K, NEW ceiling, NEW closed, Metering(J, K, ceiling, closed),
         NEW open, NEW spent, NEW next, NEW counted,
         Metered(J, K, ceiling, closed, open, spent),
         MeterMoves(J, K, ceiling, closed, open, spent, next, counted)
  PROVE  Metered(J, K, ceiling, closed, next, counted)
<1>1. ASSUME NEW j \in J, NEW k \in K, open[j] = closed, spent[k] < ceiling[k],
             next = [open EXCEPT ![j] = k], counted = spent
      PROVE  Metered(J, K, ceiling, closed, next, counted)
  BY <1>1, MeterAdmits
<1>2. ASSUME NEW j \in J, open[j] # closed, counted = [spent EXCEPT ![open[j]] = @ + 1],
             next = [open EXCEPT ![j] = closed]
      PROVE  Metered(J, K, ceiling, closed, next, counted)
  BY <1>2, MeterSettles
<1>3. ASSUME NEW gone, next = [j \in J |-> IF j \in gone THEN closed ELSE open[j]],
             counted = spent
      PROVE  Metered(J, K, ceiling, closed, next, counted)
  BY <1>3, MeterDrops
<1>4. QED
  BY <1>1, <1>2, <1>3 DEF MeterMoves

-----------------------------------------------------------------------------
(* The global budget is a metered counter: every behaviour of the guard is *)
(* one of Meter, in which a request is open on its day from the budget     *)
(* gate until it is counted or ends.                                       *)
BudgetOpen == [s \in Slots |-> IF PastBudgetGate(s) THEN req[s].day ELSE NoDay]

LEMMA BudgetDrops == ASSUME BudgetQuiet PROVE BudgetMeter!Drop
<1> DEFINE gone == {s \in Slots : ~PastBudgetGate(s)'}
<1>1. BudgetOpen' = [s \in Slots |-> IF s \in gone THEN NoDay ELSE BudgetOpen[s]]
  BY DEF BudgetQuiet, BudgetOpen
<1>2. QED
  BY <1>1 DEF BudgetMeter!Drop, BudgetOpen, BudgetQuiet

LEMMA BudgetAdmits ==
  ASSUME TypeOK, GuardInv, NEW s \in Slots, LetOn(s), NEW d, d = req[s].day
  PROVE  d \in Days /\ BudgetMeter!Admit(s, d)
<1>1. req[s].day \in Days
  BY DEF LetOn, At, GuardInv, DayPinned, Pinned
<1>2. budget[req[s].day] < GlobalBudget
  BY <1>1, GuardAssumption DEF LetOn, BudgetSpent, TypeOK
<1>3. ~PastBudgetGate(s)
  BY DEF LetOn, At, PastBudgetGate
<1>4. BudgetOpen' = [BudgetOpen EXCEPT ![s] = req[s].day]
  <2>1. PastBudgetGate(s)' /\ req'[s].day = req[s].day
    BY DEF LetOn, Become, PastBudgetGate, TypeOK, Request
  <2>2. \A o \in Slots \ {s} : req'[o] = req[o]
    BY DEF LetOn, Become, TypeOK
  <2>3. QED
    BY <2>1, <2>2 DEF BudgetOpen, PastBudgetGate
<1>5. QED
  BY <1>1, <1>2, <1>3, <1>4 DEF BudgetMeter!Admit, BudgetOpen, LetOn

LEMMA BudgetSettles ==
  ASSUME TypeOK, GuardInv, NEW s \in Slots, RecordSuccess(s)
  PROVE  BudgetMeter!Settle(s)
<1>1. req[s].day \in Days /\ PastBudgetGate(s)
  BY DEF RecordSuccess, At, GuardInv, DayPinned, Pinned, PastBudgetGate
<1>2. budget' = [budget EXCEPT ![req[s].day] = @ + 1]
  BY DEF RecordSuccess, CountingDay
<1>3. BudgetOpen' = [BudgetOpen EXCEPT ![s] = NoDay]
  <2>1. ~PastBudgetGate(s)'
    BY DEF RecordSuccess, Become, PastBudgetGate, TypeOK, Request
  <2>2. \A o \in Slots \ {s} : req'[o] = req[o]
    BY DEF RecordSuccess, Become, TypeOK
  <2>3. QED
    BY <2>1, <2>2 DEF BudgetOpen, PastBudgetGate
<1>4. NoDay \notin Days
  BY GuardAssumption DEF Days, NoDay
<1>5. QED
  BY <1>1, <1>2, <1>3, <1>4 DEF BudgetMeter!Settle, BudgetOpen

(* The global budget gate and its counter implement Meter.                 *)
THEOREM BudgetRefinesMeter == Spec => BudgetIsMetered
<1>1. Init => BudgetMeter!Init
  BY DEF Init, Idle, BudgetMeter!Init, PastBudgetGate
<1>2. TypeOK /\ GuardInv /\ [Next]_vars => [BudgetMeter!Next]_BudgetMeter!vars
  <2> SUFFICES ASSUME TypeOK, GuardInv, [Next]_vars PROVE BudgetMeter!Next
    OBVIOUS
  <2>1. CASE Quiet
    BY <2>1, BudgetDrops DEF Quiet, BudgetMeter!Next
  <2>2. ASSUME NEW s \in Slots, LetIn(s) PROVE BudgetMeter!Next
    <3>1. BudgetQuiet
      BY <2>2 DEF LetIn, BudgetQuiet, Become, PastBudgetGate, At, TypeOK, Request
    <3>2. QED
      BY <3>1, BudgetDrops DEF BudgetMeter!Next
  <2>3. ASSUME NEW s \in Slots, LetOn(s) PROVE BudgetMeter!Next
    <3> PICK d : d = req[s].day
      OBVIOUS
    <3>1. d \in Days /\ BudgetMeter!Admit(s, d)
      BY <2>3, BudgetAdmits
    <3>2. \E j \in Slots, k \in Days : BudgetMeter!Admit(j, k)
      BY <3>1, Zenon
    <3>3. QED
      BY <3>2 DEF BudgetMeter!Next
  <2>4. ASSUME NEW s \in Slots, RecordSuccess(s) PROVE BudgetMeter!Next
    BY <2>4, BudgetSettles DEF BudgetMeter!Next
  <2>5. QED
    BY <2>1, <2>2, <2>3, <2>4, QuietStep
<1>3. QED
  BY <1>1, <1>2, GuardType, GuardInvariant, PTL DEF Spec, BudgetIsMetered, BudgetMeter!Spec

(* The overshoot of the global budget, for any number of requests in hand: *)
(* the day's count never reaches the budget plus that number, however the  *)
(* gates, the provider calls, midnight and restarts interleave.            *)
THEOREM BudgetBound == Spec => []BudgetOvershoot
<1> DEFINE ceiling == [d \in Days |-> GlobalBudget]
           Inv == Metered(Slots, Days, ceiling, NoDay, BudgetOpen, budget)
<1>1. Metering(Slots, Days, ceiling, NoDay)
  BY GuardAssumption DEF Metering, Days, NoDay
<1> HIDE DEF ceiling
<1>2. BudgetMeter!Init => Inv
  <2> SUFFICES ASSUME BudgetMeter!Init PROVE Inv
    OBVIOUS
  <2>1. BudgetOpen = [s \in Slots |-> NoDay] /\ budget = [d \in Days |-> 0]
    BY DEF BudgetMeter!Init, BudgetOpen
  <2>2. Metered(Slots, Days, ceiling, NoDay, [s \in Slots |-> NoDay], [d \in Days |-> 0])
    BY <1>1, MeterStarts
  <2>3. QED
    BY <2>1, <2>2
<1>3. Inv /\ [BudgetMeter!Next]_BudgetMeter!vars => Inv'
  <2> SUFFICES ASSUME Inv, [BudgetMeter!Next]_BudgetMeter!vars PROVE Inv'
    OBVIOUS
  <2>1. CASE BudgetMeter!Next
    <3>1. MeterMoves(Slots, Days, ceiling, NoDay, BudgetOpen, budget, BudgetOpen', budget')
      BY <2>1 DEF MeterMoves, BudgetMeter!Next, BudgetMeter!Admit, BudgetMeter!Settle,
                  BudgetMeter!Drop, BudgetOpen, ceiling
    <3>2. Metered(Slots, Days, ceiling, NoDay, BudgetOpen', budget')
      BY <1>1, <3>1, MeterOvershoot
    <3>3. QED
      BY <3>2 DEF ceiling
  <2>2. CASE UNCHANGED BudgetMeter!vars
    BY <2>2 DEF BudgetMeter!vars, BudgetOpen, Metered, Below, ceiling
  <2>3. QED
    BY <2>1, <2>2
<1>4. Inv => BudgetOvershoot
  <2>1. \A S : Cardinality(S) = BudgetMeter!Cardinality(S)
    BY Zenon DEF Cardinality, BudgetMeter!Cardinality
  <2>2. QED
    BY <2>1 DEF Metered, Below, ceiling, BudgetOpen, BudgetOvershoot, BudgetMeter!Overshoot,
                BudgetMeter!OpenOn
<1> HIDE DEF Inv
<1>5. QED
  BY <1>2, <1>3, <1>4, BudgetRefinesMeter, PTL DEF BudgetIsMetered, BudgetMeter!Spec

-----------------------------------------------------------------------------
(* The same for the counters per user, kind and day: a request is open on  *)
(* its counter from the usage gate on.                                     *)
CapOpen == [s \in Slots |-> IF PastUsageGate(s) THEN CounterOf(s) ELSE <<>>]

LEMMA CapParameters == CapCeiling \in [CounterKeys -> Nat] /\ <<>> \notin CounterKeys
<1>1. ASSUME NEW c \in CounterKeys PROVE CapCeiling[c] \in Nat
  <2>1. c[2] \in Kinds
    BY DEF CounterKeys
  <2>2. ServerMax[c[2]] \in Nat
    BY <2>1, GuardAssumption
  <2>3. QED
    BY <2>2, GuardAssumption DEF CapCeiling, Smaller
<1>2. CapCeiling = [c \in CounterKeys |-> CapCeiling[c]]
  BY DEF CapCeiling
<1>3. <<>> \notin CounterKeys
  BY DEF CounterKeys
<1>4. QED
  BY <1>1, <1>2, <1>3

LEMMA CapDrops == ASSUME UsageQuiet PROVE CapMeter!Drop
<1> DEFINE gone == {s \in Slots : ~PastUsageGate(s)'}
<1>1. CapOpen' = [s \in Slots |-> IF s \in gone THEN <<>> ELSE CapOpen[s]]
  BY DEF UsageQuiet, CapOpen
<1>2. QED
  BY <1>1 DEF CapMeter!Drop, CapOpen, UsageQuiet

LEMMA CapAdmits ==
  ASSUME TypeOK, GuardInv, NEW s \in Slots, LetIn(s)
  PROVE  CounterOf(s) \in CounterKeys /\ CapMeter!Admit(s, CounterOf(s))
<1>1. CounterOf(s) \in CounterKeys
  BY CounterOfType DEF LetIn, At, GuardInv, Pinned
<1>2. usage[CounterOf(s)] < CapCeiling[CounterOf(s)]
  <2>1. req[s].cap \in Int /\ req[s].cap <= CapCeiling[CounterOf(s)]
    BY DEF LetIn, TypeOK, Request, GuardInv, CapHeld
  <2>2. usage[CounterOf(s)] \in Nat /\ CapCeiling[CounterOf(s)] \in Nat
    BY <1>1, CapParameters DEF TypeOK
  <2>3. QED
    BY <2>1, <2>2 DEF LetIn, CapReached
<1>3. ~PastUsageGate(s)
  BY DEF LetIn, At, PastUsageGate, PastBudgetGate
<1>4. CapOpen' = [CapOpen EXCEPT ![s] = CounterOf(s)]
  <2>1. PastUsageGate(s)' /\ CounterOf(s)' = CounterOf(s)
    BY DEF LetIn, Become, PastUsageGate, At, CounterOf, TypeOK, Request
  <2>2. \A o \in Slots \ {s} : req'[o] = req[o]
    BY DEF LetIn, Become, TypeOK
  <2>3. QED
    BY <2>1, <2>2 DEF CapOpen, PastUsageGate, PastBudgetGate, At, CounterOf
<1>5. QED
  BY <1>1, <1>2, <1>3, <1>4 DEF CapMeter!Admit, CapOpen, LetIn

LEMMA CapSettles ==
  ASSUME TypeOK, GuardInv, NEW s \in Slots, RecordSuccess(s)
  PROVE  CapMeter!Settle(s)
<1>1. CounterOf(s) \in CounterKeys /\ PastUsageGate(s)
  BY CounterOfType DEF RecordSuccess, At, GuardInv, Pinned, PastUsageGate, PastBudgetGate
<1>2. usage' = [usage EXCEPT ![CounterOf(s)] = @ + 1]
  BY DEF RecordSuccess
<1>3. CapOpen' = [CapOpen EXCEPT ![s] = <<>>]
  <2>1. ~PastUsageGate(s)'
    BY DEF RecordSuccess, Become, PastUsageGate, PastBudgetGate, At, TypeOK, Request
  <2>2. \A o \in Slots \ {s} : req'[o] = req[o]
    BY DEF RecordSuccess, Become, TypeOK
  <2>3. QED
    BY <2>1, <2>2 DEF CapOpen, PastUsageGate, PastBudgetGate, At, CounterOf
<1>4. QED
  BY <1>1, <1>2, <1>3, CapParameters DEF CapMeter!Settle, CapOpen

(* The daily-cap gate and its counters implement Meter.                    *)
THEOREM CapRefinesMeter == Spec => CapIsMetered
<1>1. Init => CapMeter!Init
  BY DEF Init, Idle, CapMeter!Init, PastUsageGate, PastBudgetGate, At
<1>2. TypeOK /\ GuardInv /\ [Next]_vars => [CapMeter!Next]_CapMeter!vars
  <2> SUFFICES ASSUME TypeOK, GuardInv, [Next]_vars PROVE CapMeter!Next
    OBVIOUS
  <2>1. CASE Quiet
    BY <2>1, CapDrops DEF Quiet, CapMeter!Next
  <2>2. ASSUME NEW s \in Slots, LetOn(s) PROVE CapMeter!Next
    <3>1. UsageQuiet
      BY <2>2 DEF LetOn, UsageQuiet, Become, PastUsageGate, PastBudgetGate, At, CounterOf, TypeOK,
                  Request
    <3>2. QED
      BY <3>1, CapDrops DEF CapMeter!Next
  <2>3. ASSUME NEW s \in Slots, LetIn(s) PROVE CapMeter!Next
    <3>1. CounterOf(s) \in CounterKeys /\ CapMeter!Admit(s, CounterOf(s))
      BY <2>3, CapAdmits
    <3>2. \E j \in Slots, k \in CounterKeys : CapMeter!Admit(j, k)
      BY <3>1, Zenon
    <3>3. QED
      BY <3>2 DEF CapMeter!Next
  <2>4. ASSUME NEW s \in Slots, RecordSuccess(s) PROVE CapMeter!Next
    BY <2>4, CapSettles DEF CapMeter!Next
  <2>5. QED
    BY <2>1, <2>2, <2>3, <2>4, QuietStep
<1>3. QED
  BY <1>1, <1>2, GuardType, GuardInvariant, PTL DEF Spec, CapIsMetered, CapMeter!Spec

(* The overshoot of a user's daily cap: a burst of one user's requests can *)
(* pass it by fewer calls than the server has requests in hand, whatever   *)
(* the user stores as a cap of their own.                                  *)
THEOREM CapBound == Spec => []CapOvershoot
<1> DEFINE ceiling == CapCeiling
           Inv == Metered(Slots, CounterKeys, ceiling, <<>>, CapOpen, usage)
<1>1. Metering(Slots, CounterKeys, ceiling, <<>>)
  BY GuardAssumption, CapParameters DEF Metering
<1> HIDE DEF ceiling
<1>2. CapMeter!Init => Inv
  <2> SUFFICES ASSUME CapMeter!Init PROVE Inv
    OBVIOUS
  <2>1. CapOpen = [s \in Slots |-> <<>>] /\ usage = [c \in CounterKeys |-> 0]
    BY DEF CapMeter!Init, CapOpen
  <2>2. Metered(Slots, CounterKeys, ceiling, <<>>, [s \in Slots |-> <<>>],
                [c \in CounterKeys |-> 0])
    BY <1>1, MeterStarts
  <2>3. QED
    BY <2>1, <2>2
<1>3. Inv /\ [CapMeter!Next]_CapMeter!vars => Inv'
  <2> SUFFICES ASSUME Inv, [CapMeter!Next]_CapMeter!vars PROVE Inv'
    OBVIOUS
  <2>1. CASE CapMeter!Next
    <3>1. MeterMoves(Slots, CounterKeys, ceiling, <<>>, CapOpen, usage, CapOpen', usage')
      BY <2>1 DEF MeterMoves, CapMeter!Next, CapMeter!Admit, CapMeter!Settle, CapMeter!Drop,
                  CapOpen, ceiling
    <3>2. Metered(Slots, CounterKeys, ceiling, <<>>, CapOpen', usage')
      BY <1>1, <3>1, MeterOvershoot
    <3>3. QED
      BY <3>2 DEF ceiling
  <2>2. CASE UNCHANGED CapMeter!vars
    BY <2>2 DEF CapMeter!vars, CapOpen, Metered, Below, ceiling
  <2>3. QED
    BY <2>1, <2>2
<1>4. Inv => CapOvershoot
  <2>1. \A S : Cardinality(S) = CapMeter!Cardinality(S)
    BY Zenon DEF Cardinality, CapMeter!Cardinality
  <2>2. QED
    BY <2>1 DEF Metered, Below, ceiling, CapOpen, CapOvershoot, CapMeter!Overshoot,
                CapMeter!OpenOn
<1> HIDE DEF Inv
<1>5. QED
  BY <1>2, <1>3, <1>4, CapRefinesMeter, PTL DEF CapIsMetered, CapMeter!Spec

-----------------------------------------------------------------------------
LEMMA CallingFinite ==
  /\ IsFiniteSet(Calling) /\ Cardinality(Calling) \in Nat
BY GuardAssumption, FS_Subset, FS_CardinalityType DEF Calling

(* No permit is lost or given twice, so at most llm_max_concurrency calls  *)
(* are at the provider at a time, for any number of requests.              *)
THEOREM PermitsAreConserved == Spec => []PermitsConserved
<1>1. Init => PermitsConserved
  <2>1. Init => Calling = {}
    BY DEF Init, Idle, Calling, At
  <2>2. QED
    BY <2>1, FS_EmptySet, CallingFinite, GuardAssumption DEF Init, PermitsConserved
<1>2. TypeOK /\ PermitsConserved /\ [Next]_vars => PermitsConserved'
  <2> SUFFICES ASSUME TypeOK, PermitsConserved, [Next]_vars PROVE PermitsConserved'
    OBVIOUS
  <2>s. CASE Calling' = Calling /\ permits' = permits
    BY <2>s DEF PermitsConserved
  <2>e. ASSUME NEW s \in Slots, At(s, "calling"), Calling' = Calling \ {s}, permits' = permits + 1
        PROVE  PermitsConserved'
    <3>1. Cardinality(Calling') = Cardinality(Calling) - 1
      BY <2>e, FS_RemoveElement, CallingFinite DEF Calling
    <3>2. QED
      BY <2>e, <3>1, CallingFinite, GuardAssumption DEF PermitsConserved, TypeOK
  <2>q. ASSUME NEW s \in Slots, ~At(s, "calling"), Become(s, req'[s]), req'[s].pc # "calling"
        PROVE  Calling' = Calling
    BY <2>q DEF Calling, At, Become, TypeOK
  <2>l. ASSUME NEW s \in Slots, Become(s, req'[s]), req'[s].pc # "calling"
        PROVE  Calling' = Calling \ {s}
    BY <2>l DEF Calling, At, Become, TypeOK
  <2>1. ASSUME NEW s \in Slots, Acquire(s) PROVE PermitsConserved'
    <3>1. s \notin Calling /\ Calling' = Calling \cup {s}
      BY <2>1 DEF Acquire, Goto, Become, Calling, At, TypeOK, Request
    <3>2. Cardinality(Calling') = Cardinality(Calling) + 1
      BY <3>1, FS_AddElement, CallingFinite
    <3>3. QED
      BY <2>1, <3>2, CallingFinite, GuardAssumption DEF PermitsConserved, TypeOK, Acquire
  <2>2. ASSUME NEW s \in Slots, CallFails(s) PROVE PermitsConserved'
    <3>1. Become(s, req'[s]) /\ req'[s].pc # "calling"
      BY <2>2 DEF CallFails, Raise, Become, TypeOK, Request
    <3>2. QED
      BY <2>2, <3>1, <2>e, <2>l DEF CallFails
  <2>3. ASSUME NEW s \in Slots, CallReturns(s) PROVE PermitsConserved'
    <3>1. Become(s, req'[s]) /\ req'[s].pc # "calling"
      BY <2>3 DEF CallReturns, AfterCall, Become, TypeOK, Request
    <3>2. QED
      BY <2>3, <3>1, <2>e, <2>l DEF CallReturns
  <2>4. ASSUME NEW s \in Slots, NothingToAsk(s) PROVE PermitsConserved'
    <3>1. Become(s, req'[s]) /\ req'[s].pc # "calling"
      BY <2>4 DEF NothingToAsk, AfterCall, Goto, Become, TypeOK, Request
    <3>2. QED
      BY <2>4, <3>1, <2>e, <2>l DEF NothingToAsk
  <2>5. ASSUME NEW s \in Slots, AttemptFails(s) PROVE PermitsConserved'
    <3>1. Calling' = Calling
      BY <2>5 DEF AttemptFails, Become, Calling, At, TypeOK, Request
    <3>2. QED
      BY <2>5, <3>1, <2>s DEF AttemptFails
  <2>r. ASSUME NEW s \in Slots, Raise(s) PROVE Become(s, req'[s]) /\ req'[s].pc # "calling"
    BY <2>r DEF Raise, Become, TypeOK, Request
  <2>g. ASSUME NEW s \in Slots, NEW stage \in Stages \ {"calling"}, Goto(s, stage)
        PROVE  Become(s, req'[s]) /\ req'[s].pc # "calling"
    BY <2>g DEF Goto, Become, TypeOK, Request
  <2>b. ASSUME NEW s \in Slots, NEW refusal, Block(s, refusal)
        PROVE  Become(s, req'[s]) /\ req'[s].pc # "calling"
    BY <2>b DEF Block, Become, TypeOK, Request
  <2>6. ASSUME NEW s \in Slots,
               Arrive(s) \/ Lookup(s) \/ (\E allowed \in BOOLEAN : Gates(s, allowed)) \/ ReadCap(s)
                 \/ ReadUsage(s) \/ ReadBudget(s) \/ GateReadFails(s) \/ Prepare(s)
                 \/ AcquireTimeout(s) \/ RecordSuccess(s) \/ RecordFails(s) \/ Save(s)
                 \/ Finalize(s) \/ Respond(s)
        PROVE  PermitsConserved'
    <3>1. ~At(s, "calling") /\ permits' = permits
      BY <2>6 DEF Arrive, Lookup, Gates, ReadCap, ReadUsage, ReadBudget, GateReadFails, Prepare,
                  AcquireTimeout, RecordSuccess, RecordFails, Save, Finalize, Respond, At
    <3>2. Become(s, req'[s]) /\ req'[s].pc # "calling"
      <4>0. CASE Arrive(s)
        <5>1. PICK u \in Users, route \in Routes :
                Become(s, [Idle EXCEPT !.pc = IF Upfront(route) THEN "gates" ELSE "lookup",
                                       !.user = u, !.route = route])
          BY <4>0 DEF Arrive
        <5>2. QED
          BY <5>1 DEF Become, Idle, TypeOK
      <4>1. CASE Respond(s)
        BY <4>1 DEF Respond, Become, Idle, TypeOK
      <4>2. CASE Lookup(s) \/ Prepare(s) \/ AcquireTimeout(s) \/ RecordFails(s)
        BY <4>2, <2>r, <2>g DEF Lookup, Prepare, AcquireTimeout, RecordFails, Stages
      <4>3. CASE \E allowed \in BOOLEAN : Gates(s, allowed)
        <5>1. CASE Become(s, [req[s] EXCEPT !.pc = "cap", !.day = today])
          BY <5>1 DEF Become, TypeOK, Request
        <5>2. QED
          BY <4>3, <5>1, <2>b DEF Gates
      <4>4. CASE ReadCap(s) \/ GateReadFails(s)
        BY <4>4 DEF ReadCap, GateReadFails, Become, TypeOK, Request
      <4>5. CASE ReadUsage(s) \/ ReadBudget(s)
        <5>1. CASE Become(s, [req[s] EXCEPT !.pc = "budget", !.cap = 0])
          BY <5>1 DEF Become, TypeOK, Request
        <5>2. CASE Become(s, [req[s] EXCEPT !.pc = "admitted", !.read = req[s].day])
          BY <5>2 DEF Become, TypeOK, Request
        <5>3. QED
          BY <4>5, <5>1, <5>2, <2>b DEF ReadUsage, ReadBudget
      <4>6. CASE RecordSuccess(s)
        BY <4>6 DEF RecordSuccess, Become, TypeOK, Request
      <4>7. CASE Save(s) \/ Finalize(s)
        <5>1. CASE Become(s, [req[s] EXCEPT !.pc = "teardown", !.saved = TRUE])
          BY <5>1 DEF Become, TypeOK, Request
        <5>2. CASE Become(s, [req[s] EXCEPT !.pc = "done", !.log = Append(@, "error"),
                                            !.finalized = TRUE])
          BY <5>2 DEF Become, TypeOK, Request
        <5>3. QED
          BY <4>7, <5>1, <5>2, <2>r, <2>g DEF Save, Finalize, Stages
      <4>8. QED
        BY <2>6, <4>0, <4>1, <4>2, <4>3, <4>4, <4>5, <4>6, <4>7
    <3>3. QED
      BY <3>1, <3>2, <2>q, <2>s
  <2>7. CASE Restart
    <3>1. Calling' = {}
      BY <2>7 DEF Restart, Idle, Calling, At
    <3>2. QED
      BY <2>7, <3>1, FS_EmptySet, GuardAssumption DEF Restart, PermitsConserved
  <2>8. CASE UNCHANGED <<req, permits>>
    BY <2>8, <2>s DEF Calling, At
  <2>9. QED
    BY <2>1, <2>2, <2>3, <2>4, <2>5, <2>6, <2>7, <2>8
    DEF Next, Serve, SetCap, Midnight, vars
<1>3. QED
  BY <1>1, <1>2, GuardType, PTL DEF Spec

-----------------------------------------------------------------------------
(* The strengthening for the call log: what the record of a request says   *)
(* at each stage of what was logged, counted and kept for it.              *)
Unopened == {"idle", "lookup", "gates"}
PastBudget == {"admitted", "queued", "calling", "record"}

BooksOf(r) ==
  /\ r.pc \in Unopened => r.day = NoDay
  /\ r.pc \in Unopened \cup Pinned => r.log = <<>> /\ ~r.finalized /\ ~r.counted /\ ~r.saved
  /\ r.pc \in PastBudget => r.read = r.day
  /\ r.pc = "save" => r.counted /\ r.finalized /\ Len(r.log) = 1 /\ r.day # NoDay
  /\ r.pc = "teardown" => /\ Len(r.log) = IF r.finalized THEN 1 ELSE 0
                          /\ r.finalized => r.day # NoDay
  /\ r.pc = "done" => Len(r.log) = IF r.day = NoDay \/ (r.raised /\ ~r.finalized) THEN 0 ELSE 1
  /\ r.saved => r.counted
  /\ r.log = <<"daily_limit_reached">> => r.day \in Days

Books == RefusalStands /\ \A s \in Slots : BooksOf(req[s])

LEMMA OneLine ==
  ASSUME NEW x
  PROVE  /\ Len(Append(<<>>, x)) = 1 /\ Len(<<>>) = 0
         /\ Append(<<>>, x) = <<"daily_limit_reached">> => x = "daily_limit_reached"
         /\ <<>> # <<"daily_limit_reached">>
<1>1. Append(<<>>, x) = <<x>>
  OBVIOUS
<1>2. Len(<<x>>) = 1 /\ <<x>>[1] = x /\ Len(<<>>) = 0
  OBVIOUS
<1>3. <<x>> = <<"daily_limit_reached">> => x = "daily_limit_reached"
  OBVIOUS
<1>4. <<>> # <<"daily_limit_reached">>
  OBVIOUS
<1> QED BY <1>1, <1>2, <1>3, <1>4

LEMMA BooksInit == Init => Books
<1>1. BooksOf(Idle) /\ Idle.log # <<"daily_limit_reached">>
  BY OneLine DEF Idle, BooksOf, Unopened, Pinned, PastBudget
<1> QED BY <1>1 DEF Init, Books, RefusalStands

(* The budget of a day never shrinks, and only counting raises it.         *)
BudgetGrows == budget' \in [Days -> Nat] /\ \A d \in Days : budget'[d] >= budget[d]

LEMMA BooksFollow ==
  ASSUME TypeOK, Books, BudgetGrows, NEW s \in Slots, NEW r, Become(s, r), BooksOf(r),
         r.log = <<"daily_limit_reached">> =>
           \/ r.day = req[s].day /\ r.log = req[s].log
           \/ budget[r.day] >= GlobalBudget
  PROVE  Books'
<1>1. req' = [req EXCEPT ![s] = r] /\ req \in [Slots -> Request]
  BY DEF Become, TypeOK
<1>2. ASSUME NEW o \in Slots PROVE BooksOf(req'[o])
  BY <1>1, <1>2 DEF Books
<1>3. ASSUME NEW o \in Slots, req'[o].log = <<"daily_limit_reached">>
      PROVE  budget'[req'[o].day] >= GlobalBudget
  <2>1. req'[o].day \in Days
    BY <1>2, <1>3 DEF BooksOf
  <2>2. budget[req'[o].day] >= GlobalBudget
    <3>1. CASE o = s
      BY <1>1, <1>3, <3>1 DEF Books, RefusalStands
    <3>2. CASE o # s
      BY <1>1, <1>3, <3>2 DEF Books, RefusalStands
    <3> QED BY <3>1, <3>2
  <2>3. /\ budget[req'[o].day] \in Nat /\ budget'[req'[o].day] \in Nat
        /\ budget'[req'[o].day] >= budget[req'[o].day]
    BY <2>1 DEF BudgetGrows, TypeOK
  <2> QED BY <2>2, <2>3, GuardAssumption
<1> QED BY <1>2, <1>3 DEF Books, RefusalStands

LEMMA BudgetOnlyGrows == ASSUME TypeOK, [Next]_vars PROVE BudgetGrows
<1>1. CASE budget' = budget
  BY <1>1 DEF TypeOK, BudgetGrows
<1>2. ASSUME NEW s \in Slots, RecordSuccess(s) PROVE BudgetGrows
  <2>1. budget' = [budget EXCEPT ![req[s].day] = @ + 1] /\ budget \in [Days -> Nat]
    BY <1>2 DEF RecordSuccess, CountingDay, TypeOK
  <2> QED BY <2>1, BumpType DEF BudgetGrows
<1>3. budget' = budget \/ \E s \in Slots : RecordSuccess(s)
  BY QuietStep DEF Quiet, BudgetQuiet, LetIn, LetOn
<1> QED BY <1>1, <1>2, <1>3

(* No other step marks a request as counted.                               *)
LEMMA OnlyCounting ==
  ASSUME TypeOK, [Next]_vars, NEW s \in Slots, req'[s].counted, ~req[s].counted
  PROVE  RecordSuccess(s)
<1>k. ASSUME NEW o \in Slots, NEW r, Become(o, r), r.counted => req[o].counted PROVE FALSE
  BY <1>k DEF Become, TypeOK
<1>s. ASSUME NEW o \in Slots, NEW r, Become(o, r), r.counted = req[o].counted PROVE FALSE
  BY <1>s, <1>k
<1>t. ASSUME NEW o \in Slots PROVE req[o] \in Request
  BY DEF TypeOK
<1>r. ASSUME NEW o \in Slots, Raise(o) PROVE FALSE
  BY <1>r, <1>s, <1>t DEF Raise, Request
<1>g. ASSUME NEW o \in Slots, NEW stage, Goto(o, stage) PROVE FALSE
  BY <1>g, <1>s, <1>t DEF Goto, Request
<1>b. ASSUME NEW o \in Slots, NEW refusal, Block(o, refusal) PROVE FALSE
  BY <1>b, <1>s, <1>t DEF Block, Request
<1>1. ASSUME NEW o \in Slots, Arrive(o) PROVE FALSE
  BY <1>1, <1>k DEF Arrive, Idle
<1>2. ASSUME NEW o \in Slots, Serve(o), ~RecordSuccess(o) PROVE FALSE
  <2>1. CASE Lookup(o) \/ Prepare(o) \/ Acquire(o) \/ AcquireTimeout(o) \/ CallFails(o)
             \/ NothingToAsk(o) \/ RecordFails(o)
    BY <2>1, <1>g, <1>r DEF Lookup, Prepare, Acquire, AcquireTimeout, CallFails, NothingToAsk,
       RecordFails
  <2>2. CASE \E allowed \in BOOLEAN : Gates(o, allowed)
    BY <2>2, <1>b, <1>s, <1>t DEF Gates, Request
  <2>3. CASE ReadCap(o) \/ GateReadFails(o) \/ AttemptFails(o) \/ CallReturns(o)
    BY <2>3, <1>s, <1>t DEF ReadCap, GateReadFails, AttemptFails, CallReturns, Request
  <2>4. CASE ReadUsage(o) \/ ReadBudget(o)
    BY <2>4, <1>b, <1>s, <1>t DEF ReadUsage, ReadBudget, Request
  <2>5. CASE Save(o) \/ Finalize(o)
    BY <2>5, <1>r, <1>g, <1>s, <1>t DEF Save, Finalize, Request
  <2>6. CASE Respond(o)
    BY <2>6, <1>k DEF Respond, Idle
  <2> QED BY <1>2, <2>1, <2>2, <2>3, <2>4, <2>5, <2>6 DEF Serve
<1>3. ASSUME NEW o \in Slots, RecordSuccess(o), o # s PROVE FALSE
  BY <1>3 DEF RecordSuccess, Become, TypeOK
<1>4. CASE UNCHANGED req
  BY <1>4
<1>5. CASE Restart
  BY <1>5 DEF Restart, Idle
<1> QED
  BY <1>1, <1>2, <1>3, <1>4, <1>5 DEF Next, SetCap, Midnight, vars

LEMMA BooksStep == ASSUME TypeOK, GuardInv, Books, [Next]_vars PROVE Books'
<1> USE OneLine DEF Pinned, Unopened, PastBudget
<1>d. NoDay \notin Days /\ today \in Days
  BY GuardAssumption DEF Days, NoDay, TypeOK
<1>i. BooksOf(Idle) /\ Idle.log = <<>>
  BY DEF BooksOf, Idle
<1>f. ASSUME NEW s \in Slots, NEW r, Become(s, r), BooksOf(r),
             r.log = <<"daily_limit_reached">> =>
               \/ r.day = req[s].day /\ r.log = req[s].log
               \/ budget[r.day] >= GlobalBudget
      PROVE  Books'
  BY <1>f, BooksFollow, BudgetOnlyGrows
<1>b. ASSUME NEW s \in Slots, NEW refusal, Block(s, refusal), req[s].pc \in {"gates", "usage", "budget"},
             refusal = "daily_limit_reached" => req[s].pc = "budget" /\ budget[req[s].day] >= GlobalBudget
      PROVE  Books'
  <2> DEFINE r == [req[s] EXCEPT !.pc = IF Upfront(req[s].route) THEN "done" ELSE "teardown",
                                 !.day = IF @ = NoDay THEN today ELSE @,
                                 !.cap = 0, !.log = Append(@, refusal),
                                 !.finalized = TRUE, !.raised = TRUE]
  <2>1. req[s] \in Request /\ BooksOf(req[s]) /\ (req[s].pc # "gates" => req[s].day \in Days)
    BY <1>b DEF TypeOK, Books, GuardInv, DayPinned
  <2>2. r.day \in Days /\ r.finalized /\ r.saved = req[s].saved /\ r.counted = req[s].counted
        /\ r.log = Append(<<>>, refusal) /\ r.pc \in {"done", "teardown"}
        /\ (req[s].pc # "gates" => r.day = req[s].day)
    BY <1>b, <1>d, <2>1 DEF Request, BooksOf
  <2>3. Become(s, r)
    BY <1>b DEF Block
  <2> HIDE DEF r
  <2>4. BooksOf(r)
    BY <1>d, <2>1, <2>2 DEF BooksOf
  <2>5. r.log = <<"daily_limit_reached">> => budget[r.day] >= GlobalBudget
    BY <1>b, <2>2
  <2> QED BY <1>f, <2>3, <2>4, <2>5
<1>r. ASSUME NEW s \in Slots, Raise(s), req[s].pc \in {"lookup", "save"} \cup Pinned PROVE Books'
  <2>1. req[s] \in Request /\ BooksOf(req[s])
    BY DEF TypeOK, Books
  <2>2. BooksOf([req[s] EXCEPT !.pc = "teardown", !.raised = TRUE, !.tries = 0])
    BY <1>r, <2>1 DEF BooksOf, Request
  <2> QED BY <1>r, <1>f, <2>1, <2>2 DEF Raise, Request
<1>g. ASSUME NEW s \in Slots, NEW stage \in Stages, Goto(s, stage), req[s].pc \in {"lookup"} \cup Pinned,
             stage \in Unopened => req[s].pc \in Unopened,
             stage \in PastBudget \/ stage \in Unopened \/ stage = "teardown",
             stage \in PastBudget => req[s].pc \in PastBudget
      PROVE  Books'
  <2>1. req[s] \in Request /\ BooksOf(req[s])
    BY DEF TypeOK, Books
  <2>2. BooksOf([req[s] EXCEPT !.pc = stage])
    BY <1>g, <2>1 DEF BooksOf, Request
  <2> QED BY <1>g, <1>f, <2>1, <2>2 DEF Goto, Request
<1>t. ASSUME NEW s \in Slots PROVE req[s] \in Request /\ BooksOf(req[s])
  BY DEF TypeOK, Books
<1>1. ASSUME NEW s \in Slots, Arrive(s) PROVE Books'
  <2>1. PICK u \in Users, route \in Routes :
          Become(s, [Idle EXCEPT !.pc = IF Upfront(route) THEN "gates" ELSE "lookup",
                                 !.user = u, !.route = route])
    BY <1>1 DEF Arrive
  <2>2. BooksOf([Idle EXCEPT !.pc = IF Upfront(route) THEN "gates" ELSE "lookup",
                             !.user = u, !.route = route])
    BY DEF BooksOf, Idle
  <2> QED BY <1>f, <2>1, <2>2 DEF Idle
<1>2. ASSUME NEW s \in Slots, Lookup(s) PROVE Books'
  BY <1>2, <1>g, <1>r DEF Lookup, Stages, At
<1>3. ASSUME NEW s \in Slots, NEW allowed \in BOOLEAN, Gates(s, allowed) PROVE Books'
  <2>1. CASE Become(s, [req[s] EXCEPT !.pc = "cap", !.day = today])
    <3>1. BooksOf([req[s] EXCEPT !.pc = "cap", !.day = today])
      BY <1>3, <1>t DEF BooksOf, Request, Gates, At
    <3>2. req[s].log = <<>>
      BY <1>3, <1>t DEF BooksOf, Gates, At
    <3> QED BY <1>f, <1>t, <2>1, <3>1, <3>2 DEF Request
  <2> QED BY <1>3, <1>b, <2>1 DEF Gates, At
<1>4. ASSUME NEW s \in Slots, ReadCap(s) PROVE Books'
  <2> DEFINE c == EffectiveCap(req[s].user, KindOf(req[s].route), req[s].day)
  <2>1. Become(s, [req[s] EXCEPT !.pc = "usage", !.cap = c])
    BY <1>4 DEF ReadCap
  <2> HIDE DEF c
  <2>2. BooksOf([req[s] EXCEPT !.pc = "usage", !.cap = c])
    BY <1>4, <1>t DEF BooksOf, Request, ReadCap, At
  <2> QED BY <1>f, <1>t, <2>1, <2>2 DEF Request
<1>5. ASSUME NEW s \in Slots, ReadUsage(s) PROVE Books'
  <2>1. CASE Become(s, [req[s] EXCEPT !.pc = "budget", !.cap = 0])
    <3>1. BooksOf([req[s] EXCEPT !.pc = "budget", !.cap = 0])
      BY <1>5, <1>t DEF BooksOf, Request, ReadUsage, At
    <3> QED BY <1>f, <1>t, <2>1, <3>1 DEF Request
  <2> QED BY <1>5, <1>b, <2>1 DEF ReadUsage, At
<1>6. ASSUME NEW s \in Slots, ReadBudget(s) PROVE Books'
  <2>1. CASE Become(s, [req[s] EXCEPT !.pc = "admitted", !.read = req[s].day])
    <3>1. BooksOf([req[s] EXCEPT !.pc = "admitted", !.read = req[s].day])
      BY <1>6, <1>t DEF BooksOf, Request, ReadBudget, At
    <3> QED BY <1>f, <1>t, <2>1, <3>1 DEF Request
  <2> QED BY <1>6, <1>b, <2>1 DEF ReadBudget, BudgetSpent, At
<1>7. ASSUME NEW s \in Slots, GateReadFails(s) PROVE Books'
  <2> DEFINE r == [req[s] EXCEPT !.pc = IF Upfront(req[s].route) THEN "done" ELSE "teardown",
                                 !.cap = 0, !.raised = TRUE]
  <2>1. r.log = req[s].log /\ r.day = req[s].day
    BY <1>t DEF Request
  <2>2. BooksOf(r)
    BY <1>7, <1>t DEF BooksOf, Request, GateReadFails
  <2> QED BY <1>7, <1>f, <2>1, <2>2 DEF GateReadFails
<1>8. ASSUME NEW s \in Slots, Prepare(s) PROVE Books'
  BY <1>8, <1>g, <1>r DEF Prepare, At, Stages
<1>9. ASSUME NEW s \in Slots, Acquire(s) PROVE Books'
  BY <1>9, <1>g DEF Acquire, At, Stages
<1>10. ASSUME NEW s \in Slots, AcquireTimeout(s) PROVE Books'
  BY <1>10, <1>r DEF AcquireTimeout, At
<1>11. ASSUME NEW s \in Slots, AttemptFails(s) PROVE Books'
  <2>1. BooksOf([req[s] EXCEPT !.tries = @ + 1])
    BY <1>11, <1>t DEF BooksOf, Request, AttemptFails, At
  <2> QED BY <1>11, <1>f, <1>t, <2>1 DEF AttemptFails, Request
<1>12. ASSUME NEW s \in Slots, CallFails(s) PROVE Books'
  BY <1>12, <1>r DEF CallFails, At
<1>13. ASSUME NEW s \in Slots, CallReturns(s) PROVE Books'
  <2>1. PICK p \in {"teardown", "record"} : Become(s, [req[s] EXCEPT !.tries = 0, !.pc = p])
    BY <1>13 DEF CallReturns, AfterCall
  <2>2. BooksOf([req[s] EXCEPT !.tries = 0, !.pc = p])
    BY <1>13, <1>t DEF BooksOf, Request, CallReturns, At
  <2> QED BY <1>f, <1>t, <2>1, <2>2 DEF Request
<1>14. ASSUME NEW s \in Slots, NothingToAsk(s) PROVE Books'
  BY <1>14, <1>g DEF NothingToAsk, AfterCall, At, Stages
<1>15. ASSUME NEW s \in Slots, RecordSuccess(s) PROVE Books'
  <2>1. PICK p \in {"save", "teardown"} :
          Become(s, [req[s] EXCEPT !.pc = p, !.log = Append(@, "success"), !.finalized = TRUE,
                                   !.counted = TRUE])
    BY <1>15 DEF RecordSuccess
  <2> DEFINE r == [req[s] EXCEPT !.pc = p, !.log = Append(@, "success"), !.finalized = TRUE,
                                 !.counted = TRUE]
  <2>2. /\ r.pc = p /\ r.log = Append(<<>>, "success") /\ r.finalized /\ r.counted
        /\ r.day = req[s].day
    BY <1>15, <1>t DEF RecordSuccess, At, BooksOf, Request
  <2>3. req[s].day \in Days
    BY <1>15 DEF RecordSuccess, At, GuardInv, DayPinned
  <2> HIDE DEF r
  <2>4. BooksOf(r)
    BY <1>d, <2>2, <2>3 DEF BooksOf
  <2>5. r.log # <<"daily_limit_reached">>
    BY <2>2
  <2> QED BY <1>f, <2>1, <2>4, <2>5 DEF r
<1>16. ASSUME NEW s \in Slots, RecordFails(s) PROVE Books'
  BY <1>16, <1>r DEF RecordFails, At
<1>17. ASSUME NEW s \in Slots, Save(s) PROVE Books'
  <2>1. CASE Become(s, [req[s] EXCEPT !.pc = "teardown", !.saved = TRUE])
    <3>1. BooksOf([req[s] EXCEPT !.pc = "teardown", !.saved = TRUE])
      BY <1>17, <1>t DEF BooksOf, Request, Save, At
    <3> QED BY <1>f, <1>t, <2>1, <3>1 DEF Request
  <2> QED BY <1>17, <1>r, <2>1 DEF Save, At
<1>18. ASSUME NEW s \in Slots, Finalize(s) PROVE Books'
  <2>0. At(s, "teardown") /\ req[s].day \in Days \cup {NoDay}
    BY <1>18, <1>t DEF Finalize, Request
  <2>1. CASE req[s].day # NoDay /\ ~req[s].finalized
    <3> DEFINE r == [req[s] EXCEPT !.pc = "done", !.log = Append(@, "error"), !.finalized = TRUE]
    <3>1. Become(s, r)
      BY <1>18, <2>1 DEF Finalize
    <3>2. Len(req[s].log) = 0 /\ req[s].log \in Seq(Refusals \cup {"success", "error"})
      BY <1>t, <2>0, <2>1 DEF BooksOf, At, Request
    <3>3. req[s].log = <<>>
      BY <3>2, EmptySeq
    <3>4. /\ r.pc = "done" /\ r.log = Append(<<>>, "error") /\ r.finalized
          /\ r.day = req[s].day /\ r.saved = req[s].saved /\ r.counted = req[s].counted
      BY <1>t, <3>3 DEF Request
    <3> HIDE DEF r
    <3>5. BooksOf(r) /\ r.log # <<"daily_limit_reached">>
      BY <1>t, <2>1, <3>4 DEF BooksOf
    <3> QED BY <1>f, <3>1, <3>5
  <2>2. CASE ~(req[s].day # NoDay /\ ~req[s].finalized)
    <3>1. BooksOf([req[s] EXCEPT !.pc = "done"])
      BY <1>t, <2>0, <2>2 DEF BooksOf, Request, At
    <3> QED BY <1>18, <1>f, <1>t, <2>2, <3>1 DEF Finalize, Goto, Request
  <2> QED BY <2>1, <2>2
<1>19. ASSUME NEW s \in Slots, Respond(s) PROVE Books'
  BY <1>19, <1>f, <1>i DEF Respond
<1>20. CASE UNCHANGED <<req, budget>>
  BY <1>20 DEF Books, RefusalStands
<1>21. CASE Restart
  BY <1>21, <1>i DEF Restart, Books, RefusalStands
<1>22. QED
  BY <1>1, <1>2, <1>3, <1>4, <1>5, <1>6, <1>7, <1>8, <1>9, <1>10, <1>11, <1>12, <1>13, <1>14,
     <1>15, <1>16, <1>17, <1>18, <1>19, <1>20, <1>21 DEF Next, Serve, SetCap, Midnight, vars, db

LEMMA BooksInvariant == Spec => []Books
<1>1. TypeOK /\ GuardInv /\ Books /\ [Next]_vars => Books'
  BY BooksStep
<1>2. QED
  BY <1>1, BooksInit, GuardInvariant, GuardType, PTL DEF Spec

(* The guard's books, whatever fails, raises, is refused or interrupted by *)
(* a restart: what is kept was counted, a request that opened the guard    *)
(* has left exactly one line in the call log, and a refusal for a spent    *)
(* budget stays true (QuotaGuard.record_success, _block and finalize).     *)
THEOREM BooksKept == Spec => [](SavedIsCounted /\ OneCallLogged /\ RefusalStands)
<1>1. Books => SavedIsCounted /\ OneCallLogged /\ RefusalStands
  BY DEF Books, BooksOf, SavedIsCounted, OneCallLogged, At
<1>2. QED
  BY <1>1, BooksInvariant, PTL

(* A call is counted on the day whose budget let it in, also when midnight *)
(* passes between the gate and the provider's answer.                      *)
THEOREM CountedOnItsDay == Spec => CountedOnDayRead
<1> DEFINE CountsRightDay ==
      \A s \in Slots : req'[s].counted /\ ~req[s].counted =>
        \A d \in Days : budget'[d] = IF d = req[s].read THEN budget[d] + 1 ELSE budget[d]
<1>1. TypeOK /\ GuardInv /\ Books /\ [Next]_vars => [CountsRightDay]_vars
  <2> SUFFICES ASSUME TypeOK, GuardInv, Books, [Next]_vars,
                      NEW s \in Slots, req'[s].counted, ~req[s].counted
               PROVE  \A d \in Days : budget'[d] = IF d = req[s].read THEN budget[d] + 1 ELSE budget[d]
    OBVIOUS
  <2>1. RecordSuccess(s)
    BY OnlyCounting
  <2>2. req[s].read = req[s].day
    BY <2>1 DEF RecordSuccess, At, Books, BooksOf, PastBudget
  <2> QED BY <2>1, <2>2 DEF RecordSuccess, CountingDay, TypeOK
<1>2. QED
  BY <1>1, GuardType, GuardInvariant, BooksInvariant, PTL DEF Spec, CountedOnDayRead

-----------------------------------------------------------------------------
(* Every set of numbers has a least one: induction, without a predicate.   *)
Precedes == {p \in Nat \X Nat : p[1] < p[2]}

LEMMA PrecedesIsWellFounded == IsWellFoundedOn(Precedes, Nat)
<1>1. Precedes = OpToRel(<, Nat)
  BY DEF Precedes, OpToRel
<1>2. QED
  BY <1>1, NatLessThanWellFounded

LEMMA LeastNumber ==
  ASSUME NEW T, T \subseteq Nat, T # {}
  PROVE  \E x \in T : \A y \in T : x <= y
<1>1. PICK x \in T : \A y \in T : ~(<<y, x>> \in Precedes)
  BY PrecedesIsWellFounded, WFMin
<1>2. ASSUME NEW y \in T PROVE x <= y
  <2>1. x \in Nat /\ y \in Nat
    OBVIOUS
  <2>2. <<y, x>> \notin Precedes
    BY <1>1
  <2>3. QED
    BY <2>1, <2>2 DEF Precedes
<1>3. QED
  BY <1>2

(* What is so at 0 and goes from each number below n to the next is so     *)
(* up to n.                                                                *)
LEMMA UpTo ==
  ASSUME NEW n \in Nat, NEW T, 0 \in T, \A i \in 1 .. n : i - 1 \in T => i \in T
  PROVE  0 .. n \subseteq T
<1> SUFFICES ASSUME ~(0 .. n \subseteq T) PROVE FALSE
  OBVIOUS
<1> DEFINE U == (0 .. n) \ T
<1>1. PICK x \in U : \A y \in U : x <= y
  <2>1. U \subseteq Nat /\ U # {}
    OBVIOUS
  <2> HIDE DEF U
  <2>2. QED
    BY <2>1, LeastNumber
<1>2. x \in 1 .. n /\ x - 1 \in 0 .. n /\ ~(x <= x - 1)
  BY <1>1
<1>3. QED
  BY <1>1, <1>2

-----------------------------------------------------------------------------
(* How the sum of f over S is reached: by taking away one element, always  *)
(* the same one of the same set.                                           *)
OneOf(T) == CHOOSE x \in T : TRUE

Summing(f, S, sum) ==
  sum = [T \in SUBSET S |-> IF T = {} THEN 0 ELSE f[OneOf(T)] + sum[T \ {OneOf(T)}]]

LEMMA SumIsThere ==
  ASSUME NEW S, IsFiniteSet(S), NEW f
  PROVE  \E sum : Summing(f, S, sum)
<1> DEFINE n == Cardinality(S)
           Small(i) == {T \in SUBSET S : Cardinality(T) <= i}
           OneMore(sum, T) == IF T = {} THEN 0 ELSE f[OneOf(T)] + sum[T \ {OneOf(T)}]
           SumsSmall(i, sum) == sum = [T \in Small(i) |-> OneMore(sum, T)]
           N == {i \in 0 .. n : \E sum : SumsSmall(i, sum)}
<1>1. n \in Nat /\ \A T \in SUBSET S : IsFiniteSet(T) /\ Cardinality(T) \in Nat /\ Cardinality(T) <= n
  BY FS_CardinalityType, FS_Subset
<1>2. ASSUME NEW T \in SUBSET S, T # {}
      PROVE  /\ OneOf(T) \in T /\ T \ {OneOf(T)} \in SUBSET S
             /\ Cardinality(T \ {OneOf(T)}) = Cardinality(T) - 1
  <2>1. OneOf(T) \in T
    BY <1>2 DEF OneOf
  <2>2. QED
    BY <1>1, <2>1, FS_RemoveElement
<1>3. 0 \in N
  <2>1. \A T \in Small(0) : T = {}
    BY <1>1, FS_EmptySet
  <2>2. SumsSmall(0, [T \in Small(0) |-> 0])
    BY <2>1
  <2> HIDE DEF SumsSmall
  <2>3. QED
    BY <1>1, <2>2
<1>4. ASSUME NEW i \in 1 .. n, i - 1 \in N PROVE i \in N
  <2>1. PICK g : SumsSmall(i - 1, g)
    BY <1>4
  <2>2. \A T \in Small(i - 1) : g[T] = OneMore(g, T)
    BY <2>1
  <2> DEFINE h == [T \in Small(i) |-> OneMore(g, T)]
  <2>3. \A T \in Small(i - 1) : T \in Small(i) /\ h[T] = g[T]
    <3>1. \A T \in Small(i - 1) : T \in Small(i)
      BY <1>1
    <3> HIDE DEF Small, OneMore
    <3>2. QED
      BY <2>2, <3>1
  <2>4. ASSUME NEW T \in Small(i) PROVE h[T] = OneMore(h, T)
    <3>1. CASE T = {}
      BY <3>1
    <3>2. CASE T # {}
      <4>1. T \ {OneOf(T)} \in Small(i - 1)
        BY <1>1, <1>2, <3>2
      <4>2. h[T] = OneMore(g, T)
        BY <2>4
      <4> HIDE DEF h, Small
      <4>3. QED
        BY <2>3, <3>2, <4>1, <4>2
    <3>3. QED
      BY <3>1, <3>2
  <2>5. SumsSmall(i, h)
    <3>1. h = [T \in Small(i) |-> h[T]]
      OBVIOUS
    <3> HIDE DEF h, Small, OneMore
    <3>2. QED
      BY <2>4, <3>1
  <2> HIDE DEF h, SumsSmall
  <2>6. QED
    BY <2>5
<1>5. n \in N
  <2> HIDE DEF N, n
  <2>1. 0 .. n \subseteq N
    BY <1>1, <1>3, <1>4, UpTo
  <2>2. QED
    BY <1>1, <2>1
<1>6. Small(n) = SUBSET S
  BY <1>1
<1>7. QED
  BY <1>5, <1>6 DEF Summing

LEMMA SumOf ==
  ASSUME NEW S, IsFiniteSet(S), NEW f
  PROVE  \E sum : /\ sum[{}] = 0
                  /\ \A T \in SUBSET S : T # {} => sum[T] = f[OneOf(T)] + sum[T \ {OneOf(T)}]
                  /\ Total(f, S) = sum[S]
<1> DEFINE sum == CHOOSE g : Summing(f, S, g)
<1>1. Total(f, S) = sum[S]
  BY DEF Total, MapThenSumSet, MapThenFoldSet, Summing, OneOf
<1>2. Summing(f, S, sum)
  BY SumIsThere
<1> HIDE DEF sum
<1>3. /\ sum[{}] = 0
      /\ \A T \in SUBSET S : T # {} => sum[T] = f[OneOf(T)] + sum[T \ {OneOf(T)}]
  BY <1>2 DEF Summing
<1>4. QED
  BY <1>1, <1>3

(* A sum of zeros is zero; one more at one place is one more in the sum.   *)
LEMMA SumOfZeros ==
  ASSUME NEW S, IsFiniteSet(S), NEW f, \A x \in S : f[x] = 0
  PROVE  Total(f, S) = 0
<1>1. PICK sum : /\ sum[{}] = 0
                 /\ \A T \in SUBSET S : T # {} => sum[T] = f[OneOf(T)] + sum[T \ {OneOf(T)}]
                 /\ Total(f, S) = sum[S]
  BY SumOf
<1> DEFINE n == Cardinality(S)
           N == {i \in 0 .. n : \A T \in SUBSET S : Cardinality(T) = i => sum[T] = 0}
<1>2. n \in Nat /\ \A T \in SUBSET S : IsFiniteSet(T) /\ Cardinality(T) \in Nat /\ Cardinality(T) <= n
  BY FS_CardinalityType, FS_Subset
<1>3. 0 \in N
  <2>1. \A T \in SUBSET S : Cardinality(T) = 0 => T = {}
    BY <1>2, FS_EmptySet
  <2>2. 0 \in 0 .. n
    BY <1>2
  <2>3. QED
    BY <1>1, <2>1, <2>2
<1>4. ASSUME NEW i \in 1 .. n, i - 1 \in N PROVE i \in N
  <2> SUFFICES ASSUME NEW T \in SUBSET S, Cardinality(T) = i PROVE sum[T] = 0
    OBVIOUS
  <2>1. T # {}
    BY FS_EmptySet
  <2>2. OneOf(T) \in T
    BY <2>1 DEF OneOf
  <2>3. Cardinality(T \ {OneOf(T)}) = i - 1 /\ T \ {OneOf(T)} \in SUBSET S
    BY <1>2, <2>2, FS_RemoveElement
  <2>4. sum[T \ {OneOf(T)}] = 0
    BY <1>4, <2>3
  <2>5. QED
    BY <1>1, <2>1, <2>2, <2>4
<1> HIDE DEF N, n
<1>5. n \in N
  <2>1. 0 .. n \subseteq N
    BY <1>2, <1>3, <1>4, UpTo
  <2>2. QED
    BY <1>2, <2>1
<1>6. QED
  BY <1>1, <1>5 DEF N, n

LEMMA SumGrows ==
  ASSUME NEW S, IsFiniteSet(S), NEW f, NEW g, NEW a,
         \A x \in S : f[x] \in Nat /\ g[x] = IF x = a THEN f[x] + 1 ELSE f[x]
  PROVE  /\ Total(f, S) \in Nat
         /\ Total(g, S) =
               Total(f, S) + IF a \in S THEN 1 ELSE 0
<1>1. PICK sum : /\ sum[{}] = 0
                 /\ \A T \in SUBSET S : T # {} => sum[T] = f[OneOf(T)] + sum[T \ {OneOf(T)}]
                 /\ Total(f, S) = sum[S]
  BY SumOf
<1>2. PICK new : /\ new[{}] = 0
                 /\ \A T \in SUBSET S : T # {} => new[T] = g[OneOf(T)] + new[T \ {OneOf(T)}]
                 /\ Total(g, S) = new[S]
  BY SumOf
<1> DEFINE n == Cardinality(S)
           Right(T) == sum[T] \in Nat /\ new[T] = sum[T] + IF a \in T THEN 1 ELSE 0
           N == {i \in 0 .. n : \A T \in SUBSET S : Cardinality(T) = i => Right(T)}
<1>3. n \in Nat /\ \A T \in SUBSET S : IsFiniteSet(T) /\ Cardinality(T) \in Nat /\ Cardinality(T) <= n
  BY FS_CardinalityType, FS_Subset
<1>4. 0 \in N
  <2>1. \A T \in SUBSET S : Cardinality(T) = 0 => T = {}
    BY <1>3, FS_EmptySet
  <2>2. 0 \in 0 .. n
    BY <1>3
  <2>3. Right({})
    BY <1>1, <1>2
  <2> HIDE DEF Right
  <2>4. QED
    BY <2>1, <2>2, <2>3
<1>5. ASSUME NEW i \in 1 .. n, i - 1 \in N PROVE i \in N
  <2> SUFFICES ASSUME NEW T \in SUBSET S, Cardinality(T) = i PROVE Right(T)
    OBVIOUS
  <2> DEFINE x == OneOf(T)
             R == T \ {x}
  <2>1. T # {}
    BY FS_EmptySet
  <2>2. x \in T
    BY <2>1 DEF OneOf
  <2>3. Cardinality(R) = i - 1 /\ R \in SUBSET S
    BY <1>3, <2>2, FS_RemoveElement
  <2>4. sum[R] \in Nat /\ new[R] = sum[R] + IF a \in R THEN 1 ELSE 0
    BY <1>5, <2>3
  <2>5. sum[T] = f[x] + sum[R] /\ new[T] = g[x] + new[R]
    BY <1>1, <1>2, <2>1
  <2>6. f[x] \in Nat /\ g[x] = (IF x = a THEN f[x] + 1 ELSE f[x])
    BY <2>2
  <2>7. a \in R <=> a \in T /\ a # x
    OBVIOUS
  <2> HIDE DEF x, R
  <2>8. QED
    BY <2>2, <2>4, <2>5, <2>6, <2>7
<1> HIDE DEF N, n
<1>6. n \in N
  <2>1. 0 .. n \subseteq N
    BY <1>3, <1>4, <1>5, UpTo
  <2>2. QED
    BY <1>3, <2>1
<1>7. QED
  BY <1>1, <1>2, <1>6 DEF N, n

-----------------------------------------------------------------------------
LEMMA CountersAreFinite == ASSUME NEW d \in Days PROVE IsFiniteSet(CountersOf(d))
<1> DEFINE pairs == Users \X Kinds
           f == [p \in pairs |-> <<p[1], p[2], d>>]
<1>1. IsFiniteSet(Kinds)
  <2>1. Kinds = ({"generate"} \cup {"discover"}) \cup {"explain"}
    BY DEF Kinds
  <2>2. IsFiniteSet({"generate"})
    BY FS_Singleton
  <2>3. QED
    BY <2>1, <2>2, FS_AddElement
<1>2. IsFiniteSet(pairs)
  BY <1>1, FS_Product, GuardAssumption
<1>3. f \in Surjection(pairs, CountersOf(d))
  <2>1. f \in [pairs -> CountersOf(d)]
    BY DEF CountersOf, CounterKeys
  <2>2. ASSUME NEW c \in CountersOf(d) PROVE \E p \in pairs : f[p] = c
    <3>1. c[1] \in Users /\ c[2] \in Kinds /\ c = <<c[1], c[2], d>>
      BY DEF CountersOf, CounterKeys
    <3>2. <<c[1], c[2]>> \in pairs /\ f[<<c[1], c[2]>>] = c
      BY <3>1
    <3>3. QED
      BY <3>2
  <2>3. QED
    BY <2>1, <2>2 DEF Surjection
<1>4. QED
  BY <1>2, <1>3, FS_Surjection

LEMMA AgreeInit == Init => CountersAgree
<1> SUFFICES ASSUME Init, NEW d \in Days PROVE budget[d] = Total(usage, CountersOf(d))
  BY DEF CountersAgree
<1>1. budget[d] = 0 /\ \A c \in CountersOf(d) : usage[c] = 0
  BY DEF Init, CountersOf
<1>2. Total(usage, CountersOf(d)) = 0
  BY <1>1, CountersAreFinite, SumOfZeros
<1>3. QED
  BY <1>1, <1>2

LEMMA AgreeStep == ASSUME TypeOK, GuardInv, CountersAgree, [Next]_vars PROVE CountersAgree'
<1>1. UNCHANGED <<usage, budget>> \/ \E s \in Slots : RecordSuccess(s)
  BY QuietStep DEF Quiet, UsageQuiet, BudgetQuiet, LetIn, LetOn
<1>2. CASE UNCHANGED <<usage, budget>>
  BY <1>2 DEF CountersAgree
<1>3. ASSUME NEW s \in Slots, RecordSuccess(s) PROVE CountersAgree'
  <2> DEFINE k == CounterOf(s)
             day == req[s].day
  <2>1. k \in CounterKeys /\ k[3] = day /\ day \in Days
    BY <1>3, CounterOfType DEF RecordSuccess, At, Pinned, GuardInv, DayPinned, CounterOf
  <2>2. usage' = [usage EXCEPT ![k] = @ + 1] /\ budget' = [budget EXCEPT ![day] = @ + 1]
    BY <1>3 DEF RecordSuccess, CountingDay
  <2>3. usage \in [CounterKeys -> Nat] /\ budget \in [Days -> Nat]
    BY DEF TypeOK
  <2> HIDE DEF k, day
  <2> SUFFICES ASSUME NEW d \in Days PROVE budget'[d] = Total(usage', CountersOf(d))
    BY DEF CountersAgree
  <2>4. \A c \in CountersOf(d) : usage[c] \in Nat /\ usage'[c] = IF c = k THEN usage[c] + 1 ELSE usage[c]
    BY <2>1, <2>2, <2>3 DEF CountersOf
  <2>5. Total(usage', CountersOf(d)) = Total(usage, CountersOf(d)) + IF k \in CountersOf(d) THEN 1 ELSE 0
    BY <2>4, CountersAreFinite, SumGrows
  <2>6. k \in CountersOf(d) <=> d = day
    BY <2>1 DEF CountersOf
  <2>7. budget[d] = Total(usage, CountersOf(d)) /\ budget[d] \in Nat
    BY <2>3 DEF CountersAgree
  <2>8. budget'[d] = IF d = day THEN budget[d] + 1 ELSE budget[d]
    BY <2>1, <2>2, <2>3
  <2>9. QED
    BY <2>5, <2>6, <2>7, <2>8
<1>4. QED
  BY <1>1, <1>2, <1>3

(* All of the guard's books, for any number of users and days: the budget  *)
(* of a day is the sum of what its users are charged, because both         *)
(* counters are bumped together, on the day of the request and not on the  *)
(* day it is by then (record_success and migration 0004).                  *)
THEOREM BooksInOrder == Spec => []BooksAreInOrder
<1>1. TypeOK /\ GuardInv /\ CountersAgree /\ [Next]_vars => CountersAgree'
  BY AgreeStep
<1>2. Spec => []CountersAgree
  BY <1>1, AgreeInit, GuardInvariant, GuardType, PTL DEF Spec
<1>3. CountersAgree /\ (SavedIsCounted /\ OneCallLogged /\ RefusalStands) => BooksAreInOrder
  BY DEF BooksAreInOrder
<1>4. QED
  BY <1>2, <1>3, BooksKept, PTL
=============================================================================
