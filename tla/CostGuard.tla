----------------------------- MODULE CostGuard -----------------------------
(***************************************************************************)
(* The LLM cost guard around one provider call: QuotaGuard                 *)
(* (apps/api/app/quota.py), the concurrency limiter (app/llm_runner.py),   *)
(* the counters in Postgres (repositories/usage.py and migration 0004),    *)
(* the retry helper (lengua_core/llm/retry.py) and the order in which      *)
(* /generate, /discover, /discover/accept and /explain use them.           *)
(*                                                                         *)
(* A slot is a request the server has in hand; it is reused when the       *)
(* response is sent.  What a request does between two awaits is one step.  *)
(***************************************************************************)
EXTENDS Integers, Sequences, FiniteSetsExt

CONSTANTS Slots,            \* requests the server handles at the same time
          Users,
          Verified,         \* the users whose e-mail is verified
          FirstDay,         \* the UTC day a user's profile was created on
          Routes,           \* the LLM routes in use, of AllRoutes
          GlobalBudget,     \* global_daily_budget
          ServerMax,        \* max_<kind>_per_day
          ServerDefault,    \* default_<kind>_per_day
          Day0Cap,          \* new_account_day0_generate_cap
          Overrides,        \* caps users may store in user_settings
          Unset,            \* no usable cap stored: missing, blank or not a number
          MaxConcurrency,   \* llm_max_concurrency
          MaxAttempts,      \* DEFAULT_MAX_ATTEMPTS
          MaxDay,           \* bound of the model: the last UTC day
          MaxRestarts       \* bound of the model: crashes of the process

AllRoutes == {"generate", "accept", "discover", "explain"}
Kinds     == {"generate", "discover", "explain"}
Days      == 0 .. MaxDay
NoDay     == -1

ASSUME GuardAssumption ==
  /\ Slots # {} /\ IsFiniteSet(Slots)
  /\ Users # {} /\ IsFiniteSet(Users) /\ Verified \subseteq Users
  /\ FirstDay \in [Users -> Int]
  /\ Routes \subseteq AllRoutes
  /\ GlobalBudget \in Nat /\ Day0Cap \in Nat
  /\ ServerMax \in [Kinds -> Nat]
  /\ ServerDefault \in [Kinds -> Nat]
  /\ \A k \in Kinds : ServerDefault[k] <= ServerMax[k]
  /\ Overrides \subseteq Int /\ Unset \notin Int
  /\ MaxConcurrency \in Nat /\ MaxAttempts \in Nat \ {0}
  /\ MaxDay \in Nat /\ MaxRestarts \in Nat

VARIABLES
  req,        \* req[s]: the request in slot s and its QuotaGuard
  permits,    \* free permits of the semaphore
  usage,      \* llm_usage: count by <<user, kind, day>>
  budget,     \* llm_budget: count by day
  override,   \* the caps in user_settings, by <<user, kind>>
  today,      \* the UTC day
  restarts    \* times the process was restarted

vars == <<req, permits, usage, budget, override, today, restarts>>
db   == <<usage, budget, override>>
env  == <<today, restarts>>

CounterKeys == Users \X Kinds \X Days

(* /discover/accept is metered as generate. *)
KindOf(route) == IF route = "accept" THEN "generate" ELSE route

(* The routes whose guard is checked by the dependency, before the body. *)
Upfront(route) == route \in {"generate", "accept"}

Smaller(a, b) == IF a < b THEN a ELSE b

-----------------------------------------------------------------------------
(* What the handlers of the four gates tell the client: it is the gate     *)
(* that counts as hit.                                                     *)
Refusals == {"email_unverified", "rate_limited", "daily_cap_reached", "daily_limit_reached"}

(* The request record.  `log` is the sequence of record_call results, with *)
(* the refusal of the gate that was hit for one that is blocked,           *)
(* `finalized` the guard's flag; the last four fields are history: whether *)
(* something raised, whether the call was counted, whether its result was  *)
(* committed, and the day whose budget row was read.                       *)
Idle == [pc |-> "idle", user |-> CHOOSE u \in Users : TRUE, route |-> "generate",
         day |-> NoDay, cap |-> 0, tries |-> 0, log |-> <<>>, finalized |-> FALSE,
         raised |-> FALSE, counted |-> FALSE, saved |-> FALSE, read |-> NoDay]

Init == /\ req = [s \in Slots |-> Idle]
        /\ permits = MaxConcurrency
        /\ usage = [c \in CounterKeys |-> 0]
        /\ budget = [d \in Days |-> 0]
        /\ override = [k \in Users \X Kinds |-> Unset]
        /\ today = 0
        /\ restarts = 0

At(s, stage) == req[s].pc = stage

(* The request in slot s becomes r; the others are left alone. *)
Become(s, r) == req' = [req EXCEPT ![s] = r]

Goto(s, stage) == Become(s, [req[s] EXCEPT !.pc = stage])

(* An exception leaves the body; the dependency's finally comes next. *)
Raise(s) == Become(s, [req[s] EXCEPT !.pc = "teardown", !.raised = TRUE, !.tries = 0])

-----------------------------------------------------------------------------
(* A request comes in.  /discover and /explain look at their caches first. *)
Arrive(s) ==
  /\ At(s, "idle")
  /\ \E u \in Users, route \in Routes :
       Become(s, [Idle EXCEPT !.pc = IF Upfront(route) THEN "gates" ELSE "lookup",
                              !.user = u, !.route = route])
  /\ UNCHANGED <<permits, db, env>>

(* Unknown language, invalid word, no such card: an error; a cached preview *)
(* or explanation: an answer.  Neither has touched the guard.               *)
Lookup(s) ==
  /\ At(s, "lookup")
  /\ \/ Goto(s, "gates")
     \/ Goto(s, "teardown")
     \/ Raise(s)
  /\ UNCHANGED <<permits, db, env>>

(* _block that does not set _finalized. *)
BlockUnfinalized(s, refusal) ==
  Become(s, [req[s] EXCEPT !.pc = IF Upfront(req[s].route) THEN "done" ELSE "teardown",
                           !.day = IF @ = NoDay THEN today ELSE @,
                           !.cap = 0, !.log = Append(@, refusal), !.raised = TRUE])

(* _block: the call is logged as blocked and the guard's span ended.  The  *)
(* exception leaves the dependency before its yield when the guard was     *)
(* checked up front, so its finally is not reached.                        *)
Block(s, refusal) ==
  Become(s, [req[s] EXCEPT !.pc = IF Upfront(req[s].route) THEN "done" ELSE "teardown",
                           !.day = IF @ = NoDay THEN today ELSE @,
                           !.cap = 0, !.log = Append(@, refusal),
                           !.finalized = TRUE, !.raised = TRUE])

(* check() up to its first await: the day is pinned, the span opened, the  *)
(* e-mail gate passed and the rate limiter hit, which answers `allowed`.   *)
Gates(s, allowed) ==
  /\ At(s, "gates")
  /\ \/ req[s].user \notin Verified /\ Block(s, "email_unverified")
     \/ req[s].user \in Verified /\ ~allowed /\ Block(s, "rate_limited")
     \/ /\ req[s].user \in Verified /\ allowed
        /\ Become(s, [req[s] EXCEPT !.pc = "cap", !.day = today])
  /\ UNCHANGED <<permits, db, env>>

(* resolve_user_cap: the user's own cap, never above the server's maximum. *)
UserCap(u, k) ==
  IF override[<<u, k>>] = Unset THEN ServerDefault[k]
                                ELSE Smaller(override[<<u, k>>], ServerMax[k])

(* The clamp of an account's first day, on generate only. *)
EffectiveCap(u, k, d) ==
  IF k = "generate" /\ FirstDay[u] = d THEN Smaller(UserCap(u, k), Day0Cap) ELSE UserCap(u, k)

ReadCap(s) ==
  /\ At(s, "cap")
  /\ Become(s, [req[s] EXCEPT !.pc = "usage",
                !.cap = EffectiveCap(req[s].user, KindOf(req[s].route), req[s].day)])
  /\ UNCHANGED <<permits, db, env>>

CounterOf(s) == <<req[s].user, KindOf(req[s].route), req[s].day>>

CapReachedLate(s) == usage[CounterOf(s)] > req[s].cap
CapReached(s)     == usage[CounterOf(s)] >= req[s].cap

ReadUsage(s) ==
  /\ At(s, "usage")
  /\ IF CapReached(s)
     THEN Block(s, "daily_cap_reached")
     ELSE Become(s, [req[s] EXCEPT !.pc = "budget", !.cap = 0])
  /\ UNCHANGED <<permits, db, env>>

BudgetSpentExact(s) == budget[req[s].day] = GlobalBudget
BudgetSpent(s)      == budget[req[s].day] >= GlobalBudget

ReadBudget(s) ==
  /\ At(s, "budget")
  /\ IF BudgetSpent(s)
     THEN Block(s, "daily_limit_reached")
     ELSE Become(s, [req[s] EXCEPT !.pc = "admitted", !.read = req[s].day])
  /\ UNCHANGED <<permits, db, env>>

(* A gate's read raises.  Out of the dependency, before the yield, nobody  *)
(* finalizes the guard; out of the body, the dependency's finally does.    *)
GateReadFails(s) ==
  /\ req[s].pc \in {"cap", "usage", "budget"}
  /\ Become(s, [req[s] EXCEPT !.pc = IF Upfront(req[s].route) THEN "done" ELSE "teardown",
                              !.cap = 0, !.raised = TRUE])
  /\ UNCHANGED <<permits, db, env>>

-----------------------------------------------------------------------------
(* Admitted: the service reads the language, level and known words and     *)
(* warms the prompts (an unknown language is an error), then queues for a  *)
(* permit.                                                                 *)
Prepare(s) ==
  /\ At(s, "admitted")
  /\ Goto(s, "queued") \/ Raise(s)
  /\ UNCHANGED <<permits, db, env>>

Acquire(s) ==
  /\ At(s, "queued")
  /\ permits > 0
  /\ permits' = permits - 1
  /\ Goto(s, "calling")
  /\ UNCHANGED <<db, env>>

(* The wait for a permit has no limit. *)
AcquireWithoutTimeout(s) ==
  /\ At(s, "queued")
  /\ permits < 0
  /\ Raise(s)
  /\ UNCHANGED <<permits, db, env>>

(* No permit for ACQUIRE_TIMEOUT_SECONDS: ProviderBusy. *)
AcquireTimeout(s) ==
  /\ At(s, "queued")
  /\ permits = 0
  /\ Raise(s)
  /\ UNCHANGED <<permits, db, env>>

(* One attempt of call_with_retry fails with a transient error and is      *)
(* repeated; the permit is held meanwhile.                                 *)
AttemptFails(s) ==
  /\ At(s, "calling")
  /\ req[s].tries + 1 < MaxAttempts
  /\ Become(s, [req[s] EXCEPT !.tries = @ + 1])
  /\ UNCHANGED <<permits, db, env>>

(* The permit is not released when the call raises. *)
CallFailsLeaking(s) ==
  /\ At(s, "calling")
  /\ Raise(s)
  /\ UNCHANGED <<permits, db, env>>

(* The last attempt fails, or fails for good, or its answer cannot be read. *)
CallFails(s) ==
  /\ At(s, "calling")
  /\ permits' = permits + 1
  /\ Raise(s)
  /\ UNCHANGED <<db, env>>

(* What is kept is saved first, and counted only afterwards. *)
AfterCallSaveFirst(route, empty) ==
  IF route \in {"accept", "explain"} THEN "save" ELSE IF empty /\ route = "generate" THEN "teardown" ELSE "record"

(* /generate counts nothing when no card was built; the others count. *)
AfterCall(route, empty) == IF empty /\ route = "generate" THEN "teardown" ELSE "record"

CallReturns(s) ==
  /\ At(s, "calling")
  /\ permits' = permits + 1
  /\ \E empty \in BOOLEAN :
       Become(s, [req[s] EXCEPT !.tries = 0, !.pc = AfterCall(req[s].route, empty)])
  /\ UNCHANGED <<db, env>>

(* Only blank words to build cards from: an empty answer, no request made. *)
NothingToAsk(s) ==
  /\ At(s, "calling")
  /\ Upfront(req[s].route) /\ req[s].tries = 0
  /\ permits' = permits + 1
  /\ Goto(s, AfterCall(req[s].route, TRUE))
  /\ UNCHANGED <<db, env>>

-----------------------------------------------------------------------------
CountingDayNow(s) == today
CountingDay(s)    == req[s].day

(* record_success: increment_llm_usage bumps both counters of the pinned   *)
(* day in one transaction, committed on the privileged session.            *)
RecordSuccess(s) ==
  /\ At(s, "record")
  /\ usage' = [usage EXCEPT ![CounterOf(s)] = @ + 1]
  /\ budget' = [budget EXCEPT ![CountingDay(s)] = @ + 1]
  /\ Become(s, [req[s] EXCEPT !.pc = IF req[s].route \in {"accept", "explain"}
                                     THEN "save" ELSE "teardown",
                              !.log = Append(@, "success"), !.finalized = TRUE,
                              !.counted = TRUE])
  /\ UNCHANGED <<permits, override, env>>

(* The counters are bumped in two transactions and the second one fails. *)
RecordFailsHalfway(s) ==
  /\ At(s, "record")
  /\ usage' = [usage EXCEPT ![CounterOf(s)] = @ + 1]
  /\ Raise(s)
  /\ UNCHANGED <<permits, budget, override, env>>

(* The call is refunded when counting it fails. *)
RecordFailsRefunding(s) ==
  /\ At(s, "record")
  /\ budget' = [budget EXCEPT ![req[s].day] = IF @ > 0 THEN @ - 1 ELSE 0]
  /\ Raise(s)
  /\ UNCHANGED <<permits, usage, override, env>>

(* The increment raises: neither counter moves. *)
RecordFails(s) ==
  /\ At(s, "record")
  /\ Raise(s)
  /\ UNCHANGED <<permits, db, env>>

(* The cards or the notes are committed, or saving them raises. *)
Save(s) ==
  /\ At(s, "save")
  /\ \/ Become(s, [req[s] EXCEPT !.pc = "teardown", !.saved = TRUE])
     \/ Raise(s)
  /\ UNCHANGED <<permits, db, env>>

(* finalize(): a span that was opened and not ended is ended as an error.  *)
Finalize(s) ==
  /\ At(s, "teardown")
  /\ IF req[s].day # NoDay /\ ~req[s].finalized
     THEN Become(s, [req[s] EXCEPT !.pc = "done", !.log = Append(@, "error"), !.finalized = TRUE])
     ELSE Goto(s, "done")
  /\ UNCHANGED <<permits, db, env>>

Respond(s) ==
  /\ At(s, "done")
  /\ Become(s, Idle)
  /\ UNCHANGED <<permits, db, env>>

-----------------------------------------------------------------------------
(* PUT /settings stores a cap of one's own, or clears it. *)
SetCap(u, k, cap) ==
  /\ override' = [override EXCEPT ![<<u, k>>] = cap]
  /\ UNCHANGED <<req, permits, usage, budget, env>>

Midnight ==
  /\ today < MaxDay
  /\ today' = today + 1
  /\ UNCHANGED <<req, permits, db, restarts>>

(* The process dies and is started again: requests and semaphore are gone, *)
(* the counters are in the database.                                       *)
Restart ==
  /\ restarts < MaxRestarts
  /\ restarts' = restarts + 1
  /\ req' = [s \in Slots |-> Idle]
  /\ permits' = MaxConcurrency
  /\ UNCHANGED <<db, today>>

(* What the server does for the request in slot s, past its arrival. *)
Serve(s) ==
  \/ Lookup(s)
  \/ \E allowed \in BOOLEAN : Gates(s, allowed)
  \/ ReadCap(s) \/ ReadUsage(s) \/ ReadBudget(s) \/ GateReadFails(s)
  \/ Prepare(s) \/ Acquire(s) \/ AcquireTimeout(s)
  \/ AttemptFails(s) \/ CallFails(s) \/ CallReturns(s) \/ NothingToAsk(s)
  \/ RecordSuccess(s) \/ RecordFails(s) \/ Save(s)
  \/ Finalize(s) \/ Respond(s)

Next == \/ \E s \in Slots : Arrive(s) \/ Serve(s)
        \/ \E u \in Users, k \in Kinds, cap \in Overrides \cup {Unset} : SetCap(u, k, cap)
        \/ Midnight
        \/ Restart

Spec == Init /\ [][Next]_vars

(* Every await of a request returns or raises: reads and commits, the      *)
(* provider call, and the wait for a permit, which is timed.               *)
FairSpec == Spec /\ \A s \in Slots : WF_vars(Serve(s))

-----------------------------------------------------------------------------
Stages == {"idle", "lookup", "gates", "cap", "usage", "budget", "admitted", "queued",
           "calling", "record", "save", "teardown", "done"}

Request == [pc : Stages, user : Users, route : AllRoutes, day : Days \cup {NoDay}, cap : Int,
            tries : 0 .. MaxAttempts - 1, log : Seq(Refusals \cup {"success", "error"}),
            finalized : BOOLEAN, raised : BOOLEAN, counted : BOOLEAN, saved : BOOLEAN,
            read : Days \cup {NoDay}]

TypeOK == /\ req \in [Slots -> Request]
          /\ permits \in Nat
          /\ usage \in [CounterKeys -> Nat]
          /\ budget \in [Days -> Nat]
          /\ override \in [Users \X Kinds -> Overrides \cup {Unset}]
          /\ today \in Days
          /\ restarts \in 0 .. MaxRestarts

Calling == {s \in Slots : At(s, "calling")}

(* Every permit is either free or held by one request that is in its       *)
(* provider call: none leaks on an error, a timeout or an empty answer,    *)
(* and none is given twice (LLMConcurrencyLimiter.run and its finally).    *)
PermitsConserved == permits + Cardinality(Calling) = MaxConcurrency

(* The requests that may still raise a counter: those past the gate that   *)
(* read it, and not yet counted.                                           *)
PastBudgetGate(s) == req[s].pc \in {"admitted", "queued", "calling", "record"}
PastUsageGate(s)  == PastBudgetGate(s) \/ At(s, "budget")

(* A user's ceiling for a kind and a day, whatever they store.             *)
CapCeiling == [c \in CounterKeys |->
                 IF c[2] = "generate" /\ FirstDay[c[1]] = c[3]
                 THEN Smaller(ServerMax[c[2]], Day0Cap) ELSE ServerMax[c[2]]]

(* The global counter and the per-user counters are metered calls: a       *)
(* request is let in only below the ceiling of the day it is counted on,   *)
(* and what is counted was let in, whatever the interleaving of gates,     *)
(* midnight, changes of the user's own cap, failures and restarts.         *)
BudgetMeter == INSTANCE Meter WITH
  Jobs <- Slots, Keys <- Days, Closed <- NoDay, spent <- budget,
  Ceiling <- [d \in Days |-> GlobalBudget],
  open <- [s \in Slots |-> IF PastBudgetGate(s) THEN req[s].day ELSE NoDay]

CapMeter == INSTANCE Meter WITH
  Jobs <- Slots, Keys <- CounterKeys, Closed <- <<>>, spent <- usage, Ceiling <- CapCeiling,
  open <- [s \in Slots |-> IF PastUsageGate(s) THEN CounterOf(s) ELSE <<>>]

BudgetIsMetered == BudgetMeter!Spec
CapIsMetered    == CapMeter!Spec

(* The real bounds on overshoot: each counter stays below its ceiling plus *)
(* the number of requests the server handles at once.  The concurrency     *)
(* limit plays no part: the gates are passed before a permit is asked for. *)
BudgetOvershoot == BudgetMeter!Overshoot
CapOvershoot    == CapMeter!Overshoot

(* "the worst-case overshoot is the number of in-flight calls - this value" *)
(* says Settings.llm_max_concurrency.  Requests queue for a permit after   *)
(* the budget gate, so they can all be counted one after the other.        *)
OvershootWithinConcurrency == \A d \in Days : budget[d] <= GlobalBudget + MaxConcurrency

(* What a request saved, cards accepted from Discover or an explanation,   *)
(* was counted before: a call whose result is kept cannot dodge the cap.   *)
SavedIsCounted == \A s \in Slots : req[s].saved => req[s].counted

(* A call is counted on the day whose budget it was checked against, also  *)
(* when midnight passes while the provider works.                          *)
CountedOnDayRead ==
  [][\A s \in Slots : req'[s].counted /\ ~req[s].counted =>
       \A d \in Days : budget'[d] = IF d = req[s].read THEN budget[d] + 1 ELSE budget[d]]_vars

(* A request that never opened the guard logs no call, one that did logs   *)
(* exactly one, except that a gate's read failing before an upfront route  *)
(* is entered logs none.                                                   *)
OneCallLogged ==
  \A s \in Slots : At(s, "done") =>
    Len(req[s].log) = IF req[s].day = NoDay \/ (req[s].raised /\ ~req[s].finalized) THEN 0 ELSE 1

(* "Daily limit reached, please try again tomorrow": who is told so was    *)
(* told the truth, and nothing makes it untrue until then, no failure to   *)
(* count, no restart and no other user's cap.                              *)
RefusalStands ==
  \A s \in Slots : req[s].log = <<"daily_limit_reached">> => budget[req[s].day] >= GlobalBudget

Total(f, S) == MapThenSumSet(LAMBDA x : f[x], S)

CountersOf(d) == {c \in CounterKeys : c[3] = d}

(* The two counters that increment_llm_usage bumps tell the same story:    *)
(* a day's budget count is the sum of its per-user counts.                 *)
CountersAgree == \A d \in Days : budget[d] = Total(usage, CountersOf(d))

(* The books of the guard: both counters agree whatever fails, nothing is  *)
(* kept that was not counted, a request that opened the guard has left one *)
(* line in the call log, however it ended, and one that was refused for a  *)
(* spent budget was refused for good reason (app/quota.py).                *)
BooksAreInOrder == CountersAgree /\ SavedIsCounted /\ OneCallLogged /\ RefusalStands

(* A request is over at some time, whatever else keeps arriving. *)
EveryRequestEnds == \A s \in Slots : ~At(s, "idle") ~> At(s, "idle")

(* Once a day's budget is spent, the requests let in for that day run out  *)
(* and no other follows: the kill-switch stays thrown.                     *)
KillSwitchHolds ==
  \A d \in Days : budget[d] >= GlobalBudget ~>
                    [](\A s \in Slots : PastBudgetGate(s) => req[s].day # d)
=============================================================================
