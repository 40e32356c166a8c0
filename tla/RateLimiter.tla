---------------------------- MODULE RateLimiter ----------------------------
(***************************************************************************)
(* InProcessRateLimiter (apps/api/app/ratelimit.py): a sliding-window log  *)
(* per key.  `hits` is the limiter's dict of deques, `lastSweep` the time  *)
(* of the last sweep.  `hit` runs on the event loop without an await, so   *)
(* each call is one step.  `granted` and `answer` are history: what was    *)
(* allowed and what the latest caller was told.                            *)
(***************************************************************************)
EXTENDS Integers, Sequences, FiniteSets

CONSTANTS Keys,            \* user ids, or the ids derived from e-mails and addresses
          Limit,           \* allowed hits per window
          Window,          \* window_seconds, in clock ticks
          TicksPerSecond,  \* resolution of the clock: the code's clock is a float of seconds
          MaxKeys,         \* max_keys: the size beyond which the dict is swept
          MaxTime          \* bound of the model: the clock stops here

ASSUME LimiterAssumption == /\ Limit \in Nat
                            /\ Window \in Nat \ {0}
                            /\ TicksPerSecond \in Nat \ {0}
                            /\ MaxKeys \in Nat
                            /\ MaxTime \in Nat

VARIABLES now,        \* the injected monotonic clock
          hits,       \* _hits: defined for the keys the dict holds
          lastSweep,  \* _last_sweep; NoSweep stands for None
          granted,    \* history: the times at which each key was allowed
          answer      \* history: the latest RateLimitDecision, its key and time

vars == <<now, hits, lastSweep, granted, answer>>

NoSweep == -1

-----------------------------------------------------------------------------
Init == /\ now = 0
        /\ hits = [k \in {} |-> <<>>]
        /\ lastSweep = NoSweep
        /\ granted = [k \in Keys |-> <<>>]
        /\ answer = [allowed |-> TRUE, retryAfter |-> 0, key |-> CHOOSE k \in Keys : TRUE, at |-> 0]

Tick == /\ now < MaxTime
        /\ now' = now + 1
        /\ UNCHANGED <<hits, lastSweep, granted, answer>>

(* The dict is swept once and never again. *)
SweepDueOnce == /\ Cardinality(DOMAIN hits) > MaxKeys
                /\ lastSweep = NoSweep

SweepDue == /\ Cardinality(DOMAIN hits) > MaxKeys
            /\ lastSweep = NoSweep \/ now - lastSweep >= Window

(* The sweep's window is one tick short. *)
SweptKeysEarly == {k \in DOMAIN hits : hits[k] # <<>> /\ hits[k][Len(hits[k])] > now - Window + 1}

(* _sweep_expired: keep the keys whose newest timestamp is inside the window. *)
SweptKeys == {k \in DOMAIN hits : hits[k] # <<>> /\ hits[k][Len(hits[k])] > now - Window}

KeysAfterSweep == IF SweepDue THEN SweptKeys ELSE DOMAIN hits

(* A timestamp is evicted one tick early. *)
EvictsFirstEarly(log, n) == /\ \A i \in 1 .. n : log[i] <= now - Window + 1
                            /\ n < Len(log) => log[n + 1] > now - Window + 1

(* The popleft loop stops after the n oldest timestamps, all aged out. *)
EvictsFirst(log, n) == /\ \A i \in 1 .. n : log[i] <= now - Window
                       /\ n < Len(log) => log[n + 1] > now - Window

FloorSeconds(ticks) == ticks \div TicksPerSecond
CeilSeconds(ticks) == (ticks + TicksPerSecond - 1) \div TicksPerSecond

(* The subtraction the wrong way round, and no floor of one second. *)
RetryAfterBackwards(live) ==
  IF live = <<>> THEN CeilSeconds(Window) ELSE CeilSeconds(now - Window - live[1])

RetryAfter(live) ==
  LET freeIn  == IF live = <<>> THEN Window ELSE live[1] + Window - now
      seconds == CeilSeconds(freeIn)
  IN  IF seconds < 1 THEN 1 ELSE seconds

(* The dict with k holding `log`; an emptied deque is dropped from it. *)
Store(keys, k, log) ==
  [j \in (keys \ {k}) \cup (IF log = <<>> THEN {} ELSE {k}) |-> IF j = k THEN log ELSE hits[j]]

Hit(k) ==
  LET keys == KeysAfterSweep
      log  == IF k \in keys THEN hits[k] ELSE <<>>
  IN  \E n \in 0 .. Len(log) :
        /\ EvictsFirst(log, n)
        /\ lastSweep' = IF SweepDue THEN now ELSE lastSweep
        /\ LET live == SubSeq(log, n + 1, Len(log))
           IN  \/ /\ Len(live) >= Limit
                  /\ hits' = Store(keys, k, live)
                  /\ answer' = [allowed |-> FALSE, retryAfter |-> RetryAfter(live),
                                key |-> k, at |-> now]
                  /\ UNCHANGED granted
               \/ /\ Len(live) < Limit
                  /\ hits' = Store(keys, k, Append(live, now))
                  /\ answer' = [allowed |-> TRUE, retryAfter |-> 0, key |-> k, at |-> now]
                  /\ granted' = [granted EXCEPT ![k] = Append(@, now)]
        /\ UNCHANGED now

Next == Tick \/ \E k \in Keys : Hit(k)

Spec == Init /\ [][Next]_vars

-----------------------------------------------------------------------------
Decision == [allowed : BOOLEAN, retryAfter : Nat, key : Keys, at : Nat]

(* The limiter's dict holds non-empty logs of clock readings, none of them  *)
(* in the future; a key with nothing to remember has no entry.              *)
TypeOK == /\ now \in Nat
          /\ DOMAIN hits \subseteq Keys
          /\ \A k \in DOMAIN hits : hits[k] \in Seq(0 .. now) /\ hits[k] # <<>>
          /\ lastSweep \in Nat \cup {NoSweep}
          /\ lastSweep <= now
          /\ granted \in [Keys -> Seq(0 .. now)]
          /\ answer \in Decision

(* A refused caller that waits retry_after seconds finds a slot, whatever   *)
(* other keys do meanwhile, and one that waits a second less does not       *)
(* (unless it was told the floor of one second).  The Retry-After header    *)
(* that the 429 carries is exact.                                           *)
LiveAt(k, t) == {i \in DOMAIN granted[k] : granted[k][i] > t - Window}

RetryAfterExact ==
  ~answer.allowed /\ Limit > 0 =>
    LET retryAt(seconds) == answer.at + seconds * TicksPerSecond
    IN  /\ Cardinality(LiveAt(answer.key, retryAt(answer.retryAfter))) < Limit
        /\ answer.retryAfter > 1 =>
             Cardinality(LiveAt(answer.key, retryAt(answer.retryAfter - 1))) >= Limit

(* Memory: while the dict is above its soft cap, every key it holds was     *)
(* used in the last two windows.  The sweep is throttled to one per window, *)
(* so an expired key can outlive its window, but by less than another one.  *)
StaleKeysReclaimed ==
  Cardinality(DOMAIN hits) > MaxKeys + 1 =>
    \A k \in DOMAIN hits : hits[k][Len(hits[k])] > answer.at - 2 * Window

(* Evicting, reclaiming and sweeping are invisible: the limiter answers     *)
(* every caller as one that keeps the whole history of grants would.        *)
Promise == INSTANCE SlidingWindow WITH allowed <- answer.allowed
ImplementsSlidingWindow == Promise!Spec
=============================================================================
