--------------------------- MODULE SlidingWindow ---------------------------
(***************************************************************************)
(* What a sliding-window rate limiter promises, free of any bookkeeping:   *)
(* a key's request is allowed exactly when fewer than Limit of its earlier *)
(* requests were allowed during the last Window ticks.  The whole history  *)
(* of grants is kept for ever; nothing is evicted, swept or reclaimed.     *)
(***************************************************************************)
EXTENDS Integers, Sequences, FiniteSets

CONSTANTS Keys,      \* the limiter's keys: users, normalised e-mails, client addresses
          Limit,     \* allowed requests per window
          Window,    \* length of the window, in clock ticks
          MaxTime    \* bound of the model: the clock stops here

VARIABLES now,       \* the monotonic clock
          granted,   \* granted[k]: the times at which k was allowed, oldest first
          allowed    \* the answer to the latest request

vars == <<now, granted, allowed>>

Recent(k) == {i \in DOMAIN granted[k] : granted[k][i] > now - Window}

Init == /\ now = 0
        /\ granted = [k \in Keys |-> <<>>]
        /\ allowed = TRUE

Tick == /\ now < MaxTime
        /\ now' = now + 1
        /\ UNCHANGED <<granted, allowed>>

Request(k) ==
  /\ allowed' = (Cardinality(Recent(k)) < Limit)
  /\ granted' = IF allowed' THEN [granted EXCEPT ![k] = Append(@, now)] ELSE granted
  /\ UNCHANGED now

Next == Tick \/ \E k \in Keys : Request(k)

Spec == Init /\ [][Next]_vars
=============================================================================
