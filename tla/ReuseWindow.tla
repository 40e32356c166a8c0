---------------------------- MODULE ReuseWindow ----------------------------
(***************************************************************************)
(* What a short-window reuse cache promises, free of any bookkeeping: the  *)
(* whole history of stores is kept, and a key is found exactly when its    *)
(* latest store is younger than Ttl and fewer than MaxEntries other keys   *)
(* were stored since.                                                      *)
(***************************************************************************)
EXTENDS Integers, Sequences, FiniteSets

CONSTANTS Keys,        \* one learner's languages, topics and counts
          Values,      \* what can be stored
          Ttl,         \* length of the reuse window, in clock ticks
          MaxEntries,  \* how many keys are kept
          Nothing,     \* the answer for a key that is not found
          MaxTime      \* bound of the model: the clock stops here

VARIABLES now,         \* the monotonic clock
          stores,      \* what was stored: its key, time and value, oldest first
          found        \* the answer to the latest lookup

vars == <<now, stores, found>>

StoresOf(k)  == {i \in DOMAIN stores : stores[i].key = k}
IsLatest(i)  == \A j \in DOMAIN stores : j > i => stores[j].key # stores[i].key
KeysSince(i) == {stores[j].key : j \in {n \in DOMAIN stores : n > i}}

Kept(i) == /\ IsLatest(i)
           /\ now - stores[i].at < Ttl
           /\ Cardinality(KeysSince(i)) < MaxEntries

Init == now = 0 /\ stores = <<>> /\ found = Nothing

Tick == now < MaxTime /\ now' = now + 1 /\ UNCHANGED <<stores, found>>

Lookup(k) ==
  /\ \/ \E i \in StoresOf(k) : Kept(i) /\ found' = stores[i].value
     \/ (\A i \in StoresOf(k) : ~Kept(i)) /\ found' = Nothing
  /\ UNCHANGED <<now, stores>>

Store(k, value) ==
  /\ stores' = Append(stores, [key |-> k, at |-> now, value |-> value])
  /\ UNCHANGED <<now, found>>

Next == \/ Tick
        \/ \E k \in Keys : Lookup(k)
        \/ \E k \in Keys, v \in Values : Store(k, v)

Spec == Init /\ [][Next]_vars
=============================================================================
