------------------------------- MODULE Meter -------------------------------
(***************************************************************************)
(* What the cost guard promises of one family of counters.  A job is let   *)
(* in on a key while that key's counter is below its ceiling, nothing is   *)
(* reserved for it, and it later either settles (its counter goes up by    *)
(* one) or is dropped (nothing is counted).  Letting in and settling are   *)
(* apart, so the counter can pass its ceiling; by how much is the question *)
(* Overshoot answers.                                                      *)
(***************************************************************************)
EXTENDS Integers, FiniteSets

CONSTANTS Jobs,       \* what can be open at the same time
          Keys,       \* the counters
          Ceiling,    \* the ceiling of each counter
          Closed      \* the key of a job that is not open

VARIABLES open,       \* open[j]: the key job j was let in on, or Closed
          spent       \* spent[k]: what has been counted on key k

vars == <<open, spent>>

Init == /\ open = [j \in Jobs |-> Closed]
        /\ spent = [k \in Keys |-> 0]

(* The gates of QuotaGuard.check that compare a counter with its ceiling. *)
Admit(j, k) == /\ open[j] = Closed
               /\ spent[k] < Ceiling[k]
               /\ open' = [open EXCEPT ![j] = k]
               /\ UNCHANGED spent

(* record_success. *)
Settle(j) == /\ open[j] # Closed
             /\ spent' = [spent EXCEPT ![open[j]] = @ + 1]
             /\ open' = [open EXCEPT ![j] = Closed]

(* Any number of jobs end uncounted: one that failed, or all in a crash. *)
Drop == /\ \E gone \in SUBSET Jobs :
             open' = [j \in Jobs |-> IF j \in gone THEN Closed ELSE open[j]]
        /\ UNCHANGED spent

Next == \/ \E j \in Jobs, k \in Keys : Admit(j, k)
        \/ \E j \in Jobs : Settle(j)
        \/ Drop

Spec == Init /\ [][Next]_vars

-----------------------------------------------------------------------------
OpenOn(k) == {j \in Jobs : open[j] = k}

TypeOK == /\ open \in [Jobs -> Keys \cup {Closed}]
          /\ spent \in [Keys -> Nat]

(* What is counted and what may still be counted stay below the ceiling    *)
(* plus the number of jobs that can be open at once.                       *)
Overshoot == \A k \in Keys :
               spent[k] + Cardinality(OpenOn(k)) <= Ceiling[k] + Cardinality(Jobs) - 1
=============================================================================
