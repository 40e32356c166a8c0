------------------------------ MODULE Erasure ------------------------------
(***************************************************************************)
(* What closing an account promises, whoever stores the data: nobody's     *)
(* data outlives the account, an erased account is gone for good, and      *)
(* until it is erased a half-closed one only waits for that.               *)
(***************************************************************************)
CONSTANT Uids        \* the identities that accounts get, each at most once

VARIABLES stage,     \* where each account is in its life
          content    \* the accounts that own data

vars == <<stage, content>>

Init == stage = [u \in Uids |-> "unborn"] /\ content = {}

(* The mail address is free. *)
SignUp(u) ==
  /\ \A v \in Uids : stage[v] \in {"unborn", "erased"}
  /\ stage[u] = "unborn"
  /\ stage' = [stage EXCEPT ![u] = "live"]
  /\ UNCHANGED content

Store(u) ==
  /\ stage[u] = "live"
  /\ content' = content \cup {u}
  /\ UNCHANGED stage

Close(u) ==
  /\ stage[u] = "live"
  /\ stage' = [stage EXCEPT ![u] = "closing"]
  /\ content' = content \ {u}

Erase(u) ==
  /\ stage[u] = "closing"
  /\ stage' = [stage EXCEPT ![u] = "erased"]
  /\ UNCHANGED content

Next == \E u \in Uids : SignUp(u) \/ Store(u) \/ Close(u) \/ Erase(u)

Spec == Init /\ [][Next]_vars
=============================================================================
