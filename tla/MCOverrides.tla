---------------------------- MODULE MCOverrides ----------------------------
(***************************************************************************)
(* Overrides for TLC: the version the migrations leave behind, one with    *)
(* fragments missing, broken or blank, and one with the rest of these; the *)
(* flag without a row, on, and off.                                        *)
(***************************************************************************)
EXTENDS Overrides

CONSTANTS v1, v2, v3

MCVersions == {v1, v2, v3}

MCContent ==
  [v \in MCVersions |->
     CASE v = v1 -> [rules |-> "text",  others |-> "text",   suggestion |-> "text"]
       [] v = v2 -> [rules |-> "none",  others |-> "broken", suggestion |-> "blank"]
       [] v = v3 -> [rules |-> "blank", others |-> "text",   suggestion |-> "broken"]]

MCRow == [v \in MCVersions |-> CASE v = v1 -> "none" [] v = v2 -> "on" [] v = v3 -> "off"]
=============================================================================
