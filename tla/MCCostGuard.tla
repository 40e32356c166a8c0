---------------------------- MODULE MCCostGuard ----------------------------
(* Small instances of CostGuard. *)
EXTENDS CostGuard, TLC

CONSTANTS KindMax, KindDefault   \* one ceiling and one default for every kind

MCServerMax     == [k \in Kinds |-> KindMax]
MCServerDefault == [k \in Kinds |-> KindDefault]
MCFirstDay      == [u \in Users |-> 0]

SlotSymmetry == Permutations(Slots)
=============================================================================
