----------------------------- MODULE MCGrading -----------------------------
(* A small instance of Grading: an imported production card, and a         *)
(* recognition card generated at the lowest level.                         *)
EXTENDS Grading

CONSTANTS c1, c2

MCLevelDelta == [r \in Ratings |-> CASE r = 1 -> -16 [] r = 2 -> -6 [] r = 3 -> 2 [] r = 4 -> 12]
MCGenLevel   == [c \in Cards |-> IF c = c2 THEN 0 ELSE NoLevel]
=============================================================================
