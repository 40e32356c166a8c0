-------------------------- MODULE MCReviewSession --------------------------
(* Values of the constants of ReviewSession.                               *)
EXTENDS ReviewSession

CONSTANT Garbage   \* no row, blank, or no number

(* Chosen limits; the new cards alone set to nothing, which a form refuses *)
(* and an older store may hold; a total that is no number.                 *)
MCSettings == { [new |-> 1, total |-> 2], [new |-> 0, total |-> Garbage] }
=============================================================================
