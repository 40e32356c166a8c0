--------------------------- MODULE MCProviderCall ---------------------------
(***************************************************************************)
(* ProviderCall for TLC: calls, words and cards are interchangeable.       *)
(***************************************************************************)
EXTENDS ProviderCall, TLC

Symmetry == Permutations(Calls) \cup Permutations(Words) \cup Permutations(Cards)

(* What becomes of the notes is not the vendor's: several cards are saved  *)
(* with one of them.                                                       *)
OneVendorsCards == saved' # saved => saved = {} \/ vendor = "groq"
=============================================================================
