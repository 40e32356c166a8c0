----------------------------- MODULE MCDiscover -----------------------------
(* A small instance of Discover: a word in two spellings, and a phrase that begins with it. *)
EXTENDS Discover

MCFolded == [w \in Surfaces |-> IF w = "Casa" THEN "casa" ELSE w]

MCParts == [w \in Surfaces |-> IF w = "casa blanca" THEN <<"casa", "blanca">> ELSE <<"casa">>]

(* A sentence that does not hold the phrase it is said to hold, and one    *)
(* that does, with the word named twice.                                   *)
MCRawCards == {[used |-> <<"casa blanca", "casa">>, sentence |-> <<"la", "casa", "es", "blanca">>],
               [used |-> <<"Casa", "casa blanca", "casa">>, sentence |-> <<"mi", "casa", "blanca">>]}

(* A blank before a word; a word again in another spelling. *)
MCRawAnswers == {<<Blank, "Casa">>, <<"casa", "Casa">>}

SomeSymmetry == Permutations(Handlers) \cup Permutations(Keys)
=============================================================================
