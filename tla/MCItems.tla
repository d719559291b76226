------------------------------ MODULE MCItems -------------------------------
(* TLC instance of Items on its own.                                          *)
EXTENDS Items

\* One ore, twice: the inputs of a recipe may name an item more than once.
ItRecipe == <<[item |-> "ore", qty |-> 1], [item |-> "ore", qty |-> 1]>>
=============================================================================
