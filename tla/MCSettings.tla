----------------------------- MODULE MCSettings -----------------------------
(* A small instance of Settings for TLC. *)
EXTENDS Settings, TLC

MCSymmetry == Permutations(Groups) \union Permutations(Tokens)
=============================================================================
