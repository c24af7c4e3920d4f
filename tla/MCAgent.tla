------------------------------ MODULE MCAgent ------------------------------
(* Small instances of Agent for TLC. *)
EXTENDS Agent, TLC

\* Games are told apart only by equality.
MCSymmetry == Permutations(Games)
=============================================================================
