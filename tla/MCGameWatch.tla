---------------------------- MODULE MCGameWatch ----------------------------
(* Small instances of GameWatch for TLC. *)
EXTENDS GameWatch

CONSTANTS g1, g2, exe1, exe2, other

\* Two games, each with its executable, and a program
\* that is no game.
MCGameOf == [e \in Exes |-> CASE e = exe1 -> g1
                              [] e = exe2 -> g2
                              [] e = other -> NoGame]
=============================================================================
