------------------------------ MODULE MCWindow ------------------------------
(* A small instance of Window for TLC: one bot is in both guilds, the other in
   the second only; each guild has one channel. *)
EXTENDS Window, TLC

CONSTANTS t1, t2, a, b, ca, cb

MCSees == (t1 :> {a, b}) @@ (t2 :> {b})
MCHome == (ca :> a) @@ (cb :> b)
MCSymmetry == Permutations(Games)
=============================================================================
