----------------------------- MODULE MCPresence -----------------------------
(* Small instances of Presence for TLC. *)
EXTENDS Presence, TLC

MCSymmetry == Permutations(Devices)
=============================================================================
