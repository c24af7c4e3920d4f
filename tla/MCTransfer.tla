----------------------------- MODULE MCTransfer -----------------------------
(* A small instance of Transfer for TLC: two files, and teammates who send one or both. *)
EXTENDS Transfer
CONSTANTS f1, f2, a, b
MCSent == {[f \in {f1} |-> b], [f \in {f1, f2} |-> a]}
=============================================================================
