------------------------------ MODULE MCVault ------------------------------
(* Small instances of Vault for TLC. *)
EXTENDS Vault, TLC

CONSTANTS d1, d2

\* max_versions = 0, which prune treats as 1, for every device.
MCKeepOne == [d \in Devices |-> 0]

\* One device keeps a single version, the other one two.
MCKeepOneOrTwo == [d \in Devices |-> IF d = d1 THEN 0 ELSE 2]

\* Contents are told apart only by equality.
MCSymmetry == Permutations(Contents)
=============================================================================
