---------------------------- MODULE MCVaultKeys ----------------------------
(* Two windows of one user, one or two administrators, two sets of            *)
(* parameters.                                                                *)
EXTENDS VaultKeys, TLC

CONSTANTS w1, w2, a1, p1, p2

MCSymmetry == Permutations({w1, w2}) \cup Permutations({p1, p2})
=============================================================================
