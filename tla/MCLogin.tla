------------------------------ MODULE MCLogin ------------------------------
(* Values for checking Login with TLC.                                        *)
EXTENDS Login, TLC

MCSymmetry == Permutations(Procs) \cup Permutations(Ids) \cup Permutations(Tokens)
=============================================================================
