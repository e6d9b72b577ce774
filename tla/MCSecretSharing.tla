-------------------------- MODULE MCSecretSharing --------------------------
(* Small instances of SecretSharing; the .cfg files give the constants.     *)
EXTENDS SecretSharing, TLC

\* Users other than the owner, and processes, are interchangeable.
Symmetry == Permutations(Users \ {Owner}) \cup Permutations(Procs)
=============================================================================
