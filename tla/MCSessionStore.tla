--------------------------- MODULE MCSessionStore ---------------------------
(* Values for checking SessionStore with TLC.                              *)
EXTENDS SessionStore, TLC

CONSTANTS i1, i2, anna, bert, t1, t2, c1, c2

MCTenantOf == [u \in Users |-> IF u = anna THEN t1 ELSE t2]
MCSymmetry == Permutations(Ids) \cup Permutations(Callers)
=============================================================================
