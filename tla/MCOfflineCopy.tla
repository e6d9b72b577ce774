--------------------------- MODULE MCOfflineCopy ---------------------------
(* OfflineCopy on small instances: tabs and hardware keys are symmetric.   *)
EXTENDS OfflineCopy, TLC

CONSTANTS t1, t2, h1, h2, h3, s1, s2

MCFirst    == [allowed |-> TRUE, req |-> "ANY"]
MCPolicies == {[allowed |-> TRUE, req |-> "COMBINED"]}

MCSymmetry == Permutations(Tabs) \cup Permutations(HwKeys)
=============================================================================
