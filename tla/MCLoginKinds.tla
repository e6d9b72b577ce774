--------------------------- MODULE MCLoginKinds ---------------------------
(* A behaviour is of one of two kinds, so that one run has both: two logins  *)
(* at once, with the server stopping anywhere, or one request at a time with *)
(* everything an account may change.                                         *)
EXTENDS MCLogin

VARIABLE kind

AtOnce == {"password", "code", "tenantless", "select", "totpenable"}
OneByOne == AllOps \ {"code", "tenantless", "select", "crash"}

Kept ==
  IF kind = "at once"
  THEN /\ \A p \in Procs : req'[p].op \in AtOnce \cup {"none"}
       /\ Cardinality(drawn') < Cardinality(Ids)
  ELSE /\ \A p \in Procs : req'[p].op \in OneByOne \cup {"none"}
       /\ Cardinality({p \in Procs : req'[p].op # "none"}) <= 1
       /\ pending' = {} /\ step' = 0

MCInit ==
  /\ Init
  /\ \/ kind = "at once"
     \/ kind = "one by one" /\ \A u \in Users : acct[u] = NewAccount
MCNext ==
  /\ UNCHANGED kind
  /\ \/ (\E p \in Procs : LoginStep(p) \/ ChangeStep(p) \/ Fail(p)) /\ Kept
     \/ (\E tok \in pending : Misuse(tok)) /\ Kept
     \/ Tick /\ Kept
     \/ (kind = "one by one" => AtRest) /\ Restart
MCSpec == MCInit /\ [][MCNext]_<<vars, kind>>
===========================================================================
