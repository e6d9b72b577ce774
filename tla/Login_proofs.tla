---------------------------- MODULE Login_proofs ----------------------------
(***************************************************************************)
(* Proofs about Login for any accounts, requests in flight and kinds of    *)
(* request: the type invariant, that a code is accepted once, that no      *)
(* login gets around its second factor; and, for requests that come one    *)
(* after another, that the sessions follow the account.                    *)
(***************************************************************************)
EXTENDS Login, TLAPS

-----------------------------------------------------------------------------
(* Types.                                                                  *)

\* Time steps are natural numbers, 0 among them.
LEMMA StepsAreNat ==
  /\ TimeSteps \subseteq Nat /\ 0 \in TimeSteps
  /\ 0 .. MaxStep \subseteq TimeSteps
BY BoundsAssumption DEF TimeSteps

\* The request of a process at rest, and the row of a new account.
LEMMA IdleType == Idle \in Request /\ NewAccount \in Account
<1>1. NewAccount \in Account
  BY BoundsAssumption DEF NewAccount, Account, Roles
<1>2. (CHOOSE u \in Users : TRUE) \in Users
  BY UsersAssumption
<1> QED
  BY <1>1, <1>2, StepsAreNat, BoundsAssumption
     DEF Idle, Request, Labels, Roles

\* A process at rest is not in a login and has no code.
LEMMA IdleFields == Idle.pc = "idle" /\ Idle.code = 0
BY DEF Idle

\* A process takes up a request: the fields that are set have their types.
LEMMA ProceedType ==
  ASSUME TypeOK, NEW p \in Procs, NEW op \in AllOps, NEW u \in Users,
         NEW proof \in 0 .. MaxPw, NEW label \in Labels,
         Proceed(p, op, u, proof, label)
  PROVE  req' \in [Procs -> Request]
<1>1. acct[u] \in Account
  BY DEF TypeOK
<1>2. [Idle EXCEPT !.op = op, !.pc = label, !.u = u, !.rec = acct[u],
                   !.proof = proof] \in Request
  BY <1>1, IdleType DEF Request
<1> QED
  BY <1>2 DEF Proceed, Become, TypeOK

\* The same for the requests that change an account.
LEMMA ChangeType ==
  ASSUME TypeOK, NEW p \in Procs, NEW op \in AllOps, NEW s \in mem,
         NEW u \in Users, NEW rec \in Account, NEW role \in Roles,
         NEW label \in Labels, Change(p, op, s, u, rec, role, label)
  PROVE  TypeOK'
<1>1. (u = s.user) \in BOOLEAN
  OBVIOUS
<1>2. [Idle EXCEPT !.op = op, !.pc = label, !.u = u, !.rec = rec,
                   !.self = (u = s.user), !.role = role] \in Request
  BY <1>1, IdleType DEF Request
<1>3. req' \in [Procs -> Request]
  BY <1>2 DEF Change, Become, TypeOK
<1> QED
  BY <1>3 DEF Change, TypeOK, tables, totpState

\* A process that goes on or finishes keeps a request.
LEMMA GotoType ==
  ASSUME TypeOK, NEW p \in Procs, NEW label \in Labels
  PROVE  /\ Goto(p, label) => req' \in [Procs -> Request]
         /\ Finish(p) => req' \in [Procs -> Request]
<1>1. [req[p] EXCEPT !.pc = label] \in Request
  BY DEF TypeOK, Request
<1> QED
  BY <1>1, IdleType DEF Goto, Finish, Become, TypeOK

\* A new session and a new token have their types.
LEMMA NewSessionType ==
  ASSUME TypeOK, NEW p \in Procs, NEW i \in Ids, NEW s \in Session,
         NewSession(p, i, s)
  PROVE  TypeOK'
<1>1. req' \in [Procs -> Request]
  BY GotoType DEF NewSession, Labels
<1> QED
  BY <1>1 DEF NewSession, TypeOK, totpState

LEMMA IssueType ==
  ASSUME TypeOK, NEW k \in Tokens, NEW choose \in BOOLEAN,
         NEW users \in SUBSET Users, NEW proof \in [Users -> 0 .. MaxPw],
         Issue(k, choose, users, proof)
  PROVE  pending' \subseteq Token
BY DEF Issue, TypeOK, Token

\* TypeOK holds initially.
LEMMA TypeInit == Init => TypeOK
<1> SUFFICES ASSUME Init PROVE TypeOK
  OBVIOUS
<1>1. ASSUME NEW k \in {1} \cap 0 .. MaxKey
      PROVE  [NewAccount EXCEPT !.key = k, !.totp = TRUE] \in Account
  BY IdleType DEF Account
<1>2. acct \in [Users -> Account]
  <2> DEFINE Known ==
        {[NewAccount EXCEPT !.key = k, !.totp = TRUE] : k \in {1} \cap 0 .. MaxKey}
  <2>1. Known \subseteq Account
    BY <1>1, Zenon
  <2>2. acct \in [Users -> {NewAccount} \cup Known]
    BY Zenon DEF Init
  <2> HIDE DEF Known
  <2> QED
    BY <2>1, <2>2, IdleType
<1>3. req \in [Procs -> Request]
  BY IdleType DEF Init
<1>4. /\ counters \in [Users -> TimeSteps] /\ saved \in [Users -> TimeSteps]
      /\ uses \in [Users -> [TimeSteps -> Nat]]
  <2>1. [u \in Users |-> 0] \in [Users -> TimeSteps]
    BY StepsAreNat
  <2> QED
    BY <2>1 DEF Init
<1>5. step \in 0 .. MaxStep
  <2>1. step = 0
    BY DEF Init
  <2> QED
    BY <2>1, BoundsAssumption
<1> QED
  BY <1>2, <1>3, <1>4, <1>5 DEF Init, TypeOK

\* The steps of a login keep the types.
LEMMA TypeLogin ==
  ASSUME TypeOK, NEW p \in Procs, LoginStep(p)
  PROVE  TypeOK'
<1> USE DEF tables, totpState
<1>1. ASSUME NEW u \in Users, Password(p, u) \/ Passkey(p, u)
      PROVE  TypeOK'
  <2>1. acct[u].pw \in 0 .. MaxPw
    BY DEF TypeOK, Account
  <2>2. req' \in [Procs -> Request]
    BY <1>1, <2>1, ProceedType DEF Password, Passkey, AllOps, LoginOps, Labels
  <2> QED
    BY <1>1, <2>2 DEF Password, Passkey, TypeOK
<1>2. ASSUME NEW pw \in 0 .. MaxPw, Tenantless(p, pw) PROVE TypeOK'
  <2> DEFINE matches == {u \in Users : acct[u].pw = pw /\ ~acct[u].disabled}
  <2>1. CASE \E u \in matches : /\ matches = {u}
                                /\ Proceed(p, "tenantless", u, pw, "gate")
                                /\ UNCHANGED pending
    <3>1. req' \in [Procs -> Request]
      BY <2>1, ProceedType DEF AllOps, LoginOps, Labels
    <3> QED
      BY <1>2, <2>1, <3>1 DEF Tenantless, TypeOK
  <2>2. CASE /\ Cardinality(matches) > 1
             /\ \E k \in Tokens :
                  Issue(k, TRUE, matches, [u \in Users |-> pw])
             /\ UNCHANGED req
    <3>1. pending' \subseteq Token
      <4>1. /\ matches \in SUBSET Users
            /\ [u \in Users |-> pw] \in [Users -> 0 .. MaxPw]
        OBVIOUS
      <4> HIDE DEF matches
      <4> QED
        BY <2>2, <4>1, IssueType
    <3> QED
      BY <1>2, <2>2, <3>1 DEF Tenantless, TypeOK
  <2> QED
    BY <1>2, <2>1, <2>2 DEF Tenantless
<1>3. ASSUME NEW tok \in pending, NEW u \in Users,
             Select(p, tok, u) \/ Code(p, tok, u)
      PROVE  TypeOK'
  <2>1. tok.proof[u] \in 0 .. MaxPw
    BY DEF TypeOK, Token
  <2>2. req' \in [Procs -> Request]
    BY <1>3, <2>1, ProceedType DEF Select, Code, AllOps, LoginOps, Labels
  <2> QED
    BY <1>3, <2>2 DEF Select, Code, TypeOK
<1>4. ASSUME Lookup(p) PROVE TypeOK'
  <2>1. req[p] \in Request /\ acct[req[p].u] \in Account
    BY DEF TypeOK, Request
  <2>2. ASSUME NEW label \in {"check", "gate"}
        PROVE  [req[p] EXCEPT !.rec = acct[req[p].u], !.pc = label] \in Request
    BY <2>1 DEF Request, Labels
  <2>3. req' \in [Procs -> Request]
    BY <1>4, <2>2, IdleType DEF Lookup, Finish, Become, TypeOK
  <2> QED
    BY <1>4, <2>3 DEF Lookup, TypeOK
<1>5. ASSUME PassGate(p) PROVE TypeOK'
  BY <1>5, GotoType DEF PassGate, TypeOK, Labels
<1>6. ASSUME NEW k \in Tokens, IssueCodeToken(p, k) PROVE TypeOK'
  <2>1. req[p].u \in Users /\ req[p].proof \in 0 .. MaxPw
    BY DEF TypeOK, Request
  <2>2. /\ {req[p].u} \in SUBSET Users
        /\ [u \in Users |-> req[p].proof] \in [Users -> 0 .. MaxPw]
    BY <2>1
  <2>3. Issue(k, FALSE, {req[p].u}, [u \in Users |-> req[p].proof])
    BY <1>6 DEF IssueCodeToken
  <2>4. pending' \subseteq Token
    BY <2>2, <2>3, IssueType
  <2>5. req' \in [Procs -> Request]
    BY <1>6, GotoType DEF IssueCodeToken, Labels
  <2> QED
    BY <1>6, <2>4, <2>5 DEF IssueCodeToken, TypeOK
<1>7. ASSUME RejectCode(p) PROVE TypeOK'
  BY <1>7, GotoType DEF RejectCode, TypeOK, Labels
<1>8. ASSUME NEW t \in TimeSteps, AcceptCode(p, t) PROVE TypeOK'
  <2>1. req[p] \in Request /\ req[p].rec \in Account
    BY DEF TypeOK, Request
  <2>2. [req[p].rec EXCEPT !.totp = TRUE] \in Account
    BY <2>1 DEF Account
  <2>3. [req[p] EXCEPT !.pc = "save", !.code = t,
                       !.rec = [req[p].rec EXCEPT !.totp = TRUE]] \in Request
    BY <2>1, <2>2 DEF Request, Labels
  <2>4. req' = [req EXCEPT ![p] =
                  [req[p] EXCEPT !.pc = "save", !.code = t,
                                 !.rec = [req[p].rec EXCEPT !.totp = TRUE]]]
    BY <1>8, <2>1 DEF AcceptCode, Become, Request, Account
  <2>5. req' \in [Procs -> Request]
    BY <2>3, <2>4 DEF TypeOK
  <2> QED
    BY <1>8, <2>5 DEF AcceptCode, TypeOK
<1>9. ASSUME SaveCode(p) PROVE TypeOK'
  <2>1. req[p].u \in Users /\ req[p].code \in TimeSteps
    BY DEF TypeOK, Request
  <2>2. req' \in [Procs -> Request]
    BY <1>9, GotoType DEF SaveCode, Labels
  <2>3. uses' \in [Users -> [TimeSteps -> Nat]]
    BY <1>9, <2>1 DEF SaveCode, TypeOK
  <2> QED
    BY <1>9, <2>2, <2>3 DEF SaveCode, SaveCounters, TypeOK
<1>10. ASSUME NEW i \in Ids, Create(p, i) PROVE TypeOK'
  <2> DEFINE s == [id |-> i, user |-> req[p].u, role |-> req[p].rec.role,
                   setup |-> RequireTotp /\ ~req[p].rec.totp,
                   proof |-> req[p].proof, needed |-> req[p].rec.totp,
                   code |-> req[p].code]
  <2>1. s \in Session
    BY BoundsAssumption DEF TypeOK, Request, Account, Session
  <2>2. NewSession(p, i, s)
    BY <1>10 DEF Create
  <2> HIDE DEF s
  <2> QED
    BY <2>1, <2>2, NewSessionType
<1>11. ASSUME Persist(p) PROVE TypeOK'
  BY <1>11, GotoType DEF Persist, TypeOK, Labels
<1> QED
  BY <1>1, <1>2, <1>3, <1>4, <1>5, <1>6, <1>7, <1>8, <1>9, <1>10, <1>11
     DEF LoginStep

\* The changes of accounts keep the types.
LEMMA TypeChange ==
  ASSUME TypeOK, NEW p \in Procs, ChangeStep(p) \/ Fail(p)
  PROVE  TypeOK'
<1> USE DEF tables, totpState
<1>1. ASSUME NEW s \in mem
      PROVE  s \in Session /\ s.user \in Users /\ s.role \in Roles
  BY DEF TypeOK, Session
<1>2. ASSUME NEW u \in Users PROVE acct[u] \in Account
  BY DEF TypeOK
<1>3. ASSUME NEW u \in Users, acct[u].pw < MaxPw PROVE NewPw(u) \in Account
  BY <1>2, <1>3, BoundsAssumption DEF NewPw, Account
<1>4. ASSUME NEW op \in AllOps, NEW s \in mem, NEW u \in Users,
             NEW rec \in Account, NEW role \in Roles,
             NEW label \in {"write", "enroll"},
             Change(p, op, s, u, rec, role, label)
      PROVE  TypeOK'
  BY <1>4, ChangeType DEF Labels
<1>5. ASSUME NEW s \in mem, NEW u \in Users, ResetPassword(p, s, u)
      PROVE  TypeOK'
  BY <1>1, <1>3, <1>4, <1>5 DEF ResetPassword, AllOps, AccountOps, RevokingOps
<1>6. ASSUME NEW s \in mem, NEW u \in Users, NEW role \in Roles,
             SetRoles(p, s, u, role)
      PROVE  TypeOK'
  <2>1. [acct[u] EXCEPT !.role = role] \in Account
    BY <1>2 DEF Account
  <2> QED
    BY <1>4, <1>6, <2>1 DEF SetRoles, AllOps, AccountOps, RevokingOps
<1>7. ASSUME NEW s \in mem, NEW u \in Users, NEW pw \in 0 .. MaxPw,
             NEW role \in Roles, UpdateUser(p, s, u, pw, role)
      PROVE  TypeOK'
  <2>1. [acct[u] EXCEPT !.pw = pw, !.role = role] \in Account
    BY <1>2 DEF Account
  <2> QED
    BY <1>4, <1>7, <2>1 DEF UpdateUser, AllOps, AccountOps, RevokingOps
<1>8. ASSUME NEW s \in mem, NEW u \in Users, Disable(p, s, u) PROVE TypeOK'
  <2>1. [acct[u] EXCEPT !.disabled = TRUE] \in Account
    BY <1>2 DEF Account
  <2> QED
    BY <1>1, <1>4, <1>8, <2>1 DEF Disable, AllOps, AccountOps, RevokingOps
<1>9. ASSUME NEW s \in mem, NEW u \in Users, Profile(p, s, u) PROVE TypeOK'
  BY <1>1, <1>2, <1>4, <1>9 DEF Profile, AllOps, AccountOps
<1>10. ASSUME NEW s \in mem, ChangePassword(p, s) PROVE TypeOK'
  BY <1>1, <1>3, <1>4, <1>10
     DEF ChangePassword, AllOps, AccountOps, RevokingOps
<1>11. ASSUME NEW s \in mem, TotpSetup(p, s) PROVE TypeOK'
  <2>1. acct[s.user] \in Account /\ acct[s.user].key + 1 \in 0 .. MaxKey
    BY <1>1, <1>2, <1>11, BoundsAssumption DEF TotpSetup, Account
  <2>2. [acct[s.user] EXCEPT !.key = @ + 1, !.totp = FALSE] \in Account
    BY <2>1 DEF Account
  <2> QED
    BY <1>1, <1>4, <1>11, <2>2 DEF TotpSetup, AllOps, AccountOps
<1>12. ASSUME NEW s \in mem, TotpEnable(p, s) PROVE TypeOK'
  BY <1>1, <1>2, <1>4, <1>12 DEF TotpEnable, AllOps, AccountOps
<1>13. ASSUME NEW s \in mem, NEW op \in {"logout", "use"}, End(p, op, s)
       PROVE  TypeOK'
  <2>1. [Idle EXCEPT !.op = op, !.pc = "flush", !.u = s.user] \in Request
    BY <1>1, IdleType DEF Request, Labels, AllOps
  <2>2. req' \in [Procs -> Request]
    BY <1>13, <2>1 DEF End, Become, TypeOK
  <2> QED
    BY <1>13, <2>2 DEF End, TypeOK
<1>14. ASSUME NEW s \in mem, Logout(p, s) \/ UseOfDisabled(p, s)
       PROVE  TypeOK'
  BY <1>13, <1>14 DEF Logout, UseOfDisabled
<1>15. ASSUME Write(p) PROVE TypeOK'
  <2>1. req[p].u \in Users /\ req[p].rec \in Account
    BY DEF TypeOK, Request
  <2>2. req' \in [Procs -> Request]
    BY <1>15, GotoType DEF Write, Labels
  <2> QED
    BY <1>15, <2>1, <2>2 DEF Write, TypeOK
<1>16. ASSUME Revoke(p) PROVE TypeOK'
  BY <1>16, GotoType DEF Revoke, TypeOK, Labels
<1>17. ASSUME Flush(p) PROVE TypeOK'
  BY <1>17, GotoType DEF Flush, TypeOK, Labels
<1>18. ASSUME NEW i \in Ids, Renew(p, i) PROVE TypeOK'
  <2> DEFINE s == [id |-> i, user |-> req[p].u, role |-> req[p].role,
                   setup |-> FALSE, proof |-> req[p].rec.pw, needed |-> FALSE,
                   code |-> 0]
  <2>1. s \in Session
    BY StepsAreNat DEF TypeOK, Request, Account, Session
  <2>2. NewSession(p, i, s)
    BY <1>18 DEF Renew
  <2> HIDE DEF s
  <2> QED
    BY <2>1, <2>2, NewSessionType
<1>19. ASSUME Fail(p) PROVE TypeOK'
  BY <1>19, GotoType DEF Fail, TypeOK, Labels
<1> QED
  BY <1>5, <1>6, <1>7, <1>8, <1>9, <1>10, <1>11, <1>12, <1>14, <1>15, <1>16,
     <1>17, <1>18, <1>19 DEF ChangeStep

\* Every step keeps the types.
LEMMA TypeStep == TypeOK /\ [Next]_vars => TypeOK'
<1> SUFFICES ASSUME TypeOK, [Next]_vars PROVE TypeOK'
  OBVIOUS
<1> USE DEF tables, totpState
<1>1. ASSUME NEW tok \in pending, Misuse(tok) PROVE TypeOK'
  BY <1>1 DEF Misuse, TypeOK
<1>2. ASSUME Tick PROVE TypeOK'
  BY <1>2, BoundsAssumption DEF Tick, TypeOK
<1>3. ASSUME Restart PROVE TypeOK'
  BY <1>3, IdleType DEF Restart, TypeOK
<1>4. CASE UNCHANGED vars
  BY <1>4 DEF vars, TypeOK
<1> QED
  BY <1>1, <1>2, <1>3, <1>4, TypeLogin, TypeChange DEF Next

\* Every variable keeps to its type, for any accounts, requests and bounds.
THEOREM LoginTypes == Spec => []TypeOK
BY TypeInit, TypeStep, PTL DEF Spec

-----------------------------------------------------------------------------
(* Codes are accepted once.                                                *)

\* The file of counters is behind the memory only while validateTOTP holds its
\* lock, and then by the one code it has just accepted.
CountersSaved ==
  /\ (\A p \in Procs : ~At(p, "save")) => saved = counters
  /\ \A p \in Procs : At(p, "save") =>
       /\ saved[req[p].u] < req[p].code
       /\ counters = [saved EXCEPT ![req[p].u] = req[p].code]
       /\ \A q \in Procs : At(q, "save") => q = p

\* A code that was accepted is not past the saved counter.
CodesSpent ==
  \A u \in Users, t \in TimeSteps :
    uses[u][t] = 0 \/ (uses[u][t] = 1 /\ t <= saved[u])

Codes == CountersSaved /\ CodesSpent

\* Codes holds initially.
LEMMA CodesInit == Init => Codes
<1> SUFFICES ASSUME Init PROVE Codes
  OBVIOUS
<1>1. saved = counters /\ \A p \in Procs : req[p] = Idle
  BY DEF Init
<1>2. \A p \in Procs : ~At(p, "save")
  BY <1>1, IdleFields DEF At
<1>3. uses = [u \in Users |-> [t \in TimeSteps |-> 0]]
  BY DEF Init
<1>4. \A u \in Users, t \in TimeSteps : uses[u][t] = 0
  BY <1>3
<1> QED
  BY <1>1, <1>2, <1>4 DEF Codes, CountersSaved, CodesSpent

\* Process p goes on to r and no code is accepted or saved.
Elsewhere(p, r) ==
  /\ req' = [req EXCEPT ![p] = r]
  /\ ~At(p, "save") /\ r.pc # "save"
  /\ UNCHANGED totpState

\* Such a step keeps Codes.
LEMMA CodesElsewhere ==
  ASSUME TypeOK, Codes, NEW p \in Procs, NEW r \in Request, Elsewhere(p, r)
  PROVE  Codes'
<1>1. \A q \in Procs : At(q, "save")' <=> At(q, "save")
  BY DEF Elsewhere, At, TypeOK
<1>2. \A q \in Procs : At(q, "save") => req'[q] = req[q]
  BY DEF Elsewhere, TypeOK
<1>3. counters' = counters /\ saved' = saved /\ uses' = uses
  BY DEF Elsewhere, totpState
<1>4. CountersSaved'
  BY <1>1, <1>2, <1>3 DEF Codes, CountersSaved
<1> QED
  BY <1>3, <1>4 DEF Codes, CodesSpent

\* Accepting a code keeps Codes.
LEMMA CodesAccept ==
  ASSUME TypeOK, Codes, NEW p \in Procs, NEW t \in TimeSteps, AcceptCode(p, t)
  PROVE  Codes'
<1> DEFINE u == req[p].u
<1>1. u \in Users
  BY DEF TypeOK, Request
<1>2. saved = counters /\ t > counters[u]
  BY DEF AcceptCode, Codes, CountersSaved, Fresh
<1>3. /\ counters' = [counters EXCEPT ![u] = t]
      /\ saved' = saved /\ uses' = uses
  BY DEF AcceptCode
<1>4. req'[p].u = u /\ req'[p].code = t /\ req'[p].pc = "save"
  BY DEF AcceptCode, Become, TypeOK, Request
<1>5. \A q \in Procs : At(q, "save")' <=> q = p
  BY <1>4 DEF AcceptCode, Become, At, TypeOK
<1>6. saved[u] < t
  BY <1>1, <1>2, StepsAreNat DEF TypeOK
<1>7. CountersSaved'
  BY <1>2, <1>3, <1>4, <1>5, <1>6 DEF CountersSaved
<1> QED
  BY <1>3, <1>7 DEF Codes, CodesSpent

\* Saving the counters keeps Codes.
LEMMA CodesSave ==
  ASSUME TypeOK, Codes, NEW p \in Procs, SaveCode(p)
  PROVE  Codes'
<1> DEFINE u == req[p].u
           c == req[p].code
<1>1. u \in Users /\ c \in TimeSteps
  BY DEF TypeOK, Request
<1>2. /\ saved[u] < c /\ counters = [saved EXCEPT ![u] = c]
      /\ \A q \in Procs : At(q, "save") => q = p
  BY DEF SaveCode, Codes, CountersSaved
<1>3. /\ saved' = counters /\ counters' = counters
      /\ uses' = [uses EXCEPT ![u][c] = @ + 1]
  BY DEF SaveCode, SaveCounters
<1>4. \A q \in Procs : ~At(q, "save")'
  BY <1>2 DEF SaveCode, Goto, Become, At, TypeOK, Request
<1>5. uses[u][c] = 0
  <2>1. saved[u] \in Nat /\ c \in Nat
    BY <1>1, StepsAreNat DEF TypeOK
  <2> QED
    BY <1>1, <1>2, <2>1 DEF Codes, CodesSpent
<1>6. saved'[u] = c /\ \A v \in Users \ {u} : saved'[v] = saved[v]
  BY <1>1, <1>2, <1>3 DEF TypeOK
<1>7. ASSUME NEW v \in Users, NEW t \in TimeSteps
      PROVE  uses'[v][t] = 0 \/ (uses'[v][t] = 1 /\ t <= saved'[v])
  <2>1. CASE v = u /\ t = c
    BY <1>1, <1>3, <1>5, <1>6, <2>1, StepsAreNat DEF TypeOK
  <2>2. CASE v = u /\ t # c
    <3>1. uses'[v][t] = uses[v][t]
      BY <1>1, <1>3, <2>2 DEF TypeOK
    <3>2. saved[u] \in Nat /\ c \in Nat /\ t \in Nat
      BY <1>1, StepsAreNat DEF TypeOK
    <3>3. t <= saved[u] => t <= c
      BY <1>2, <3>2
    <3> QED
      BY <1>6, <2>2, <3>1, <3>3 DEF Codes, CodesSpent
  <2>3. CASE v # u
    BY <1>1, <1>3, <1>6, <2>3 DEF Codes, CodesSpent, TypeOK
  <2> QED
    BY <2>1, <2>2, <2>3
<1> QED
  BY <1>3, <1>4, <1>7 DEF Codes, CountersSaved, CodesSpent

-----------------------------------------------------------------------------
(* No login gets around its second factor.                                 *)

\* The sessions a login token or a cookie may name, in memory or on disk.
AllSessions == mem \cup file

\* A login has no code before its second factor.  When it is about to create
\* its session it has one if its account asks for one, an accepted one, that no
\* session and no other login has.
LoginProves(p) ==
  LET r == req[p]
  IN  /\ r.pc \in {"lookup", "gate"} => r.code = 0
      /\ r.pc = "create" =>
           /\ r.rec.totp => r.code # 0
           /\ r.code <= saved[r.u]
           /\ r.code # 0 =>
                /\ \A s \in AllSessions : s.user = r.u => s.code # r.code
                /\ \A q \in Procs \ {p} :
                     At(q, "create") /\ req[q].u = r.u => req[q].code # r.code

\* So is the code of a session accepted, its own, and there if it was needed.
SessionProves(s) ==
  /\ s.needed => s.code # 0
  /\ s.code <= saved[s.user]
  /\ \A t \in AllSessions :
       t.user = s.user /\ t.code = s.code /\ s.code # 0 => t.id = s.id

Proofs ==
  /\ \A p \in Procs : LoginProves(p)
  /\ \A s \in AllSessions : SessionProves(s)

\* Proofs holds initially.
LEMMA ProofsInit == Init => Proofs
<1> SUFFICES ASSUME Init PROVE Proofs
  OBVIOUS
<1>1. AllSessions = {} /\ \A p \in Procs : req[p] = Idle
  BY DEF Init, AllSessions
<1> QED
  BY <1>1, IdleFields DEF Proofs, LoginProves

\* Process p goes on to r, without a session for it, and nothing is saved.
Harmless(p, r) ==
  /\ req' = [req EXCEPT ![p] = r]
  /\ r.pc # "create"
  /\ r.pc \in {"lookup", "gate"} => r.code = 0
  /\ mem' \cup file' \subseteq mem \cup file
  /\ saved' = saved

\* Such a step keeps Proofs.
LEMMA ProofsHarmless ==
  ASSUME TypeOK, Proofs, NEW p \in Procs, NEW r \in Request, Harmless(p, r)
  PROVE  Proofs'
<1>1. AllSessions' \subseteq AllSessions /\ saved' = saved
  BY DEF Harmless, AllSessions
<1>2. req'[p] = r /\ \A q \in Procs \ {p} : req'[q] = req[q]
  BY DEF Harmless, TypeOK
<1>3. \A q \in Procs : At(q, "create")' => q # p /\ At(q, "create")
  BY <1>2 DEF Harmless, At
<1>4. LoginProves(p)'
  BY <1>2 DEF Harmless, LoginProves
<1>5. ASSUME NEW q \in Procs \ {p} PROVE LoginProves(q)'
  BY <1>1, <1>2, <1>3, <1>5 DEF Proofs, LoginProves
<1>6. ASSUME NEW s \in AllSessions' PROVE SessionProves(s)'
  BY <1>1, <1>6 DEF Proofs, SessionProves
<1> QED
  BY <1>4, <1>5, <1>6 DEF Proofs

\* So does a login that needs no code.
LEMMA ProofsPassGate ==
  ASSUME TypeOK, Proofs, NEW p \in Procs, PassGate(p)
  PROVE  Proofs'
<1>1. AllSessions' = AllSessions /\ saved' = saved
  BY DEF PassGate, tables, totpState, AllSessions
<1>2. /\ req[p] \in Request
      /\ req' = [req EXCEPT ![p] = [req[p] EXCEPT !.pc = "create"]]
  BY DEF PassGate, Goto, Become, TypeOK
<1>3. /\ req'[p].code = req[p].code /\ req'[p].u = req[p].u
      /\ req'[p].rec = req[p].rec /\ req'[p].pc = "create"
      /\ \A q \in Procs \ {p} : req'[q] = req[q]
  BY <1>2 DEF TypeOK, Request
<1>4. req[p].code = 0 /\ ~req[p].rec.totp
  BY DEF PassGate, At, NoCodeNeeded, Proofs, LoginProves
<1>5. 0 <= saved[req[p].u]
  BY <1>2, StepsAreNat DEF TypeOK, Request
<1>6. LoginProves(p)'
  BY <1>1, <1>3, <1>4, <1>5 DEF LoginProves
<1>7. ASSUME NEW q \in Procs \ {p} PROVE LoginProves(q)'
  <2>1. LoginProves(q)
    BY DEF Proofs
  <2>2. \A q2 \in Procs \ {p} : At(q2, "create")' <=> At(q2, "create")
    BY <1>3 DEF At
  <2> QED
    BY <1>1, <1>3, <1>4, <2>1, <2>2 DEF LoginProves
<1>8. ASSUME NEW s \in AllSessions PROVE SessionProves(s)'
  BY <1>1, <1>8 DEF Proofs, SessionProves
<1> QED
  BY <1>1, <1>6, <1>7, <1>8 DEF Proofs

\* So does saving a code, which is past all that were saved before.
LEMMA ProofsSave ==
  ASSUME TypeOK, Codes, Proofs, NEW p \in Procs, SaveCode(p)
  PROVE  Proofs'
<1> DEFINE u == req[p].u
           c == req[p].code
<1>1. AllSessions' = AllSessions
  BY DEF SaveCode, tables, AllSessions
<1>2. req[p] \in Request /\ u \in Users /\ c \in Nat /\ saved[u] \in Nat
  BY StepsAreNat DEF TypeOK, Request
<1>3. /\ saved[u] < c /\ counters = [saved EXCEPT ![u] = c]
      /\ \A q \in Procs : At(q, "save") => q = p
  BY DEF SaveCode, Codes, CountersSaved
<1>4. saved'[u] = c /\ \A v \in Users \ {u} : saved'[v] = saved[v]
  BY <1>2, <1>3 DEF SaveCode, SaveCounters, TypeOK
<1>5. ASSUME NEW v \in Users, NEW t \in TimeSteps, t <= saved[v]
      PROVE  t <= saved'[v] /\ (v = u => t # c)
  <2>1. t \in Nat
    BY StepsAreNat
  <2> QED
    BY <1>2, <1>3, <1>4, <1>5, <2>1
<1>6. /\ req'[p].code = c /\ req'[p].u = u
      /\ req'[p].pc \in {"write", "create"}
      /\ \A q \in Procs \ {p} : req'[q] = req[q]
  BY <1>2 DEF SaveCode, Goto, Become, TypeOK, Request
<1>7. \A s \in AllSessions : s.user \in Users /\ s.code \in TimeSteps
  BY DEF AllSessions, TypeOK, Session
<1>8. \A s \in AllSessions : s.code <= saved[s.user]
  BY DEF Proofs, SessionProves
<1>9. ASSUME NEW q \in Procs, At(q, "create")
      PROVE  /\ req[q].u \in Users /\ req[q].code \in TimeSteps
             /\ req[q].code <= saved[req[q].u]
  BY <1>9 DEF Proofs, LoginProves, At, TypeOK, Request
<1>10. LoginProves(p)'
  <2>1. c # 0 /\ c <= saved'[u]
    BY <1>2, <1>3, <1>4
  <2>2. \A s \in AllSessions : s.user = u => s.code # c
    BY <1>5, <1>7, <1>8
  <2>3. \A q \in Procs \ {p} :
          At(q, "create") /\ req[q].u = u => req[q].code # c
    BY <1>5, <1>9
  <2> QED
    BY <1>1, <1>6, <2>1, <2>2, <2>3 DEF LoginProves, At
<1>11. ASSUME NEW q \in Procs \ {p} PROVE LoginProves(q)'
  <2>1. LoginProves(q)
    BY DEF Proofs
  <2>2. CASE ~At(q, "create")
    BY <1>6, <2>1, <2>2 DEF LoginProves, At
  <2>3. CASE At(q, "create")
    <3>1. req[q].code <= saved'[req[q].u]
      BY <1>5, <1>9, <2>3
    <3>2. req[q].u = u => req[q].code # c
      BY <1>5, <1>9, <2>3
    <3>3. \A q2 \in Procs \ {q, p} : At(q2, "create")' <=> At(q2, "create")
      BY <1>6 DEF At
    <3> QED
      BY <1>1, <1>6, <2>1, <2>3, <3>1, <3>2, <3>3 DEF LoginProves
  <2> QED
    BY <2>2, <2>3
<1>12. ASSUME NEW s \in AllSessions PROVE SessionProves(s)'
  <2>1. s.code <= saved'[s.user]
    BY <1>5, <1>7, <1>8
  <2> QED
    BY <1>1, <2>1 DEF Proofs, SessionProves
<1> QED
  BY <1>1, <1>10, <1>11, <1>12 DEF Proofs

\* So does a new session: of a renewal, without a code, or of a login.
LEMMA ProofsNewSession ==
  ASSUME TypeOK, Proofs, NEW p \in Procs, NEW i \in Ids,
         NEW s \in Session, NewSession(p, i, s), ~At(p, "save"),
         s.id = i, s.needed => s.code # 0,
         s.code = 0 \/ (At(p, "create") /\ s.user = req[p].u
                          /\ s.code = req[p].code)
  PROVE  Proofs'
<1>1. AllSessions' = AllSessions \cup {s} /\ saved' = saved
  BY DEF NewSession, totpState, AllSessions
<1>2. /\ req'[p].pc = "persist"
      /\ \A q \in Procs \ {p} : req'[q] = req[q]
  BY DEF NewSession, Goto, Become, TypeOK, Request
<1>3. \A q \in Procs : At(q, "create")' => q # p /\ At(q, "create")
  BY <1>2 DEF At
<1>4. s.code # 0 => \A t \in AllSessions : t.user = s.user => t.code # s.code
  BY DEF Proofs, LoginProves, At
<1>5. s.code # 0 =>
        \A q \in Procs \ {p} :
          At(q, "create") /\ req[q].u = s.user => req[q].code # s.code
  BY DEF Proofs, LoginProves, At
<1>6. s.code <= saved[s.user]
  <2>1. saved[s.user] \in Nat
    BY StepsAreNat DEF TypeOK, Session
  <2> QED
    BY <2>1 DEF Proofs, LoginProves, At
<1>7. LoginProves(p)'
  BY <1>2 DEF LoginProves
<1>8. ASSUME NEW q \in Procs \ {p} PROVE LoginProves(q)'
  <2>1. LoginProves(q) /\ req'[q] = req[q]
    BY <1>2 DEF Proofs
  <2>2. CASE ~At(q, "create")
    BY <2>1, <2>2 DEF LoginProves, At
  <2>3. CASE At(q, "create") /\ req[q].code # 0
    <3>1. \A t \in AllSessions' : t.user = req[q].u => t.code # req[q].code
      BY <1>1, <1>5, <2>1, <2>3 DEF LoginProves, At
    <3>2. \A q2 \in Procs \ {q} :
            At(q2, "create")' /\ req'[q2].u = req[q].u =>
              req'[q2].code # req[q].code
      BY <1>2, <1>3, <2>1, <2>3 DEF LoginProves, At
    <3> QED
      BY <1>1, <2>1, <2>3, <3>1, <3>2 DEF LoginProves, At
  <2>4. CASE At(q, "create") /\ req[q].code = 0
    BY <1>1, <2>1, <2>4 DEF LoginProves, At
  <2> QED
    BY <2>2, <2>3, <2>4
<1>9. ASSUME NEW t \in AllSessions' PROVE SessionProves(t)'
  <2>1. CASE t = s
    BY <1>1, <1>4, <1>6, <2>1 DEF SessionProves
  <2>2. CASE t \in AllSessions
    BY <1>1, <1>4, <2>2 DEF Proofs, SessionProves
  <2> QED
    BY <1>1, <2>1, <2>2
<1> QED
  BY <1>7, <1>8, <1>9 DEF Proofs

-----------------------------------------------------------------------------
(* Every step keeps the invariants.                                        *)

IInv == TypeOK /\ Codes /\ Proofs

\* The requests that touch neither codes nor new sessions.
LEMMA QuietStep ==
  ASSUME IInv, NEW p \in Procs, NEW r \in Request,
         Elsewhere(p, r), Harmless(p, r)
  PROVE  Codes' /\ Proofs'
BY CodesElsewhere, ProofsHarmless DEF IInv

\* One that starts from rest, with a row that was just read.
LEMMA QuietStart ==
  ASSUME IInv, NEW p \in Procs, req[p] = Idle, req' \in [Procs -> Request],
         NEW r, req' = [req EXCEPT ![p] = r],
         r.pc \notin {"save", "create"}, r.code = 0,
         mem' \subseteq mem, file' = file, UNCHANGED totpState
  PROVE  Codes' /\ Proofs'
<1>1. r \in Request
  BY DEF IInv, TypeOK
<1>2. Elsewhere(p, r)
  BY IdleFields DEF Elsewhere, At
<1>3. Harmless(p, r)
  BY DEF Harmless, totpState
<1> QED
  BY <1>1, <1>2, <1>3, QuietStep

\* One that goes on, or ends.
LEMMA QuietGoto ==
  ASSUME IInv, NEW p \in Procs, NEW label \in Labels,
         Goto(p, label) \/ Finish(p),
         ~At(p, "save"), label \notin {"save", "create", "lookup", "gate"},
         mem' \subseteq mem \cup file, file' \subseteq mem \cup file,
         UNCHANGED totpState
  PROVE  Codes' /\ Proofs'
<1>1. CASE Goto(p, label)
  <2> DEFINE r == [req[p] EXCEPT !.pc = label]
  <2>1. r \in Request /\ r.pc = label
    BY DEF IInv, TypeOK, Request
  <2>2. Elsewhere(p, r) /\ Harmless(p, r)
    BY <1>1, <2>1 DEF Elsewhere, Harmless, Goto, Become, totpState
  <2> QED
    BY <2>1, <2>2, QuietStep
<1>2. CASE Finish(p)
  <2>1. Elsewhere(p, Idle) /\ Harmless(p, Idle)
    BY <1>2, IdleFields DEF Elsewhere, Harmless, Finish, Become, totpState
  <2> QED
    BY <2>1, IdleType, QuietStep
<1> QED
  BY <1>1, <1>2

\* A new session, of a renewal or of a login.
LEMMA InvNewSession ==
  ASSUME IInv, NEW p \in Procs, NEW i \in Ids,
         NEW s \in Session, NewSession(p, i, s), ~At(p, "save"),
         s.id = i, s.needed => s.code # 0,
         s.code = 0 \/ (At(p, "create") /\ s.user = req[p].u
                          /\ s.code = req[p].code)
  PROVE  Codes' /\ Proofs'
<1> DEFINE r == [req[p] EXCEPT !.pc = "persist"]
<1>1. r \in Request /\ r.pc = "persist"
  BY DEF IInv, TypeOK, Request, Labels
<1>2. Elsewhere(p, r)
  BY <1>1 DEF NewSession, Goto, Become, Elsewhere
<1> QED
  BY <1>1, <1>2, CodesElsewhere, ProofsNewSession DEF IInv

\* The steps of a login keep the invariants.
LEMMA InvLogin ==
  ASSUME IInv, TypeOK', NEW p \in Procs, LoginStep(p)
  PROVE  Codes' /\ Proofs'
<1> USE DEF tables
<1>0. /\ TypeOK /\ req' \in [Procs -> Request] /\ req[p] \in Request
  BY DEF IInv, TypeOK
<1>1. ASSUME NEW op, NEW u, NEW proof, NEW label,
             label \in {"gate", "lookup"}, req[p] = Idle,
             Proceed(p, op, u, proof, label), UNCHANGED <<tables, totpState>>
      PROVE  Codes' /\ Proofs'
  <2> DEFINE r == [Idle EXCEPT !.op = op, !.pc = label, !.u = u,
                               !.rec = acct[u], !.proof = proof]
  <2>1. r.pc = label /\ r.code = 0
    BY IdleType, IdleFields DEF Request
  <2>2. req' = [req EXCEPT ![p] = r]
    BY <1>1 DEF Proceed, Become
  <2> HIDE DEF r
  <2> QED
    BY <1>0, <1>1, <2>1, <2>2, QuietStart
<1>2. ASSUME NEW u \in Users, Password(p, u) \/ Passkey(p, u)
      PROVE  Codes' /\ Proofs'
  BY <1>1, <1>2 DEF Password, Passkey, Starts
<1>3. ASSUME NEW pw \in 0 .. MaxPw, Tenantless(p, pw)
      PROVE  Codes' /\ Proofs'
  <2>1. req[p] = Idle /\ UNCHANGED <<tables, totpState>>
    BY <1>3 DEF Tenantless, Starts
  <2>2. CASE \E u : Proceed(p, "tenantless", u, pw, "gate")
    BY <1>1, <2>1, <2>2
  <2>3. CASE UNCHANGED req
    <3>1. req' = [req EXCEPT ![p] = Idle]
      BY <1>0, <2>1, <2>3 DEF TypeOK
    <3> QED
      BY <1>0, <2>1, <3>1, IdleFields, QuietStart
  <2> QED
    BY <1>3, <2>2, <2>3 DEF Tenantless
<1>4. ASSUME NEW tok \in pending, NEW u \in Users,
             Select(p, tok, u) \/ Code(p, tok, u)
      PROVE  Codes' /\ Proofs'
  BY <1>1, <1>4 DEF Select, Code, Starts
<1>5. ASSUME Lookup(p) PROVE Codes' /\ Proofs'
  <2>1. CASE Finish(p)
    BY <1>5, <2>1, QuietGoto DEF Lookup, At, Labels
  <2>2. ASSUME NEW label \in {"check", "gate"},
               Become(p, [req[p] EXCEPT !.rec = acct[req[p].u], !.pc = label])
        PROVE  Codes' /\ Proofs'
    <3> DEFINE r == [req[p] EXCEPT !.rec = acct[req[p].u], !.pc = label]
    <3>1. req[p].code = 0
      BY <1>5 DEF Lookup, At, IInv, Proofs, LoginProves
    <3>2. r \in Request /\ r.pc = label /\ r.code = 0
      BY <1>0, <3>1 DEF TypeOK, Request, Labels
    <3>3. req' = [req EXCEPT ![p] = r]
      BY <2>2 DEF Become
    <3> HIDE DEF r
    <3>4. Elsewhere(p, r) /\ Harmless(p, r)
      BY <1>5, <3>2, <3>3 DEF Elsewhere, Harmless, Lookup, At, totpState
    <3> QED
      BY <3>2, <3>4, QuietStep
  <2> QED
    BY <1>5, <2>1, <2>2 DEF Lookup
<1>6. ASSUME PassGate(p) PROVE Codes' /\ Proofs'
  <2> DEFINE r == [req[p] EXCEPT !.pc = "create"]
  <2>1. r \in Request /\ r.pc = "create"
    BY <1>0 DEF Request, Labels
  <2>2. Elsewhere(p, r)
    BY <1>6, <2>1 DEF PassGate, Goto, Become, Elsewhere, At
  <2> QED
    BY <1>6, <2>1, <2>2, CodesElsewhere, ProofsPassGate DEF IInv
<1>7. ASSUME NEW k \in Tokens, IssueCodeToken(p, k) PROVE Codes' /\ Proofs'
  BY <1>7, QuietGoto DEF IssueCodeToken, At, Labels
<1>8. ASSUME RejectCode(p) PROVE Codes' /\ Proofs'
  BY <1>8, QuietGoto DEF RejectCode, AwaitsCode, At, Labels
<1>9. ASSUME NEW t \in TimeSteps, AcceptCode(p, t) PROVE Codes' /\ Proofs'
  <2> DEFINE r == [req[p] EXCEPT !.pc = "save", !.code = t, !.rec.totp = TRUE]
  <2>1. req' = [req EXCEPT ![p] = r]
    BY <1>9 DEF AcceptCode, Become
  <2>2. r \in Request
    BY <1>0, <2>1
  <2>3. r.pc = "save"
    BY <1>0 DEF Request
  <2> HIDE DEF r
  <2>4. Harmless(p, r)
    BY <1>9, <2>1, <2>3 DEF Harmless, AcceptCode
  <2> QED
    BY <1>9, <2>2, <2>4, CodesAccept, ProofsHarmless DEF IInv
<1>10. ASSUME SaveCode(p) PROVE Codes' /\ Proofs'
  BY <1>10, CodesSave, ProofsSave DEF IInv
<1>11. ASSUME NEW i \in Ids, Create(p, i) PROVE Codes' /\ Proofs'
  <2> DEFINE s == [id |-> i, user |-> req[p].u, role |-> req[p].rec.role,
                   setup |-> RequireTotp /\ ~req[p].rec.totp,
                   proof |-> req[p].proof, needed |-> req[p].rec.totp,
                   code |-> req[p].code]
  <2>1. s \in Session
    BY <1>0, BoundsAssumption DEF Request, Account, Session
  <2>2. NewSession(p, i, s) /\ At(p, "create")
    BY <1>11 DEF Create
  <2>3. s.needed => s.code # 0
    BY <2>2 DEF At, IInv, Proofs, LoginProves
  <2>4. s.id = i /\ s.user = req[p].u /\ s.code = req[p].code
    OBVIOUS
  <2> HIDE DEF s
  <2>5. ~At(p, "save")
    BY <2>2 DEF At
  <2> QED
    BY <2>1, <2>2, <2>3, <2>4, <2>5, InvNewSession
<1>12. ASSUME Persist(p) PROVE Codes' /\ Proofs'
  BY <1>12, QuietGoto DEF Persist, At, Labels
<1> QED
  BY <1>2, <1>3, <1>4, <1>5, <1>6, <1>7, <1>8, <1>9, <1>10, <1>11, <1>12
     DEF LoginStep

\* So do the changes of accounts.
LEMMA InvChange ==
  ASSUME IInv, TypeOK', NEW p \in Procs, ChangeStep(p) \/ Fail(p)
  PROVE  Codes' /\ Proofs'
<1> USE DEF tables
<1>0. /\ TypeOK /\ req' \in [Procs -> Request] /\ req[p] \in Request
  BY DEF IInv, TypeOK
<1>1. ASSUME NEW op, NEW s, NEW u, NEW rec, NEW role, NEW label,
             label \in {"write", "enroll"}, Change(p, op, s, u, rec, role, label)
      PROVE  Codes' /\ Proofs'
  <2> DEFINE r == [Idle EXCEPT !.op = op, !.pc = label, !.u = u, !.rec = rec,
                               !.self = (u = s.user), !.role = role]
  <2>1. r.pc = label /\ r.code = 0
    BY IdleType, IdleFields DEF Request
  <2>2. req' = [req EXCEPT ![p] = r] /\ req[p] = Idle
    BY <1>1 DEF Change, Become, Starts
  <2>3. UNCHANGED <<tables, totpState>>
    BY <1>1 DEF Change
  <2> HIDE DEF r
  <2> QED
    BY <1>0, <1>1, <2>1, <2>2, <2>3, QuietStart
<1>2. ASSUME NEW s \in mem, NEW u \in Users,
             \/ ResetPassword(p, s, u) \/ Disable(p, s, u) \/ Profile(p, s, u)
             \/ \E role \in Roles : SetRoles(p, s, u, role)
             \/ \E pw \in 0 .. MaxPw, role \in Roles :
                  UpdateUser(p, s, u, pw, role)
      PROVE  Codes' /\ Proofs'
  BY <1>1, <1>2 DEF ResetPassword, Disable, Profile, SetRoles, UpdateUser
<1>3. ASSUME NEW s \in mem,
             ChangePassword(p, s) \/ TotpSetup(p, s) \/ TotpEnable(p, s)
      PROVE  Codes' /\ Proofs'
  BY <1>1, <1>3 DEF ChangePassword, TotpSetup, TotpEnable
<1>4. ASSUME NEW s \in mem, NEW op, End(p, op, s)
      PROVE  Codes' /\ Proofs'
  <2> DEFINE r == [Idle EXCEPT !.op = op, !.pc = "flush", !.u = s.user]
  <2>1. r.pc = "flush" /\ r.code = 0
    BY IdleType, IdleFields DEF Request
  <2>2. req' = [req EXCEPT ![p] = r] /\ req[p] = Idle
    BY <1>4 DEF End, Become, Starts
  <2>3. mem' \subseteq mem /\ file' = file /\ UNCHANGED totpState
    BY <1>4 DEF End
  <2> HIDE DEF r
  <2> QED
    BY <1>0, <2>1, <2>2, <2>3, QuietStart
<1>5. ASSUME NEW s \in mem, Logout(p, s) \/ UseOfDisabled(p, s)
      PROVE  Codes' /\ Proofs'
  BY <1>4, <1>5 DEF Logout, UseOfDisabled
<1>6. ASSUME Write(p) PROVE Codes' /\ Proofs'
  BY <1>6, QuietGoto DEF Write, At, Labels
<1>7. ASSUME Revoke(p) PROVE Codes' /\ Proofs'
  BY <1>7, QuietGoto DEF Revoke, At, Labels
<1>8. ASSUME Flush(p) PROVE Codes' /\ Proofs'
  BY <1>8, QuietGoto DEF Flush, At, Labels
<1>9. ASSUME NEW i \in Ids, Renew(p, i) PROVE Codes' /\ Proofs'
  <2> DEFINE s == [id |-> i, user |-> req[p].u, role |-> req[p].role,
                   setup |-> FALSE, proof |-> req[p].rec.pw, needed |-> FALSE,
                   code |-> 0]
  <2>1. s \in Session
    BY <1>0, StepsAreNat DEF Request, Account, Session
  <2>2. NewSession(p, i, s) /\ ~At(p, "save")
    BY <1>9 DEF Renew, At
  <2>3. s.id = i /\ ~s.needed /\ s.code = 0
    OBVIOUS
  <2> HIDE DEF s
  <2> QED
    BY <2>1, <2>2, <2>3, InvNewSession
<1>10. ASSUME Fail(p) PROVE Codes' /\ Proofs'
  BY <1>10, QuietGoto DEF Fail, At, Labels
<1> QED
  BY <1>2, <1>3, <1>5, <1>6, <1>7, <1>8, <1>9, <1>10 DEF ChangeStep

\* Every step keeps the invariants.
LEMMA InvStep == IInv /\ [Next]_vars => IInv'
<1> SUFFICES ASSUME IInv, [Next]_vars PROVE IInv'
  OBVIOUS
<1>0. TypeOK'
  BY TypeStep DEF IInv
<1>1. ASSUME NEW p \in Procs, LoginStep(p) \/ ChangeStep(p) \/ Fail(p)
      PROVE  Codes' /\ Proofs'
  BY <1>0, <1>1, InvLogin, InvChange
<1>2. ASSUME UNCHANGED <<tables, totpState, req>> PROVE Codes' /\ Proofs'
  BY <1>2 DEF IInv, Codes, CountersSaved, CodesSpent, Proofs, LoginProves,
              SessionProves, AllSessions, At, tables, totpState
<1>3. ASSUME Restart PROVE Codes' /\ Proofs'
  <2>1. \A p \in Procs : req'[p].pc = "idle"
    BY <1>3, IdleFields DEF Restart
  <2>2. Codes'
    BY <1>3, <2>1 DEF Restart, IInv, Codes, CountersSaved, CodesSpent, At
  <2>3. AllSessions' \subseteq AllSessions /\ saved' = saved
    BY <1>3 DEF Restart, AllSessions
  <2>4. Proofs'
    BY <2>1, <2>3 DEF IInv, Proofs, LoginProves, SessionProves
  <2> QED
    BY <2>2, <2>4
<1>4. ASSUME NEW tok \in pending, Misuse(tok) PROVE Codes' /\ Proofs'
  BY <1>2, <1>4 DEF Misuse
<1>5. ASSUME Tick PROVE Codes' /\ Proofs'
  BY <1>2, <1>5 DEF Tick
<1>6. ASSUME UNCHANGED vars PROVE Codes' /\ Proofs'
  BY <1>2, <1>6 DEF vars, tables, totpState
<1> QED
  BY <1>0, <1>1, <1>3, <1>4, <1>5, <1>6 DEF Next, IInv

\* IInv is an invariant.
LEMMA Invariant == Spec => []IInv
<1>1. Init => IInv
  BY TypeInit, CodesInit, ProofsInit DEF IInv
<1> QED
  BY <1>1, InvStep, PTL DEF Spec

\* A code is accepted at most once: by no two of any number of concurrent
\* logins and enrolments, and not again after a crash.
THEOREM CodesUsedOnce == Spec => []TotpCodesUsedOnce
<1>1. IInv => TotpCodesUsedOnce
  BY DEF IInv, Codes, CodesSpent, TotpCodesUsedOnce
<1> QED
  BY <1>1, Invariant, PTL

\* No login gets a session without the second factor its account had, and no
\* two logins get one for the same code.
THEOREM SecondFactorMet == Spec => []OneSessionPerCode
<1>1. IInv => \A s \in mem \cup file : SessionProves(s)
  BY DEF IInv, Proofs, AllSessions
<1>2. (\A s \in mem \cup file : SessionProves(s)) => OneSessionPerCode
  BY Zenon DEF SessionProves, AllSessions, OneSessionPerCode
<1> QED
  BY <1>1, <1>2, Invariant, PTL

-----------------------------------------------------------------------------
(* One request at a time.                                                  *)

\* The session has the role and rests on the password that the account has.
Follows(s) == s.role = acct[s.user].role /\ s.proof = acct[s.user].pw

\* What a request that is the only one has read is still so; a renewed session
\* gets what the account has; the file is behind the map only before a write.
Alone(r) ==
  /\ r.pc # "lookup"
  /\ r.pc \notin {"persist", "flush"} => file = mem
  /\ \A s \in mem : Follows(s) \/ (r.pc = "revoke" /\ s.user = r.u)
  /\ \/ r.pc \in {"gate", "check", "enroll", "save", "create"}
     \/ r.pc = "write" /\ r.op \notin RevokingOps
     => r.rec.role = acct[r.u].role /\ r.rec.pw = acct[r.u].pw
  /\ \/ r.pc \in {"gate", "check", "create"}
     \/ r.pc = "save" /\ r.op # "totpenable"
     => r.proof = acct[r.u].pw
  /\ r.pc = "enroll" => r.op = "totpenable"
  /\ r.pc = "write" /\ r.op \in RevokingOps /\ r.self => r.role = r.rec.role
  /\ r.pc \in {"revoke", "flush", "renew"} /\ r.self
     => r.role = acct[r.u].role /\ r.rec.pw = acct[r.u].pw
  /\ r.pc = "renew" => r.self

\* Alone holds initially.
LEMMA AloneInit ==
  ASSUME Init, NEW p \in Procs PROVE Alone(req[p])
BY DEF Init, Alone, Idle

\* A login that starts alone.
LEMMA AloneProceed ==
  ASSUME TypeOK, NEW p \in Procs, Alone(req[p]), req[p] = Idle,
         NEW op, NEW u \in Users, Proceed(p, op, u, acct[u].pw, "gate"),
         UNCHANGED <<acct, tables>>
  PROVE  Alone(req[p])'
<1>1. /\ req'[p].pc = "gate" /\ req'[p].op = op /\ req'[p].u = u
      /\ req'[p].rec = acct[u] /\ req'[p].proof = acct[u].pw /\ ~req'[p].self
  BY DEF Proceed, Become, Idle, TypeOK
<1> QED
  BY <1>1 DEF Alone, Follows, Idle, tables

\* A change that starts alone.
LEMMA AloneChange ==
  ASSUME TypeOK, NEW p \in Procs, Alone(req[p]), NEW op, NEW s \in mem,
         NEW u \in Users, NEW rec \in Account, NEW role,
         Change(p, op, s, u, rec, role, IF op = "totpenable" THEN "enroll" ELSE "write"),
         op \notin RevokingOps => rec.role = acct[u].role /\ rec.pw = acct[u].pw,
         op \in RevokingOps /\ u = s.user => role = rec.role
  PROVE  Alone(req[p])'
<1>1. /\ req'[p].pc \in {"enroll", "write"} /\ req'[p].op = op /\ req'[p].u = u
      /\ req'[p].pc = "enroll" => op = "totpenable"
      /\ req'[p].rec = rec /\ req'[p].role = role
      /\ req'[p].self = (u = s.user)
  BY DEF Change, Become, Idle, TypeOK
<1>2. req[p].pc = "idle"
  BY DEF Change, Starts, Idle
<1>3. "totpenable" \notin RevokingOps
  BY DEF RevokingOps
<1> QED
  BY <1>1, <1>2, <1>3 DEF Change, Alone, Follows, tables

\* A step that goes on to a label leaves the rest of the request as it is.
LEMMA AloneGoes ==
  ASSUME TypeOK, NEW p \in Procs, NEW label, Goto(p, label)
  PROVE  /\ req'[p].pc = label /\ req'[p].op = req[p].op /\ req'[p].u = req[p].u
         /\ req'[p].rec = req[p].rec /\ req'[p].self = req[p].self
         /\ req'[p].role = req[p].role /\ req'[p].proof = req[p].proof
<1>1. req[p] \in Request
  BY DEF TypeOK
<1>2. req'[p] = [req[p] EXCEPT !.pc = label]
  BY DEF Goto, Become, TypeOK
<1> QED
  BY <1>1, <1>2 DEF Request

\* A request that ended is idle.
LEMMA AloneEnds ==
  ASSUME TypeOK, NEW p \in Procs, Finish(p)
  PROVE  req'[p].pc = "idle" /\ ~req'[p].self
BY DEF Finish, Become, TypeOK, Idle

\* The steps of a login.
LEMMA AloneLogin ==
  ASSUME TypeOK, NEW p \in Procs, Alone(req[p]), {"select", "code"} \cap Ops = {},
         LoginStep(p)
  PROVE  Alone(req[p])'
<1>1. ASSUME NEW u \in Users, Password(p, u) \/ Passkey(p, u) PROVE Alone(req[p])'
  BY <1>1, AloneProceed DEF Password, Passkey, Starts
<1>2. ASSUME NEW pw \in 0 .. MaxPw, Tenantless(p, pw) PROVE Alone(req[p])'
  <2>1. CASE UNCHANGED req
    BY <1>2, <2>1 DEF Tenantless, Alone, Follows, tables
  <2>2. ASSUME NEW u \in Users, acct[u].pw = pw, Proceed(p, "tenantless", u, pw, "gate")
        PROVE  Alone(req[p])'
    BY <1>2, <2>2, AloneProceed DEF Tenantless, Starts
  <2> QED
    BY <1>2, <2>1, <2>2 DEF Tenantless
<1>3. ASSUME NEW tok \in pending, NEW u \in Users, Select(p, tok, u) \/ Code(p, tok, u)
      PROVE  Alone(req[p])'
  BY <1>3 DEF Select, Code, Starts
<1>4. ASSUME Lookup(p) PROVE Alone(req[p])'
  BY <1>4 DEF Lookup, At, Alone
<1>5. ASSUME PassGate(p) PROVE Alone(req[p])'
  <2>1. Goto(p, "create") /\ req[p].pc = "gate" /\ UNCHANGED <<acct, mem, file>>
    BY <1>5 DEF PassGate, At, tables
  <2> QED
    BY <2>1, AloneGoes DEF Alone, Follows
<1>6. ASSUME NEW k \in Tokens, IssueCodeToken(p, k) PROVE Alone(req[p])'
  BY <1>6, AloneEnds DEF IssueCodeToken, At, Alone, Follows, tables
<1>7. ASSUME RejectCode(p) PROVE Alone(req[p])'
  BY <1>7, AloneEnds DEF RejectCode, AwaitsCode, At, Alone, Follows, tables
<1>8. ASSUME NEW t \in TimeSteps, AcceptCode(p, t) PROVE Alone(req[p])'
  <2>1. req[p] \in Request /\ req[p].rec \in Account
    BY DEF TypeOK, Request
  <2>2. /\ req'[p].pc = "save" /\ req'[p].op = req[p].op /\ req'[p].u = req[p].u
        /\ req'[p].proof = req[p].proof
        /\ req'[p].rec.role = req[p].rec.role /\ req'[p].rec.pw = req[p].rec.pw
    BY <1>8, <2>1 DEF AcceptCode, Become, TypeOK, Request, Account
  <2> QED
    BY <1>8, <2>2 DEF AcceptCode, AwaitsCode, At, Alone, Follows, tables
<1>9. ASSUME SaveCode(p) PROVE Alone(req[p])'
  <2>1. "totpenable" \notin RevokingOps
    BY DEF RevokingOps
  <2>2. /\ Goto(p, IF req[p].op = "totpenable" THEN "write" ELSE "create")
        /\ req[p].pc = "save" /\ UNCHANGED <<acct, mem, file>>
    BY <1>9 DEF SaveCode, At, tables
  <2> QED
    BY <2>1, <2>2, AloneGoes DEF Alone, Follows
<1>10. ASSUME NEW i \in Ids, Create(p, i) PROVE Alone(req[p])'
  <2>1. PICK s : /\ s.user = req[p].u /\ s.role = req[p].rec.role /\ s.proof = req[p].proof
                 /\ NewSession(p, i, s)
    BY <1>10 DEF Create
  <2>2. /\ Goto(p, "persist") /\ req[p].pc = "create"
        /\ mem' = mem \cup {s} /\ UNCHANGED <<acct, file>>
    BY <1>10, <2>1 DEF Create, NewSession, At
  <2>3. Follows(s)'
    BY <2>1, <2>2 DEF Alone, Follows
  <2> QED
    BY <2>2, <2>3, AloneGoes DEF Alone, Follows
<1>11. ASSUME Persist(p) PROVE Alone(req[p])'
  BY <1>11, AloneEnds DEF Persist, At, Alone, Follows
<1> QED
  BY <1>1, <1>2, <1>3, <1>4, <1>5, <1>6, <1>7, <1>8, <1>9, <1>10, <1>11
     DEF LoginStep

\* The steps of a change.
LEMMA AloneAccount ==
  ASSUME TypeOK, NEW p \in Procs, Alone(req[p]), ChangeStep(p) \/ Fail(p)
  PROVE  Alone(req[p])'
<1>0. ASSUME NEW op, Starts(p, op), NEW s \in mem
      PROVE  Follows(s) /\ s.user \in Users /\ s.role \in Roles
  BY <1>0 DEF Starts, Idle, Alone, TypeOK, Session
<1>a. \A u \in Users : acct[u] \in Account
  BY DEF TypeOK
<1>1. ASSUME NEW s \in mem, NEW u \in Users, ResetPassword(p, s, u) PROVE Alone(req[p])'
  <2>1. NewPw(u) \in Account /\ NewPw(u).role = acct[u].role
    BY <1>1, <1>a, BoundsAssumption DEF ResetPassword, NewPw, Account
  <2>2. Change(p, "resetpw", s, u, NewPw(u), s.role, "write") /\ Starts(p, "resetpw")
    BY <1>1 DEF ResetPassword, Change
  <2>3. Follows(s)
    BY <1>0, <2>2
  <2>4. "resetpw" \in RevokingOps /\ "resetpw" # "totpenable"
    BY DEF RevokingOps
  <2> QED
    BY <2>1, <2>2, <2>3, <2>4, AloneChange DEF Follows
<1>2. ASSUME NEW s \in mem, NEW u \in Users, NEW role \in Roles, SetRoles(p, s, u, role)
      PROVE  Alone(req[p])'
  <2>1. [acct[u] EXCEPT !.role = role] \in Account /\ [acct[u] EXCEPT !.role = role].role = role
    BY <1>a DEF Account
  <2>2. "setroles" \in RevokingOps /\ "setroles" # "totpenable"
    BY DEF RevokingOps
  <2> QED
    BY <1>2, <2>1, <2>2, AloneChange DEF SetRoles
<1>3. ASSUME NEW s \in mem, NEW u \in Users, NEW pw \in 0 .. MaxPw, NEW role \in Roles,
             UpdateUser(p, s, u, pw, role)
      PROVE  Alone(req[p])'
  <2>1. /\ [acct[u] EXCEPT !.pw = pw, !.role = role] \in Account
        /\ [acct[u] EXCEPT !.pw = pw, !.role = role].role = role
    BY <1>a DEF Account
  <2>2. "update" \in RevokingOps /\ "update" # "totpenable"
    BY DEF RevokingOps
  <2> QED
    BY <1>3, <2>1, <2>2, AloneChange DEF UpdateUser
<1>4. ASSUME NEW s \in mem, NEW u \in Users, Disable(p, s, u) PROVE Alone(req[p])'
  <2>1. /\ [acct[u] EXCEPT !.disabled = TRUE] \in Account
        /\ [acct[u] EXCEPT !.disabled = TRUE].role = acct[u].role
    BY <1>a DEF Account
  <2>2. Change(p, "disable", s, u, [acct[u] EXCEPT !.disabled = TRUE], s.role, "write") /\ Starts(p, "disable")
    BY <1>4 DEF Disable, Change
  <2>3. Follows(s)
    BY <1>0, <2>2
  <2>4. "disable" \in RevokingOps /\ "disable" # "totpenable"
    BY DEF RevokingOps
  <2> QED
    BY <2>1, <2>2, <2>3, <2>4, AloneChange DEF Follows
<1>5. ASSUME NEW s \in mem, NEW u \in Users, Profile(p, s, u) PROVE Alone(req[p])'
  <2>1. "profile" \notin RevokingOps /\ "profile" # "totpenable"
    BY DEF RevokingOps
  <2> QED
    BY <1>5, <1>a, <2>1, AloneChange DEF Profile
<1>6. ASSUME NEW s \in mem, ChangePassword(p, s) PROVE Alone(req[p])'
  <2>1. Change(p, "changepw", s, s.user, NewPw(s.user), s.role, "write") /\ Starts(p, "changepw")
    BY <1>6 DEF ChangePassword, Change
  <2>2. Follows(s) /\ s.user \in Users
    BY <1>0, <2>1
  <2>3. NewPw(s.user) \in Account /\ NewPw(s.user).role = acct[s.user].role
    BY <1>6, <1>a, <2>2, BoundsAssumption DEF ChangePassword, NewPw, Account
  <2>4. "changepw" \in RevokingOps /\ "changepw" # "totpenable"
    BY DEF RevokingOps
  <2> QED
    BY <2>1, <2>2, <2>3, <2>4, AloneChange DEF Follows
<1>7. ASSUME NEW s \in mem, TotpSetup(p, s) PROVE Alone(req[p])'
  <2> DEFINE rec == [acct[s.user] EXCEPT !.key = @ + 1, !.totp = FALSE]
  <2>1. Change(p, "totpsetup", s, s.user, rec, s.role, "write") /\ Starts(p, "totpsetup")
    BY <1>7 DEF TotpSetup, Change
  <2>2. s.user \in Users
    BY <1>0, <2>1
  <2>a. acct[s.user] \in Account /\ acct[s.user].key < MaxKey
    BY <1>7, <1>a, <2>2 DEF TotpSetup
  <2>b. acct[s.user].key + 1 \in 0 .. MaxKey
    BY <2>a, BoundsAssumption DEF Account
  <2>3. rec \in Account /\ rec.role = acct[s.user].role /\ rec.pw = acct[s.user].pw
    BY <2>a, <2>b DEF Account
  <2>4. "totpsetup" \notin RevokingOps /\ "totpsetup" # "totpenable"
    BY DEF RevokingOps
  <2> HIDE DEF rec
  <2> QED
    BY <2>1, <2>2, <2>3, <2>4, AloneChange
<1>8. ASSUME NEW s \in mem, TotpEnable(p, s) PROVE Alone(req[p])'
  <2>1. Change(p, "totpenable", s, s.user, acct[s.user], s.role, "enroll") /\ Starts(p, "totpenable")
    BY <1>8 DEF TotpEnable, Change
  <2>2. s.user \in Users
    BY <1>0, <2>1
  <2>3. "totpenable" \notin RevokingOps
    BY DEF RevokingOps
  <2> QED
    BY <1>a, <2>1, <2>2, <2>3, AloneChange
<1>9. ASSUME NEW op, NEW s \in mem, End(p, op, s) PROVE Alone(req[p])'
  <2>1. req'[p].pc = "flush" /\ ~req'[p].self
    BY <1>9 DEF End, Become, Idle, TypeOK
  <2>2. req[p].pc = "idle" /\ mem' \subseteq mem /\ acct' = acct
    BY <1>9 DEF End, Starts, Idle
  <2> QED
    BY <2>1, <2>2 DEF Alone, Follows
<1>10. ASSUME Write(p) PROVE Alone(req[p])'
  <2>1. /\ acct' = [acct EXCEPT ![req[p].u] = req[p].rec] /\ mem' = mem /\ file' = file
        /\ req[p].pc = "write" /\ req[p].u \in Users
    BY <1>10 DEF Write, At, tables, TypeOK, Request
  <2>2. acct'[req[p].u] = req[p].rec /\ \A u \in Users : u # req[p].u => acct'[u] = acct[u]
    BY <2>1 DEF TypeOK
  <2>3. \A s \in mem : s.user \in Users
    BY DEF TypeOK, Session
  <2>4. CASE req[p].op \in RevokingOps
    <3>1. Goto(p, "revoke")
      BY <1>10, <2>4 DEF Write, EndsSessions
    <3> QED
      BY <2>1, <2>2, <2>3, <2>4, <3>1, AloneGoes DEF Alone, Follows
  <2>5. CASE req[p].op \notin RevokingOps
    <3>1. Finish(p)
      BY <1>10, <2>5 DEF Write, EndsSessions
    <3>2. \A s \in mem : Follows(s)'
      BY <2>1, <2>2, <2>3, <2>5 DEF Alone, Follows
    <3> QED
      BY <2>1, <3>1, <3>2, AloneEnds DEF Alone
  <2> QED
    BY <2>4, <2>5
<1>11. ASSUME Revoke(p) PROVE Alone(req[p])'
  <2>1. /\ Goto(p, "flush") /\ req[p].pc = "revoke" /\ UNCHANGED <<acct, file>>
        /\ mem' = {s \in mem : s.user # req[p].u}
    BY <1>11 DEF Revoke, At
  <2> QED
    BY <2>1, AloneGoes DEF Alone, Follows
<1>12. ASSUME Flush(p) PROVE Alone(req[p])'
  <2>1. /\ (Goto(p, "renew") /\ req[p].self) \/ Finish(p)
        /\ req[p].pc = "flush" /\ file' = mem /\ UNCHANGED <<acct, mem>>
    BY <1>12 DEF Flush, At
  <2> QED
    BY <2>1, AloneGoes, AloneEnds DEF Alone, Follows
<1>13. ASSUME NEW i \in Ids, Renew(p, i) PROVE Alone(req[p])'
  <2>1. PICK s : /\ s.user = req[p].u /\ s.role = req[p].role /\ s.proof = req[p].rec.pw
                 /\ NewSession(p, i, s)
    BY <1>13 DEF Renew
  <2>2. /\ Goto(p, "persist") /\ req[p].pc = "renew"
        /\ mem' = mem \cup {s} /\ UNCHANGED <<acct, file>>
    BY <1>13, <2>1 DEF Renew, NewSession, At
  <2>3. Follows(s)'
    BY <2>1, <2>2 DEF Alone, Follows
  <2> QED
    BY <2>2, <2>3, AloneGoes DEF Alone, Follows
<1>14. ASSUME Fail(p) PROVE Alone(req[p])'
  BY <1>14, AloneEnds DEF Fail, At, Alone, Follows, tables
<1> QED
  BY <1>1, <1>2, <1>3, <1>4, <1>5, <1>6, <1>7, <1>8, <1>9, <1>10, <1>11, <1>12,
     <1>13, <1>14 DEF ChangeStep, Logout, UseOfDisabled

\* When requests do not overlap, use no login token and are not cut off by a
\* crash, no session has a role or rests on a password that its account does
\* not have: each of the changes ends the sessions it has to, and the renewed
\* session has what the account has.
THEOREM SessionsFollow ==
  ASSUME NEW p, Procs = {p}, {"select", "code", "crash"} \cap Ops = {}
  PROVE  Spec => []SessionsFollowAccount
<1> DEFINE A == Alone(req[p])
<1>1. Init => A
  BY AloneInit
<1>2. ASSUME TypeOK, A, [Next]_vars PROVE A'
  <2>1. ASSUME NEW q \in Procs, LoginStep(q) \/ ChangeStep(q) \/ Fail(q) PROVE A'
    BY <1>2, <2>1, AloneLogin, AloneAccount
  <2>2. CASE Restart
    <3>1. req[p] = Idle /\ mem' = file /\ UNCHANGED <<acct, file>>
      BY <2>2 DEF Restart
    <3>2. req'[p] = Idle
      BY <2>2 DEF Restart
    <3> QED
      BY <1>2, <3>1, <3>2 DEF Alone, Follows, Idle
  <2>3. CASE UNCHANGED <<acct, mem, file, req>>
    BY <1>2, <2>3 DEF Alone, Follows
  <2> QED
    BY <1>2, <2>1, <2>2, <2>3 DEF Next, Misuse, Tick, tables, vars
<1>3. A => SessionsFollowAccount
  BY DEF Alone, SessionsFollowAccount, AtRest, Follows, Idle
<1> HIDE DEF A
<1> QED
  BY <1>1, <1>2, <1>3, LoginTypes, PTL DEF Spec
=============================================================================
