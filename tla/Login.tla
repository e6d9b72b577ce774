------------------------------- MODULE Login -------------------------------
(***************************************************************************)
(* Signing in and the changes of accounts that end sessions:               *)
(* internal/server/server.go, login_pending.go, mvp_gaps.go, phase5.go and *)
(* the passkey login of phase7.go.                                         *)
(*                                                                         *)
(* An account is one row that every handler reads whole, changes in memory *)
(* and writes back whole; no lock or version joins the two.  The session   *)
(* table changes in memory first and is written after (see SessionStore),  *)
(* login tokens live in memory only, the last accepted TOTP step of each   *)
(* user is written as it is accepted.  A process is one request; what its  *)
(* middleware and its first read see is one step, each later call another. *)
(***************************************************************************)
EXTENDS Integers, FiniteSets

CONSTANTS
  Users,         \* accounts; a person may have one in each of several tenants
  Procs,         \* requests that can be in flight at the same time
  Ids, Tokens,   \* session ids and login tokens
  Ops,           \* kinds of request that occur in this instance
  RequireTotp,   \* the platform or the tenants demand a second factor
  Window,        \* time steps accepted around the current one (2 in the code)
  MaxStep,       \* bound on the clock, in time steps of 30 seconds
  MaxPw, MaxKey  \* bounds on the passwords and TOTP secrets of an account

LoginOps == {"password", "passkey", "tenantless", "select", "code"}
RevokingOps == {"changepw", "resetpw", "setroles", "update", "disable"}
AccountOps == RevokingOps \cup {"profile", "totpsetup", "totpenable"}
AllOps == LoginOps \cup AccountOps \cup {"logout", "use", "restart", "crash"}

ASSUME OpsKnown == Ops \subseteq AllOps
ASSUME UsersAssumption == Users # {}
ASSUME BoundsAssumption ==
  /\ Window \in Nat /\ MaxStep \in Nat /\ MaxPw \in Nat /\ MaxKey \in Nat
  /\ RequireTotp \in BOOLEAN

VARIABLES
  acct,      \* the user row of each account
  mem, file, \* sessions in memory and in sessions.json
  drawn,     \* session ids that were ever drawn
  pending,   \* login tokens
  counters,  \* last accepted time step of each user
  saved,     \* totp-counters.json
  step,      \* the current time step
  uses,      \* how often the code of each step was accepted
  req        \* the request of each process

tables == <<mem, file, drawn>>
totpState == <<counters, saved, uses>>
vars == <<acct, mem, file, drawn, pending, counters, saved, step, uses, req>>

-----------------------------------------------------------------------------

Roles == {"member", "admin"}
TimeSteps == 0 .. MaxStep + Window

\* A user row: the generations of its password and of its TOTP secret (0 for
\* none), its role, whether it is disabled, and TotpEnabled.
Account == [pw : 0 .. MaxPw, key : 0 .. MaxKey, role : Roles,
            disabled : BOOLEAN, totp : BOOLEAN]

\* A session.  proof is the password its login proved and code the time step
\* it was given for; needed says that its login met a second factor.
Session == [id : Ids, user : Users, role : Roles, setup : BOOLEAN,
            proof : 0 .. MaxPw, needed : BOOLEAN, code : TimeSteps]

\* A login token: for the accounts to choose from, or for the second step.
Token == [id : Tokens, choose : BOOLEAN, users : SUBSET Users,
          proof : [Users -> 0 .. MaxPw]]

Labels == {"idle", "lookup", "gate", "check", "save", "create", "persist",
           "enroll", "write", "revoke", "flush", "renew"}

Request == [op : AllOps \cup {"none"}, pc : Labels, u : Users,
            rec : Account,           \* the row it read, or will write
            self : BOOLEAN,          \* it changes the account it acts for
            role : Roles,            \* the role it gives a renewed session
            proof : 0 .. MaxPw, code : TimeSteps]

NewAccount == [pw |-> 0, key |-> 0, role |-> "admin", disabled |-> FALSE,
               totp |-> FALSE]

Idle == [op |-> "none", pc |-> "idle", u |-> CHOOSE u \in Users : TRUE,
         rec |-> NewAccount, self |-> FALSE, role |-> "member",
         proof |-> 0, code |-> 0]

TypeOK ==
  /\ acct \in [Users -> Account]
  /\ mem \subseteq Session /\ file \subseteq Session /\ drawn \subseteq Ids
  /\ pending \subseteq Token
  /\ counters \in [Users -> TimeSteps] /\ saved \in [Users -> TimeSteps]
  /\ step \in 0 .. MaxStep
  /\ uses \in [Users -> [TimeSteps -> Nat]]
  /\ req \in [Procs -> Request]

\* Accounts with and without a second factor, before anyone is signed in.
Init ==
  /\ acct \in [Users -> {NewAccount} \cup
                 {[NewAccount EXCEPT !.key = k, !.totp = TRUE] :
                    k \in {1} \cap 0 .. MaxKey}]
  /\ mem = {} /\ file = {} /\ drawn = {} /\ pending = {}
  /\ counters = [u \in Users |-> 0] /\ saved = counters
  /\ step = 0
  /\ uses = [u \in Users |-> [t \in TimeSteps |-> 0]]
  /\ req = [p \in Procs |-> Idle]

Become(p, r) == req' = [req EXCEPT ![p] = r]
Finish(p) == Become(p, Idle)
Goto(p, label) == Become(p, [req[p] EXCEPT !.pc = label])
At(p, label) == req[p].pc = label

\* Process p takes up a request of this kind.
Starts(p, op) == op \in Ops /\ req[p] = Idle

-----------------------------------------------------------------------------
(* Second factor.                                                          *)

\* A fault: the time step of a code may repeat.
FreshOrSame(u, t) == t >= counters[u]

\* validateTOTP refuses a step that is not past the last accepted one.
Fresh(u, t) == t > counters[u]

\* ValidateCounter: a code is right for one step near the current one.
Nearby == {t \in TimeSteps \ {0} : t >= step - Window /\ t <= step + Window}

AwaitsCode(p) == \/ req[p].pc \in {"gate", "check"} /\ req[p].rec.totp
                 \/ At(p, "enroll")

\* The code is wrong, or not past the last one.
RejectCode(p) ==
  /\ AwaitsCode(p)
  /\ Finish(p)
  /\ UNCHANGED <<acct, tables, pending, totpState, step>>

\* validateTOTP for a right code takes totpMu and keeps it until the new
\* counter is saved.
AcceptCode(p, t) ==
  LET r == req[p]
  IN  /\ AwaitsCode(p)
      /\ t \in Nearby /\ Fresh(r.u, t)
      /\ \A q \in Procs : ~At(q, "save")
      /\ counters' = [counters EXCEPT ![r.u] = t]
      /\ Become(p, [r EXCEPT !.pc = "save", !.code = t, !.rec.totp = TRUE])
      /\ UNCHANGED <<acct, tables, pending, saved, uses, step>>

\* A fault: the counters stay in memory.
SaveNothing == saved' = saved

\* A fault: the file holds the next step that is allowed.
SaveNextAllowed == saved' = [u \in Users |-> counters[u] + 1]

\* saveTOTPCounters writes all counters, through a temporary file.
SaveCounters == saved' = counters

\* validateTOTP returns: the login goes on, or the enrolment is written.
SaveCode(p) ==
  LET r == req[p]
  IN  /\ At(p, "save")
      /\ SaveCounters
      /\ uses' = [uses EXCEPT ![r.u][r.code] = @ + 1]
      /\ Goto(p, IF r.op = "totpenable" THEN "write" ELSE "create")
      /\ UNCHANGED <<acct, tables, pending, counters, step>>

-----------------------------------------------------------------------------
(* Login.                                                                  *)

\* The request goes on as this user, who has proved that password.
Proceed(p, op, u, proof, label) ==
  Become(p, [Idle EXCEPT !.op = op, !.pc = label, !.u = u, !.rec = acct[u],
                         !.proof = proof])

\* handleLogin with a tenant, up to the second factor.
Password(p, u) ==
  /\ Starts(p, "password")
  /\ ~acct[u].disabled
  /\ Proceed(p, "password", u, acct[u].pw, "gate")
  /\ UNCHANGED <<acct, tables, pending, totpState, step>>

\* handleWALoginFinish: the passkey stands for the password.
Passkey(p, u) ==
  /\ Starts(p, "passkey")
  /\ ~acct[u].disabled
  /\ Proceed(p, "passkey", u, acct[u].pw, "gate")
  /\ UNCHANGED <<acct, tables, pending, totpState, step>>

Issue(k, choose, users, proof) ==
  /\ \A t \in pending : t.id # k
  /\ pending' = pending \cup
       {[id |-> k, choose |-> choose, users |-> users, proof |-> proof]}

\* handleTenantlessLogin: the accounts this password opens, one of them taken
\* at once, several of them offered for selection.
Tenantless(p, pw) ==
  LET matches == {u \in Users : acct[u].pw = pw /\ ~acct[u].disabled}
  IN  /\ Starts(p, "tenantless")
      /\ \/ \E u \in matches :
              /\ matches = {u}
              /\ Proceed(p, "tenantless", u, pw, "gate")
              /\ UNCHANGED pending
         \/ /\ Cardinality(matches) > 1
            /\ \E k \in Tokens :
                 Issue(k, TRUE, matches, [u \in Users |-> pw])
            /\ UNCHANGED req
      /\ UNCHANGED <<acct, tables, totpState, step>>

\* handleLogin with a token and a tenant: consumeSelection takes the token
\* once, then the account is read again.
Select(p, tok, u) ==
  /\ Starts(p, "select")
  /\ tok.choose /\ u \in tok.users
  /\ pending' = pending \ {tok}
  /\ Proceed(p, "select", u, tok.proof[u], "lookup")
  /\ UNCHANGED <<acct, tables, totpState, step>>

\* handleLoginTOTPStep takes a token of the second step.
Code(p, tok, u) ==
  /\ Starts(p, "code")
  /\ ~tok.choose /\ u \in tok.users
  /\ pending' = pending \ {tok}
  /\ Proceed(p, "code", u, tok.proof[u], "lookup")
  /\ UNCHANGED <<acct, tables, totpState, step>>

\* A token sent to the step it is not for is used up: consumeSelection
\* deletes one without candidates, consume any.
Misuse(tok) ==
  /\ {"code", "select"} \cap Ops # {}
  /\ pending' = pending \ {tok}
  /\ UNCHANGED <<acct, tables, totpState, step, req>>

\* The account is read after the token was consumed.
Lookup(p) ==
  LET r == req[p]
  IN  /\ At(p, "lookup")
      /\ IF acct[r.u].disabled \/ (r.op = "code" /\ ~acct[r.u].totp)
         THEN Finish(p)
         ELSE Become(p, [r EXCEPT !.rec = acct[r.u],
                           !.pc = IF r.op = "code" THEN "check" ELSE "gate"])
      /\ UNCHANGED <<acct, tables, pending, totpState, step>>

\* A fault: choosing a tenant skips the second factor.
NoCodeAfterSelection(r) == ~r.rec.totp \/ r.op = "select"

\* gateTOTPOrIssueToken lets accounts without a second factor through.
NoCodeNeeded(r) == ~r.rec.totp

PassGate(p) ==
  /\ At(p, "gate") /\ NoCodeNeeded(req[p])
  /\ Goto(p, "create")
  /\ UNCHANGED <<acct, tables, pending, totpState, step>>

\* No code came with the request: it is answered with a token.
IssueCodeToken(p, k) ==
  LET r == req[p]
  IN  /\ At(p, "gate") /\ r.rec.totp
      /\ Issue(k, FALSE, {r.u}, [u \in Users |-> r.proof])
      /\ Finish(p)
      /\ UNCHANGED <<acct, tables, totpState, step>>

NewSession(p, i, s) ==
  /\ i \notin drawn
  /\ drawn' = drawn \cup {i}
  /\ mem' = mem \cup {s}
  /\ Goto(p, "persist")
  /\ UNCHANGED <<acct, file, pending, totpState, step>>

\* writeLoginSuccess: the session has what the row held when it was read.
Create(p, i) ==
  LET r == req[p]
  IN  /\ At(p, "create")
      /\ NewSession(p, i,
           [id |-> i, user |-> r.u, role |-> r.rec.role,
            setup |-> RequireTotp /\ ~r.rec.totp, proof |-> r.proof,
            needed |-> r.rec.totp, code |-> r.code])

Persist(p) ==
  /\ At(p, "persist")
  /\ file' = mem
  /\ Finish(p)
  /\ UNCHANGED <<acct, mem, drawn, pending, totpState, step>>

-----------------------------------------------------------------------------
(* Changes of accounts.                                                    *)

\* requireAuth: the session is valid, its account not disabled, and a session
\* that still owes the setup of a second factor does nothing else.
Authorized(s, op) ==
  /\ ~acct[s.user].disabled
  /\ s.setup /\ ~acct[s.user].totp => op \in {"totpsetup", "totpenable"}

\* The request changes the account of u to rec; a session it renews in the end
\* gets this role.
Change(p, op, s, u, rec, role, label) ==
  /\ Starts(p, op)
  /\ Authorized(s, op)
  /\ Become(p, [Idle EXCEPT !.op = op, !.pc = label, !.u = u, !.rec = rec,
                   !.self = (u = s.user), !.role = role])
  /\ UNCHANGED <<acct, tables, pending, totpState, step>>

NewPw(u) == [acct[u] EXCEPT !.pw = @ + 1]

\* handleChangeLoginPassword
ChangePassword(p, s) ==
  /\ acct[s.user].pw < MaxPw
  /\ Change(p, "changepw", s, s.user, NewPw(s.user), s.role, "write")

\* handleResetPassword
ResetPassword(p, s, u) ==
  /\ s.role = "admin" /\ acct[u].pw < MaxPw
  /\ Change(p, "resetpw", s, u, NewPw(u), s.role, "write")

\* handleSetRoles
SetRoles(p, s, u, role) ==
  /\ s.role = "admin"
  /\ Change(p, "setroles", s, u, [acct[u] EXCEPT !.role = role], role, "write")

\* handleUpdateUser with a password, with roles or with both.
UpdateUser(p, s, u, pw, role) ==
  /\ s.role = "admin" /\ pw <= MaxPw /\ pw \in {acct[u].pw, acct[u].pw + 1}
  /\ Change(p, "update", s, u, [acct[u] EXCEPT !.pw = pw, !.role = role],
            role, "write")

\* handleDisableUser
Disable(p, s, u) ==
  /\ s.role = "admin"
  /\ Change(p, "disable", s, u, [acct[u] EXCEPT !.disabled = TRUE],
            s.role, "write")

\* handleUpdateProfile, handleUpdatePreferences and the like, and
\* handleUpdateUser with neither a password nor roles.
Profile(p, s, u) ==
  /\ u = s.user \/ s.role = "admin"
  /\ Change(p, "profile", s, u, acct[u], s.role, "write")

\* handleTOTPSetup: a new secret, not enabled yet.
TotpSetup(p, s) ==
  /\ acct[s.user].key < MaxKey
  /\ Change(p, "totpsetup", s, s.user,
            [acct[s.user] EXCEPT !.key = @ + 1, !.totp = FALSE],
            s.role, "write")

\* handleTOTPEnable
TotpEnable(p, s) ==
  /\ acct[s.user].key # 0
  /\ Change(p, "totpenable", s, s.user, acct[s.user], s.role, "enroll")

\* A fault: handleUpdateUser forgets the sessions.
EndsSessionsButUpdate(op) == op \in RevokingOps \ {"update"}

EndsSessions(op) == op \in RevokingOps

\* UpsertUser writes the whole row.
Write(p) ==
  LET r == req[p]
  IN  /\ At(p, "write")
      /\ acct' = [acct EXCEPT ![r.u] = r.rec]
      /\ IF EndsSessions(r.op) THEN Goto(p, "revoke") ELSE Finish(p)
      /\ UNCHANGED <<tables, pending, totpState, step>>

\* DeleteByUser, in memory.
Revoke(p) ==
  /\ At(p, "revoke")
  /\ mem' = {s \in mem : s.user # req[p].u}
  /\ Goto(p, "flush")
  /\ UNCHANGED <<acct, file, drawn, pending, totpState, step>>

\* Its write; who changed the own account gets a new session.
Flush(p) ==
  LET r == req[p]
  IN  /\ At(p, "flush")
      /\ file' = mem
      /\ IF r.self /\ r.op # "disable" THEN Goto(p, "renew") ELSE Finish(p)
      /\ UNCHANGED <<acct, mem, drawn, pending, totpState, step>>

\* GetUser, UpsertUser or GetTenant fails: the request ends with an error, and
\* a code it has proved is lost.
Fail(p) ==
  /\ \/ req[p].pc \in {"lookup", "write"}
     \/ At(p, "create") /\ req[p].op = "code"
  /\ Finish(p)
  /\ UNCHANGED <<acct, tables, pending, totpState, step>>

\* The new session owes no setup.
Renew(p, i) ==
  LET r == req[p]
  IN  /\ At(p, "renew")
      /\ NewSession(p, i,
           [id |-> i, user |-> r.u, role |-> r.role, setup |-> FALSE,
            proof |-> r.rec.pw, needed |-> FALSE, code |-> 0])

\* Logout, and sessionFrom for the session of a disabled account.
End(p, op, s) ==
  /\ Starts(p, op)
  /\ mem' = mem \ {s}
  /\ Become(p, [Idle EXCEPT !.op = op, !.pc = "flush", !.u = s.user])
  /\ UNCHANGED <<acct, file, drawn, pending, totpState, step>>

Logout(p, s) == End(p, "logout", s)
UseOfDisabled(p, s) == acct[s.user].disabled /\ End(p, "use", s)

-----------------------------------------------------------------------------

Tick ==
  /\ step < MaxStep
  /\ step' = step + 1
  /\ UNCHANGED <<acct, tables, pending, totpState, req>>

\* The server stops and starts again: at rest, or in the middle of requests.
Restart ==
  /\ \/ "crash" \in Ops
     \/ "restart" \in Ops /\ \A p \in Procs : req[p] = Idle
  /\ mem' = file /\ counters' = saved /\ pending' = {}
  /\ req' = [p \in Procs |-> Idle]
  /\ UNCHANGED <<acct, file, drawn, saved, uses, step>>

LoginStep(p) ==
  \/ \E u \in Users : Password(p, u) \/ Passkey(p, u)
  \/ \E pw \in 0 .. MaxPw : Tenantless(p, pw)
  \/ \E tok \in pending, u \in Users : Select(p, tok, u) \/ Code(p, tok, u)
  \/ Lookup(p)
  \/ PassGate(p)
  \/ \E k \in Tokens : IssueCodeToken(p, k)
  \/ RejectCode(p)
  \/ \E t \in TimeSteps : AcceptCode(p, t)
  \/ SaveCode(p)
  \/ \E i \in Ids : Create(p, i)
  \/ Persist(p)

ChangeStep(p) ==
  \/ \E s \in mem, u \in Users :
       \/ ResetPassword(p, s, u)
       \/ \E role \in Roles : SetRoles(p, s, u, role)
       \/ \E pw \in 0 .. MaxPw, role \in Roles : UpdateUser(p, s, u, pw, role)
       \/ Disable(p, s, u)
       \/ Profile(p, s, u)
  \/ \E s \in mem : \/ ChangePassword(p, s) \/ TotpSetup(p, s)
                   \/ TotpEnable(p, s) \/ Logout(p, s) \/ UseOfDisabled(p, s)
  \/ Write(p)
  \/ Revoke(p)
  \/ Flush(p)
  \/ \E i \in Ids : Renew(p, i)

Next ==
  \/ \E p \in Procs : LoginStep(p) \/ ChangeStep(p) \/ Fail(p)
  \/ \E tok \in pending : Misuse(tok)
  \/ Tick
  \/ Restart

Spec == Init /\ [][Next]_vars

-----------------------------------------------------------------------------

AtRest == \A p \in Procs : req[p] = Idle

\* validateTOTP answers yes at most once for a time step of a user, in
\* concurrent logins and enrolments and across crashes.
TotpCodesUsedOnce == \A u \in Users, t \in TimeSteps : uses[u][t] <= 1

\* A login that met a second factor got its session for a code of its own: no
\* way through the login (in one request, with a token, with a tenant to
\* choose) skips the code or gives two sessions for one.
OneSessionPerCode ==
  \A s \in mem \cup file :
    s.needed => /\ s.code # 0
                /\ \A t \in mem \cup file :
                     t.user = s.user /\ t.code = s.code => t.id = s.id

\* Between requests no session of an account carries a role or rests on a
\* password that the account no longer has (DeleteByUser after a change of
\* password or roles, and the renewed session).
SessionsFollowAccount ==
  AtRest => \A s \in mem : /\ s.role = acct[s.user].role
                           /\ s.proof = acct[s.user].pw

\* The role of a session is that of its account, between requests.
RolesFollowAccount == AtRest => \A s \in mem : s.role = acct[s.user].role

\* A disabled account stays disabled: none of these requests enables one.
DisabledStays == [][\A u \in Users : acct[u].disabled => acct'[u].disabled]_vars

\* Where a second factor is required, a session that may do anything belongs
\* to an account that has one.
SecondFactorEnforced ==
  RequireTotp /\ AtRest => \A s \in mem : s.setup \/ acct[s.user].totp
=============================================================================
