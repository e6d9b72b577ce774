------------------------------ MODULE VaultKeys ------------------------------
(* A user's vault keys: onboarding, unlocking, change of the master password, *)
(* recovery with the kit, and the tenant's recovery mode and escrow key.      *)
(* The browser (web/static/app.js, cryptocore.js) makes and seals every key;  *)
(* the server (internal/server) stores the sealed blobs of the user's row and *)
(* only ever replaces the whole row.  Several browser windows of the user and *)
(* several administrators work at once.                                       *)
(*                                                                            *)
(* A private key, the password or kit that seals it and an escrow key pair    *)
(* are numbers; a blob records what is in it and what opens it, so that the   *)
(* cipher is what it does: it opens with the right secret and parameters or   *)
(* not at all.                                                                *)
EXTENDS Integers, FiniteSets

CONSTANTS
    Tabs,         \* windows of the user
    Admins,       \* administrators of the tenant
    Params,       \* Argon2 parameters (bound: those ever configured)
    None,         \* nothing there
    Overlap,      \* FALSE: the server answers one request for keys at a time, and the mode is
                  \* switched while no window is between the requests of an operation
    MaxMade,      \* bound: identities and master passwords made
    MaxEscrow,    \* bound: escrow key pairs made
    MaxMoves      \* bound: reloads, locks, unlocks, lost answers and changes by administrators

-----------------------------------------------------------------------------
(* What the server stores                                                    *)
Modes == {"user_kit", "admin_escrow"}
Number == Nat \ {0}
\* A key sealed with a password or kit, and one sealed to an escrow key.
Blob == [sk : Number, lock : Number, par : Params]
EscrowCopy == [sk : Number, to : Number]
Row == [pub : Nat, sealed : Blob \cup {None}, kit : Blob \cup {None},
        escrow : EscrowCopy \cup {None}, kdf : Params \cup {None}]
Tenant == [mode : Modes, escrow : Nat, totp : BOOLEAN]

ASSUME VaultKeysAssumption ==
    /\ None \notin Params \cup Admins \cup Modes
    /\ None \notin Blob /\ None \notin EscrowCopy /\ None \notin Row /\ None \notin Tenant
    /\ Overlap \in BOOLEAN
    /\ MaxMade \in Nat /\ MaxEscrow \in Nat /\ MaxMoves \in Nat

VARIABLES
    row,        \* the server: the user's record
    tenant,     \* the server: recovery mode, escrow key, need of a second factor; None: not set up
    ceremony,   \* the server's memory: who holds the challenge that replaces the escrow key
    defaults,   \* the server: the Argon2 parameters for new keys
    totp,       \* the server: the user's second factor is enabled
    secrets,    \* the server: the keys the envelopes of the user's secrets open with
    tabs,       \* the windows
    persists,   \* the requests that store the parameters of an old row, not awaited
    admins,     \* what each administrator is about
    kits,       \* the recovery kits shown to the user
    shares,     \* the escrow keys whose shares were handed out
    made, escrows, moves,
    gone        \* history: kits and shares whose page went away before it showed them, and
                \* the keys a switch of the mode threw away while no secret was sealed to them

server == <<row, tenant, ceremony, defaults, totp, secrets>>
outside == <<kits, shares, made, escrows, gone>>
vars == <<server, tabs, persists, admins, outside, moves>>

Rest == [kind |-> "rest", at |-> "rest"]
Fresh(page) == [page |-> page, me |-> None, sk |-> 0, par |-> None, locked |-> FALSE, do |-> Rest]

\* What the wizard has at a step.
Draft(mode, par) == [kind |-> "setup", at |-> "wizard", step |-> 0, mode |-> mode, par |-> par]

\* The row of a user who has no keys, and of one onboarded before the parameters
\* were stored with the row.
NewRow == [pub |-> 0, sealed |-> None, kit |-> None, escrow |-> None, kdf |-> None]
OldRow(p) == [NewRow EXCEPT !.pub = 1, !.sealed = [sk |-> 1, lock |-> 1, par |-> p],
                            !.kit = [sk |-> 1, lock |-> 1, par |-> p]]

\* What a page shows when it is loaded: the wizard until the server is set up, and
\* from then on its address decides, whoever is there.
Boot(page) ==
    IF tenant = None THEN [Fresh("setup") EXCEPT !.do = Draft("user_kit", defaults)]
    ELSE Fresh(CASE page = "kit" -> "onboard"
                 [] page \in {"setup", "login-code"} -> "login"
                 [] OTHER -> page)

Init ==
    /\ defaults \in Params
    /\ \/ row = NewRow /\ tenant = None /\ totp = FALSE
       \/ /\ row \in {NewRow, OldRow(defaults)} /\ totp \in BOOLEAN
          /\ tenant \in [mode : {"user_kit"}, escrow : {0}, totp : BOOLEAN]
    /\ ceremony = None /\ secrets = {} /\ persists = {}
    /\ tabs = [t \in Tabs |-> Boot("login")] /\ admins = [a \in Admins |-> Rest]
    /\ made = row.pub /\ kits = 1 .. made
    /\ shares = {} /\ escrows = 0 /\ moves = 0
    /\ gone = [kits |-> {}, shares |-> {}, keys |-> {}]

Move == moves < MaxMoves /\ moves' = moves + 1
Resting(t) == tabs[t].do.kind = "rest"
At(t, at) == tabs[t].do.at = at
Go(t, at) == tabs' = [tabs EXCEPT ![t].do.at = at]
Stop(t) == tabs' = [tabs EXCEPT ![t].do = Rest]

\* Nobody is between the read and the write of a handler of the server.
Alone ==
    \/ Overlap
    \/ /\ \A t \in Tabs : ~At(t, "in")
       /\ \A p \in persists : p.row = None
       /\ \A a \in Admins : admins[a].at \notin {"checked", "listed"}

-----------------------------------------------------------------------------
(* Pages                                                                     *)
NeedsTotp == tenant.totp /\ ~totp
Landing == IF row.pub = 0 THEN "onboard" ELSE IF NeedsTotp THEN "onboard-2fa" ELSE "app"

Land(t) == tabs' = [tabs EXCEPT ![t] = Fresh(Landing)]

\* The login page goes on with the session it finds.
HasSession(t) ==
    /\ tenant # None /\ tabs[t].page = "login" /\ Land(t)
    /\ UNCHANGED <<server, persists, admins, outside, moves>>

\* A passkey, or the password, which leads to the code if there is a second factor.
SignIn(t) ==
    /\ tenant # None /\ tabs[t].page = "login"
    /\ Land(t) \/ (totp /\ tabs' = [tabs EXCEPT ![t] = Fresh("login-code")])
    /\ UNCHANGED <<server, persists, admins, outside, moves>>

\* The code is right, or the user goes back.
CodeStep(t) ==
    /\ tabs[t].page = "login-code"
    /\ Land(t) \/ tabs' = [tabs EXCEPT ![t] = Fresh("login")]
    /\ UNCHANGED <<server, persists, admins, outside, moves>>

\* The app asks who the user is before it shows the unlock screen.
OpenApp(t) ==
    /\ tabs[t].page = "app" /\ tabs[t].me = None
    /\ tabs' = [tabs EXCEPT ![t].page = Landing,
                            ![t].me = IF Landing = "app" THEN tenant.mode ELSE None]
    /\ UNCHANGED <<server, persists, admins, outside, moves>>

\* The page of the second factor sends those on who need none, enables it, or
\* ends the session.
SecondFactor(t) ==
    /\ tabs[t].page = "onboard-2fa"
    /\ \/ /\ ~NeedsTotp /\ UNCHANGED totp
          /\ tabs' = [tabs EXCEPT ![t] = Fresh(IF row.pub = 0 THEN "onboard" ELSE "app")]
       \/ UNCHANGED totp /\ tabs' = [tabs EXCEPT ![t] = Fresh("login")]
       \/ totp' = TRUE /\ tabs' = [tabs EXCEPT ![t] = Fresh("app")]
    /\ UNCHANGED <<row, tenant, ceremony, defaults, secrets, persists, admins, outside, moves>>

\* The kit is confirmed saved.
GoApp(t) ==
    /\ tabs[t].page = "kit"
    /\ tabs' = [tabs EXCEPT ![t] = Fresh(IF NeedsTotp THEN "onboard-2fa" ELSE "app")]
    /\ UNCHANGED <<server, persists, admins, outside, moves>>

\* Only the answer to an onboarding brings the user a kit not seen yet.
KitUnseen(t) == LET d == tabs[t].do IN
    IF d.at = "answer" /\ d.kind = "onboard" /\ d.body.kit # None THEN {d.body.kit.lock} ELSE {}
KitGone(t) == gone' = [gone EXCEPT !.kits = @ \cup KitUnseen(t)]

\* The page is loaded again, whatever runs in it; a request the server still
\* handles is given up.
Reload(t) ==
    /\ Move /\ KitGone(t)
    /\ tabs' = [tabs EXCEPT ![t] = Boot(@.page)]
    /\ UNCHANGED <<server, persists, admins, kits, shares, made, escrows>>

-----------------------------------------------------------------------------
(* The setup wizard                                                          *)
Turn(t, draft) ==
    /\ tabs' = [tabs EXCEPT ![t].do = draft]
    /\ UNCHANGED <<server, persists, admins, outside, moves>>

\* Welcome, storage, and the tenant with its first administrator.
StepPlain(t) == LET d == tabs[t].do IN
    /\ d.kind = "setup" /\ d.step \in 0 .. 2
    /\ \E step \in {d.step - 1, d.step + 1} \cap Nat : Turn(t, [d EXCEPT !.step = step])

StepCrypto(t) == LET d == tabs[t].do IN
    /\ d.kind = "setup" /\ d.step = 3
    /\ Turn(t, [d EXCEPT !.step = 2]) \/ \E p \in Params : Turn(t, [d EXCEPT !.step = 4, !.par = p])

StepRecovery(t) == LET d == tabs[t].do IN
    /\ d.kind = "setup" /\ d.step = 4
    /\ Turn(t, [d EXCEPT !.step = 3]) \/ \E m \in Modes : Turn(t, [d EXCEPT !.step = 5, !.mode = m])

StepBack(t) == LET d == tabs[t].do IN
    d.kind = "setup" /\ d.step = 5 /\ Turn(t, [d EXCEPT !.step = 4])

\* POST /api/setup/commit, refused once the server is set up.
Commit(t) == LET d == tabs[t].do IN
    /\ d.kind = "setup" /\ d.step = 5 /\ tenant = None
    /\ tenant' = [mode |-> d.mode, escrow |-> 0, totp |-> FALSE] /\ defaults' = d.par
    /\ tabs' = [tabs EXCEPT ![t] = Fresh("login")]
    /\ UNCHANGED <<row, ceremony, totp, secrets, persists, admins, outside, moves>>

-----------------------------------------------------------------------------
(* What the browser seals and opens                                          *)
Seal(sk, lock, par) == [sk |-> sk, lock |-> lock, par |-> par]

Opens(blob, lock, candidates) == blob # None /\ blob.lock = lock /\ blob.par \in candidates

\* GET /api/vault/keys, refused before onboarding.
Keys == [sealed |-> row.sealed, stored |-> row.kdf # None,
         kit |-> IF tenant.mode = "user_kit" THEN row.kit ELSE None,
         par |-> IF row.kdf # None THEN row.kdf ELSE defaults]

Candidates(keys, par) == {keys.par, par} \ {None}

\* What is posted: the key sealed anew, and for the mode the browser knows of the
\* kit's or the escrow key's copy.
Body(d, sk, e) ==
    [sk |-> sk, par |-> d.par, mode |-> d.mode,
     sealed |-> Seal(sk, d.new, d.par),
     kit |-> IF d.mode = "user_kit" THEN Seal(sk, d.kit, d.par) ELSE None,
     escrow |-> IF d.mode = "admin_escrow" THEN [sk |-> sk, to |-> e] ELSE None]

Posting(d, body) == [kind |-> d.kind, at |-> "post", new |-> d.new, body |-> body]

Make == made < MaxMade /\ made' = made + 1

StartOnboard(t) ==
    /\ tabs[t].page = "onboard" /\ Resting(t) /\ Make
    /\ tabs' = [tabs EXCEPT ![t].do = [kind |-> "onboard", at |-> "me", new |-> made']]
    /\ UNCHANGED <<server, persists, admins, kits, shares, escrows, gone, moves>>

\* Who the user is, the tenant's mode among it, and the parameters for new keys,
\* which the server refuses who still needs a second factor.
AskMe(t) ==
    /\ At(t, "me")
    /\ IF NeedsTotp THEN Stop(t)
       ELSE tabs' = [tabs EXCEPT ![t].do =
              [kind |-> "onboard", at |-> "status", new |-> @.new, kit |-> @.new, sk |-> @.new,
               mode |-> tenant.mode, par |-> defaults]]
    /\ UNCHANGED <<server, persists, admins, outside, moves>>

\* Fault: the new kit is shown with the message that the password was changed.
KitAfterwards(t) == {}

\* The kits the user sees before the keys are posted: a change of the password
\* fills the field of the kit first.
KitInField(t) == LET d == tabs[t].do IN
    IF d.kind = "save" /\ d.mode = "user_kit" THEN {d.kit} ELSE {}

\* The escrow key, if the mode needs it, and everything is sealed.
Prepare(t) == LET d == tabs[t].do IN
    /\ At(t, "status")
    /\ IF d.mode = "admin_escrow" /\ tenant.escrow = 0 THEN Stop(t) /\ UNCHANGED kits
       ELSE /\ tabs' = [tabs EXCEPT ![t].do = Posting(d, Body(d, d.sk, tenant.escrow))]
            /\ kits' = kits \cup KitInField(t)
    /\ UNCHANGED <<server, persists, admins, shares, made, escrows, gone, moves>>

InApp(t) == tabs[t].page = "app" /\ tabs[t].me # None /\ Resting(t)

\* The unlock screen and the lock overlay.
StartUnlock(t) == \E pw \in 1 .. made :
    /\ InApp(t) /\ tabs[t].sk = 0 /\ Move
    /\ tabs' = [tabs EXCEPT ![t].do = [kind |-> "unlock", at |-> "keys", lock |-> pw]]
    /\ UNCHANGED <<server, persists, admins, outside>>

StartSave(t) ==
    /\ InApp(t) /\ tabs[t].sk # 0 /\ Make
    /\ tabs' = [tabs EXCEPT ![t].do = [kind |-> "save", at |-> "keys", new |-> made']]
    /\ UNCHANGED <<server, persists, admins, kits, shares, escrows, gone, moves>>

StartRecover(t) == \E kit \in kits :
    /\ InApp(t) /\ tabs[t].sk = 0 /\ ~tabs[t].locked /\ tabs[t].me = "user_kit" /\ Make
    /\ tabs' = [tabs EXCEPT ![t].do =
                  [kind |-> "recover", at |-> "keys", new |-> made', kit |-> kit]]
    /\ UNCHANGED <<server, persists, admins, kits, shares, escrows, gone, moves>>

Unlocked(t, blob, par) ==
    tabs' = [tabs EXCEPT ![t].sk = blob.sk, ![t].par = par, ![t].locked = FALSE, ![t].do = Rest]

\* The keys are there and the password opens them or not.  A row without its
\* parameters gets those that opened it, in a request nobody waits for.
Unlock(t) == LET d == tabs[t].do IN
    /\ At(t, "keys") /\ d.kind = "unlock" /\ Alone
    /\ IF row.pub # 0 /\ Opens(Keys.sealed, d.lock, Candidates(Keys, tabs[t].par))
       THEN /\ Unlocked(t, Keys.sealed, Keys.sealed.par)
            /\ persists' = IF Keys.stored THEN persists
                           ELSE persists \cup {[par |-> Keys.sealed.par, row |-> None]}
       ELSE Stop(t) /\ UNCHANGED persists
    /\ UNCHANGED <<server, admins, outside, moves>>

\* The user types the password the keys are sealed with; the parameters are those
\* of the last unlock.
OpenForChange(t) ==
    /\ At(t, "keys") /\ tabs[t].do.kind = "save" /\ Alone
    /\ IF row.pub # 0 /\ Opens(Keys.sealed, Keys.sealed.lock, {tabs[t].par})
       THEN tabs' = [tabs EXCEPT ![t].do =
              [kind |-> "save", at |-> "status", new |-> @.new, kit |-> @.new,
               sk |-> Keys.sealed.sk, mode |-> tabs[t].me, par |-> tabs[t].par]]
       ELSE Stop(t)
    /\ UNCHANGED <<server, persists, admins, outside, moves>>

\* The kit opens its copy of the key, which is sealed with the new password and
\* with the same kit again.
OpenWithKit(t) == LET d == tabs[t].do IN
    /\ At(t, "keys") /\ d.kind = "recover" /\ Alone
    /\ IF row.pub # 0 /\ Opens(Keys.kit, d.kit, Candidates(Keys, tabs[t].par))
       THEN tabs' = [tabs EXCEPT ![t].do = Posting(d, Body(
              [new |-> d.new, kit |-> d.kit, mode |-> "user_kit", par |-> Keys.kit.par],
              Keys.kit.sk, 0))]
       ELSE Stop(t)
    /\ UNCHANGED <<server, persists, admins, outside, moves>>

-----------------------------------------------------------------------------
(* POST /api/vault/onboard and /api/vault/change-master                      *)
\* Fault: who has keys already may onboard once more, from another window.
TakesAgain(r, ten, d) ==
    /\ r.pub = 0 => d.kind = "onboard"
    /\ d.body.mode = ten.mode /\ (ten.mode = "admin_escrow" => ten.escrow # 0)

Takes(r, ten, d) ==
    /\ (r.pub = 0) = (d.kind = "onboard")
    /\ d.body.mode = ten.mode /\ (ten.mode = "admin_escrow" => ten.escrow # 0)

\* The row with the keys of the request: the copy of the tenant's mode, the other
\* is left as it is.  Only onboarding sets the public key.
Filed(r, ten, d) ==
    [pub |-> IF d.kind = "onboard" THEN d.body.sk ELSE r.pub, sealed |-> d.body.sealed,
     kit |-> IF ten.mode = "user_kit" THEN d.body.kit ELSE r.kit,
     escrow |-> IF ten.mode = "admin_escrow" THEN d.body.escrow ELSE r.escrow,
     kdf |-> d.body.par]

\* The handler has read the user and the tenant.
Arrive(t) == LET d == tabs[t].do IN
    /\ At(t, "post") /\ Alone
    /\ IF Takes(row, tenant, d)
       THEN tabs' = [tabs EXCEPT ![t].do =
              [kind |-> d.kind, at |-> "in", new |-> d.new, body |-> d.body,
               write |-> Filed(row, tenant, d)]]
       ELSE Stop(t)
    /\ UNCHANGED <<server, persists, admins, outside, moves>>

Store(t) ==
    /\ At(t, "in") /\ row' = tabs[t].do.write
    /\ Go(t, "answer")
    /\ UNCHANGED <<tenant, ceremony, defaults, totp, secrets, persists, admins, outside, moves>>

\* Onboarding shows the kit now; a change of the password puts the key in place of
\* the one in memory, and a recovery unlocks once more.
Answered(t) == LET d == tabs[t].do IN
    /\ At(t, "answer")
    /\ CASE d.kind = "onboard" -> tabs' = [tabs EXCEPT ![t] = Fresh("kit")]
         [] d.kind = "save" -> tabs' = [tabs EXCEPT ![t].sk = d.body.sk, ![t].do = Rest]
         [] d.kind = "recover" -> tabs' = [tabs EXCEPT ![t].sk = d.body.sk, ![t].par = d.body.par,
                                             ![t].do = [kind |-> "again", at |-> "again", lock |-> d.new]]
    /\ kits' = IF d.body.kit = None THEN kits ELSE kits \cup {d.body.kit.lock}
    /\ UNCHANGED <<server, persists, admins, shares, made, escrows, gone, moves>>

\* If the unlock with the new password fails, the recovered key stays.
UnlockAgain(t) == LET d == tabs[t].do IN
    /\ At(t, "again") /\ Alone
    /\ IF row.pub # 0 /\ Opens(Keys.sealed, d.lock, Candidates(Keys, tabs[t].par))
       THEN Unlocked(t, Keys.sealed, Keys.sealed.par)
       ELSE Unlocked(t, [sk |-> tabs[t].sk], tabs[t].par)
    /\ UNCHANGED <<server, persists, admins, outside, moves>>

\* The answer is lost: the browser reports an error, and an onboarding forgets
\* the kit the server has stored.
Lost(t) ==
    /\ At(t, "answer") /\ Move /\ KitGone(t)
    /\ Stop(t) /\ UNCHANGED <<server, persists, admins, kits, shares, made, escrows>>

\* The vault is locked, by the user or after a while, whatever runs.
Lock(t) ==
    /\ tabs[t].sk # 0 /\ Move
    /\ tabs' = [tabs EXCEPT ![t].sk = 0, ![t].locked = TRUE]
    /\ UNCHANGED <<server, persists, admins, outside>>

-----------------------------------------------------------------------------
(* POST /api/vault/kdf-params                                                *)
\* Fault: the row is written whatever parameters it has.
StillOnboarded == row.pub # 0

StillBlank == row.pub # 0 /\ row.kdf = None

PersistParams == \E p \in persists :
    /\ \/ /\ p.row = None /\ Alone
          /\ persists' = (persists \ {p}) \cup
                         (IF StillBlank THEN {[p EXCEPT !.row = [row EXCEPT !.kdf = p.par]]} ELSE {})
          /\ UNCHANGED row
       \/ p.row # None /\ row' = p.row /\ persists' = persists \ {p}
    /\ UNCHANGED <<tenant, ceremony, defaults, totp, secrets, tabs, admins, outside, moves>>

\* A secret is created, its envelope sealed to the key in memory; one is deleted.
Secret(t) ==
    /\ InApp(t) /\ tabs[t].sk # 0 /\ row.pub # 0 /\ Move /\ Alone
    /\ \/ secrets' = secrets \cup {tabs[t].sk}
       \/ \E k \in secrets : secrets' = secrets \ {k}
    /\ UNCHANGED <<row, tenant, ceremony, defaults, totp, tabs, persists, admins, outside>>

-----------------------------------------------------------------------------
(* Administrators                                                            *)
Free(a) == tenant # None /\ admins[a].kind = "rest"
Step(a, r) == admins' = [admins EXCEPT ![a] = r]

SetParams == \E p \in Params \ {defaults} :
    /\ tenant # None /\ Move /\ defaults' = p
    /\ UNCHANGED <<row, tenant, ceremony, totp, secrets, tabs, persists, admins, outside>>

Switchable == secrets = {}

\* Fault: the kit's copy of the key survives.
WipedButKit(r) == [NewRow EXCEPT !.kdf = r.kdf, !.kit = r.kit]

Wiped(r) == [NewRow EXCEPT !.kdf = r.kdf]

\* POST /api/admin/tenant/recovery: the check, the tenant, then every user's row
\* as it was listed.
Switch(a) ==
    /\ Free(a) /\ Move /\ Alone /\ Switchable /\ (Overlap \/ \A t \in Tabs : Resting(t))
    /\ Step(a, [kind |-> "switch", at |-> "checked", tenant |->
                  [tenant EXCEPT !.mode = CHOOSE m \in Modes : m # tenant.mode]])
    /\ UNCHANGED <<server, tabs, persists, outside>>

PutMode(a) ==
    /\ admins[a].at = "checked" /\ tenant' = admins[a].tenant
    /\ Step(a, [kind |-> "switch", at |-> "listed", row |-> row])
    /\ UNCHANGED <<row, ceremony, defaults, totp, secrets, tabs, persists, outside, moves>>

\* No window and no session is told: one that holds the key keeps it.
WipeKeys(a) ==
    /\ admins[a].at = "listed" /\ row' = Wiped(admins[a].row)
    /\ gone' = [gone EXCEPT !.keys = @ \cup ({row.pub} \ (secrets \cup {0}))]
    /\ Step(a, Rest)
    /\ UNCHANGED <<tenant, ceremony, defaults, totp, secrets, tabs, persists, kits, shares, made, escrows, moves>>

NewPair == escrows < MaxEscrow /\ escrows' = escrows + 1

\* The first escrow key, refused if there is one.
GenerateEscrow(a) ==
    /\ Free(a) /\ Alone /\ tenant.escrow = 0 /\ NewPair
    /\ tenant' = [tenant EXCEPT !.escrow = escrows']
    /\ Step(a, [kind |-> "escrow", at |-> "show", key |-> escrows'])
    /\ UNCHANGED <<row, ceremony, defaults, totp, secrets, tabs, persists, kits, shares, made, gone, moves>>

\* The challenge is sealed to the current key: who has its shares opens it.
BeginReplace(a) ==
    /\ Free(a) /\ Move /\ tenant.escrow # 0
    /\ ceremony' = a
    /\ Step(a, IF tenant.escrow \in shares THEN [kind |-> "escrow", at |-> "finish"] ELSE Rest)
    /\ UNCHANGED <<row, tenant, defaults, totp, secrets, tabs, persists, outside>>

FinishReplace(a) ==
    /\ admins[a].at = "finish" /\ Alone
    /\ IF ceremony = a
       THEN /\ NewPair /\ tenant' = [tenant EXCEPT !.escrow = escrows'] /\ ceremony' = None
            /\ Step(a, [kind |-> "escrow", at |-> "show", key |-> escrows'])
       ELSE Step(a, Rest) /\ UNCHANGED <<tenant, ceremony, escrows>>
    /\ UNCHANGED <<row, defaults, totp, secrets, tabs, persists, kits, shares, made, gone, moves>>

\* The server forgets the challenge after its time, or when it restarts.
Expire ==
    /\ ceremony # None /\ Move /\ ceremony' = None
    /\ UNCHANGED <<row, tenant, defaults, totp, secrets, tabs, persists, admins, outside>>

\* The shares of the new key are shown, or its page is closed first.
ShowShares(a) ==
    /\ admins[a].at = "show" /\ Step(a, Rest)
    /\ \/ shares' = shares \cup {admins[a].key} /\ UNCHANGED gone
       \/ gone' = [gone EXCEPT !.shares = @ \cup {admins[a].key}] /\ UNCHANGED shares
    /\ UNCHANGED <<server, tabs, persists, kits, made, escrows, moves>>

-----------------------------------------------------------------------------
Next ==
    \/ \E t \in Tabs : HasSession(t) \/ SignIn(t) \/ CodeStep(t) \/ OpenApp(t)
         \/ SecondFactor(t) \/ GoApp(t) \/ Reload(t) \/ StepPlain(t) \/ StepCrypto(t)
         \/ StepRecovery(t) \/ StepBack(t) \/ Commit(t) \/ StartOnboard(t) \/ AskMe(t) \/ Prepare(t) \/ StartUnlock(t) \/ StartSave(t)
         \/ StartRecover(t) \/ Unlock(t) \/ OpenForChange(t) \/ OpenWithKit(t) \/ Arrive(t)
         \/ Store(t) \/ Answered(t) \/ UnlockAgain(t) \/ Lost(t) \/ Lock(t) \/ Secret(t)
    \/ \E a \in Admins : Switch(a) \/ PutMode(a) \/ WipeKeys(a) \/ GenerateEscrow(a)
         \/ BeginReplace(a) \/ FinishReplace(a) \/ ShowShares(a)
    \/ PersistParams \/ SetParams \/ Expire

Spec == Init /\ [][Next]_vars
-----------------------------------------------------------------------------
(* Properties                                                                *)
\* What is posted, and what a window is about.
Posted == [sk : Number, par : Params, mode : Modes, sealed : Blob,
           kit : Blob \cup {None}, escrow : EscrowCopy \cup {None}]
Kinds == {"onboard", "save", "recover"}
Drafts == [kind : {"setup"}, at : {"wizard"}, step : 0 .. 5, mode : Modes, par : Params]
Beginning == [kind : {"onboard"}, at : {"me"}, new : Number]
Opening == [kind : {"unlock"}, at : {"keys"}, lock : Number]
             \cup [kind : {"save"}, at : {"keys"}, new : Number]
             \cup [kind : {"recover"}, at : {"keys"}, new : Number, kit : Number]
Sealing == [kind : {"onboard", "save"}, at : {"status"}, new : Number, kit : Number,
            sk : Number, mode : Modes, par : Params]
Sending == [kind : Kinds, at : {"post"}, new : Number, body : Posted]
Waiting == [kind : Kinds, at : {"in", "answer"}, new : Number, body : Posted, write : Row]
Reopening == [kind : {"again"}, at : {"again"}, lock : Number]
Doing == {Rest} \cup Drafts \cup Beginning \cup Opening \cup Sealing \cup Sending
           \cup Waiting \cup Reopening
Pages == {"setup", "login", "login-code", "onboard", "onboard-2fa", "kit", "app"}
Tab == [page : Pages, me : Modes \cup {None}, sk : Nat, par : Params \cup {None},
        locked : BOOLEAN, do : Doing]
Checking == [kind : {"switch"}, at : {"checked"}, tenant : Tenant]
Listing == [kind : {"switch"}, at : {"listed"}, row : Row]
Showing == [kind : {"escrow"}, at : {"show"}, key : Number]
Replacing == [kind : {"escrow"}, at : {"finish"}]
Admin == {Rest} \cup Checking \cup Listing \cup Showing \cup Replacing

Losses == [kits : SUBSET Number, shares : SUBSET Number, keys : SUBSET Number]

\* Every variable has its type: the rows, the windows and what they are about to
\* post, the requests under way and the counters of what was made.
TypeOK ==
    /\ row \in Row /\ tenant \in Tenant \cup {None} /\ ceremony \in Admins \cup {None}
    /\ defaults \in Params /\ totp \in BOOLEAN /\ secrets \subseteq Number
    /\ tabs \in [Tabs -> Tab] /\ admins \in [Admins -> Admin]
    /\ persists \subseteq [par : Params, row : Row \cup {None}]
    /\ kits \subseteq Number /\ shares \subseteq Number
    /\ made \in Nat /\ escrows \in Nat /\ moves \in 0 .. MaxMoves
    /\ gone \in Losses

\* Whatever the row holds of the private key is the key its public key belongs to:
\* what others seal to the user opens after an unlock, after a recovery with the
\* kit and after one with the escrow key.  The three are written by onboarding,
\* by changes of the password from any window and by the switch of the mode.
KeysAgree ==
    LET copies == {row.sealed, row.kit, row.escrow} \ {None} IN
    /\ row.pub = 0 => copies = {}
    /\ row.pub # 0 => row.sealed # None /\ \A c \in copies : c.sk = row.pub

\* A user with keys has the copy of them that the tenant's mode recovers from, and
\* the user was shown its kit, or is about to be, or the shares of its escrow key
\* were handed out, or are about to be: through changes of the password, recoveries,
\* switches of the mode and new escrow keys, with answers lost and pages gone
\* anywhere, nothing but the answer to the onboarding itself or the page of the
\* shares, when they are gone, leaves a copy that nobody can open.
RecoveryReady ==
    row.pub # 0 /\ (\A a \in Admins : admins[a].at # "listed") =>
        IF tenant.mode = "user_kit"
        THEN /\ row.kit # None
             /\ \/ row.kit.lock \in kits \cup gone.kits
                \/ \E t \in Tabs : row.kit.lock \in KitUnseen(t)
        ELSE /\ row.escrow # None
             /\ row.escrow.to \in shares \cup gone.shares
                  \cup {admins[a].key : a \in {a \in Admins : admins[a].at = "show"}}

\* The same with no exception: the kit or the shares reach somebody.
SomebodyRecovers ==
    /\ RecoveryReady
    /\ row.kit # None => row.kit.lock \notin gone.kits
    /\ row.escrow # None => row.escrow.to \notin gone.shares

\* The parameters stored with the row are those its keys were sealed with, so the
\* right password and the right kit open them whatever the defaults have become:
\* the request that completes an old row comes late, after other changes.
ParamsAgree ==
    row.pub # 0 /\ row.kdf # None =>
        row.sealed.par = row.kdf /\ (row.kit # None => row.kit.par = row.kdf)

\* Every secret opens with the user's key, or was sealed by a window that kept a key
\* which a switch of the mode threw away before: no onboarding, change, recovery,
\* late request or switch replaces or wipes a key while a secret is sealed to it, and
\* no window seals to any other.
SecretsOpen == secrets \subseteq {row.pub} \cup gone.keys

\* The same with no exception: nobody seals a secret to a key that is gone.
NoSecretIsLost == secrets \subseteq {row.pub}

\* A locked window has no key (app.js touchIdle, lockNow).
LockedHoldsNoKey == \A t \in Tabs : tabs[t].locked => tabs[t].sk = 0

\* Who is sent to the onboarding page is not refused there for a missing second factor.
OnboardNotRefused == \A t \in Tabs : tabs[t].page = "onboard" => ~NeedsTotp
=============================================================================
