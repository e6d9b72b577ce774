# TeamVault: specifications, model checking and proofs

TeamVault is a zero-knowledge password vault for teams: the server stores
ciphertexts, the clients hold the keys. This directory describes the parts of it
that are hard to get right, in TLA+: what the state is, which steps change it,
what must hold of every state, step and run. TLC checks the statements on small
instances; TLAPS proves the most important ones for every instance.

    tlc -config <run>.cfg <MC module>      one run of TLC, listed below
    tlapm <module>_proofs.tla              the proofs of a module

The passing runs and `finding_qr` are the runs `PROJECT.json` lists. Each further
`finding_<name>.cfg` here checks one statement that a document, a comment or a test of the
repository makes and the code does not keep; the sections below say with which
MC module to run it and what TLC prints.

## 1. The system

| Component | State it keeps | Operations | Interacts with | What is hard |
|---|---|---|---|---|
| Vault store, SQLite (`internal/store/sqlite`) | secrets, ciphertexts, key envelopes, groups, members, direct and group shares, users, audit log | one transaction per operation | called by every handler | which operations belong in one transaction |
| Vault store, JSON file (`internal/store/jsonfile`) | the same in one document | mutate in memory, then flush the file | called by every handler | a flush that fails after the mutation |
| Secret requests (`internal/server/phase5.go`, `phase12.go`) | nothing between requests; what a handler has read so far | create, get, share, share-group, gaps, update, rotate, delete | store; web, desktop, CLI clients | several store calls per request, no lock between them |
| Group and user administration (`phase5.go`, `ldap_provision.go`) | rows of the store | add and remove members, delete groups, disable users | store; revokes envelopes | runs at any time between the steps of the others |
| Web client, sharing as others see it (`web/static/app.js`) | what one request read so far | reads access lists, seals keys to recipients, sends one request | HTTP API | acts on what it read some calls ago |
| Web client, the unlocked vault (`app.js`) | list and pages, current secret, form, access panel, busy flag | refresh, open, save, share, unshare, batches, delete, membership | HTTP API | a handler goes on after an await with globals that the next one has changed |
| Web client, offline copies (`app.js`, `offline-store.js`, `offline-hardware.js`, `internal/offlinepolicy`) | one record per user in IndexedDB, keys and policy in each tab | sync, register, test and remove hardware keys, open offline, lock, delete | HTTP API; other tabs by way of the record | a lock or another tab overtakes an operation; the policy changes |
| Web client, import and export (`import-parse.js`, `vault-io.js`, `app.js`) | the preview, the loop over it | four formats out, nine in, the form and back | HTTP API | quoting, field names, a loop that fails half way |
| Web client, QR code (`qrcode.js`) | none | a text to a symbol | the set-up of a second factor | table and bit arithmetic |
| Browser extension (`clients/extension`) | list cache, open sections, login token, single-flight refresh | sign in, unlock, refresh, fill, copy, lock | HTTP API; the page of the active tab | the tab navigates, the popup is locked or closed between two awaits |
| Login and accounts (`server.go`, `login_pending.go`, `mvp_gaps.go`, `phase5.go`, `phase7.go`) | user rows, login tokens, last accepted time step per user, rate limiter | password, passkey, choice of tenant, second factor, changes of password, roles, status | sessions, store | a code used twice; a login or a change that overlaps a change of the account |
| Sessions (`internal/auth/session`) | table in memory, its copy in `sessions.json`, lifetime and idle timeout | create, get, delete, expire, load | login, every handler | the write is a second step, its errors are ignored; restart |
| Configuration and API keys (`phase6.go`, `internal/configstore`) | one bundle | read, change, write back | login, administration | lost updates |
| Onboarding, recovery, escrow (`server.go`, `escrow_replace.go`, `internal/shamir`, `app.js`) | wrapped private keys, recovery mode, escrow key, the ceremony; keys in each window | onboard, unlock, change master password, recover, switch the mode, replace the escrow key | store; the clients | two windows, a switch in between, a lost answer; who can still decrypt |
| Backup, restore, store migration (`backup.go`, `phase6.go`, `internal/setup`) | a snapshot of everything | export, import, switch the store | store, sessions | requests during the switch |
| Desktop client, CLI | the unlocked keys | the web client's operations, with code of their own | HTTP API | rules that should agree with the web client's |

`PROJECT.json` lists every component with its sources and the reason a part is
not modelled, and under `hazards` the places in the code where an ordering, a
failure or a stale read can do harm.

### What makes each part correct

* Secrets: only the owner, the users with a direct share and the members of the
  groups a secret is shared with should hold a live envelope, and where the code lets
  others keep one is known; a live envelope opens
  what is stored; revoking is final; nobody hands out more than they have;
  somebody who is entitled gets an envelope in the end.
* Sessions and login: a session exists only after every factor; a revoked
  session does not come back, not even after a restart.
* Configuration: a change that was answered with success is in the bundle.
* Keys: at any moment the owner of an account, or the escrow, can decrypt.
* Offline copies: what is stored opens with the keys it names, follows the list,
  was allowed when it was stored; a locked tab holds nothing.
* The unlocked vault: what one handler seals, posts and shows belongs to one
  secret, whatever the user clicks meanwhile.
* The extension: it types only where the user clicked and the entry allows.
* Formats: what goes out in a format comes back from it.
* The JSON store keeps the promises of the SQLite store.

## 2. Plan

| Step | Modules | Abstract specification | Theorems | State |
|---|---|---|---|---|
| 1 | `VaultStore`, `SecretSharing` | | types; revoked for good; no escalation; of requests that do not overlap, all six properties | done |
| 2 | `SessionStore`, `Login` | | only live sessions accepted, revocation lasts, remembered logins last; codes used once, a session needs every factor, sessions follow the account | done |
| 3 | `OfflineCopy` | `CopyShelf` | types, the refinement, and the four other properties of the run | done |
| 4 | `VaultKeys` (onboarding, recovery, escrow) | | types, the password opens; of requests that do not overlap, all four properties | done |
| 5 | `WebVault`, `Extension` | | of `WebVault`: types, envelopes of one key, the quiet list; of `Extension`: types, filled where allowed | done |
| 6 | `ImportExport`, `QRCode` | an independent reader of each format | of `ImportExport`: types, nothing imported twice, what each format brings back | done, `QRCode` model-checked |
| 7 | `Login` over `SessionStore` (its session steps refine the store's), rate limiter, disabled tenants | `SessionStore` | the refinement | next |
| 8 | `JsonStore` | `VaultStore`'s operations as atomic steps | a successful operation is durable | |
| 9 | `ConfigBundle` (policies, API keys) | a set of changes | | |
| 10 | `BackupRestore`, desktop and command-line clients, Shamir over GF(256) | | | |

Which module uses which: `SecretSharing` extends `VaultStore`; `OfflineCopy`
instantiates `CopyShelf`; `MCLoginKinds` extends `MCLogin`; `MCImportExport` puts
`ImportExport` and `QRCode` side by side, for both are functions of one page that
share no state. The web client appears in four modules, once for each thing it
shares with others: the requests of one secret (`SecretSharing`), its own globals
(`WebVault`), the record of the browser (`OfflineCopy`), a user's keys
(`VaultKeys`).

## 3. Secrets: `VaultStore` and `SecretSharing`

### State

`VaultStore` is one secret's rows in the tables of the SQLite store: `meta`
(`secrets`), `blob` (`secret_ciphertext`), `envs` (`key_envelopes`), `directs`
and `gshares` (`secret_direct_shares`, `secret_group_shares`) and `members`
(`group_members`). Ciphertexts are represented by the data key they are sealed
under; a key is a number, in the order the clients generated them. Absence of a
row is a value (`NoMeta`, `NoBlob`, state `absent`, capability `none`).
Following one secret is enough for its own properties: rows of different secrets
never meet in a statement, and the two operations over many secrets
(`RemoveGroupMemberWithRevoke`, `DeleteGroup`) treat them alike.

`SecretSharing` adds `status` of the accounts, the number of `keys` generated,
and `req`: for each process the request in flight, its label `pc` and what it has
read. A process is a client together with the goroutine that serves it. The
labels are the calls of the store, in the order of the code:

    create   commit -> users -> groups
    share    get -> getblob -> open -> auth -> blob -> commit -> sync [-> putmeta]
    sharegroup  get -> getblob -> open -> access -> auth -> blob -> commit -> sync
    reseal   gapenvs -> gapversions -> auth -> cap -> blob -> commit -> sync
    update   get -> getblob -> open -> auth -> blob -> meta -> putmeta -> putblob
    rotate   get -> getblob -> open -> access -> auth -> blob -> meta -> commit
             -> drop -> sync [-> putmeta]
    batchunshare  as rotate
    delete   auth -> commit

A rotation has two forms, which differ in whom they seal to. `BeginRotate` is the
access panel's (`unshareSecret`): owner, caller, the users whose direct share
stays, the members of the groups that stay (`Keepers`). `BeginBatchUnshare` is the
batch panel's (`unshareSecretByTarget`): it keeps besides every holder of an envelope
that the server named with the secret (`Holders`, `Recipients`), and so the user whose
share it drops.

An early return of a handler is `Finish`. `Abort` ends a request between two
steps (crash, cancelled context, failed call). `LoseCap` and `DropFails` are the
two places where a handler ignores an error of the store and goes on. `AddMember`,
`RemoveMember`, `RemoveGroup`, `DisableUser` and `OnboardUser` are requests with
one store call that matters here.

### What is abstracted

* Consecutive reads with no write of the same request between them are one step
  in three places: the checks of a handler (`Authorize`), the client's list of
  recipients (`ReadAccess`) and the visibility (`SyncRead`). Between the steps
  listed above any other request may run.
* Encryption is perfect: an envelope carries the key it was sealed from, and a
  client that cannot decrypt what it read stops (`OpenEnvelope`).
* A share names one recipient, a catch-up one group; the code accepts lists and
  treats their elements alike. The recipient of a direct share is onboarded.
* The clients are the repository's own: they send the recipients they computed.
  Who may ask for what capability is a constant (`OwnerCaps`, `PeerCaps`).
* A secret is created once (identifiers are random). Audit rows, titles,
  collections, pagination and the confirmation of recipients' keys are left out.

### Runs

All are in `MCSecretSharing`. A passing run that allows two requests at a time
says so; the others have one process, that is, requests that do not overlap.

| Run | Instance | Shows |
|---|---|---|
| `concurrent` | 2 users, 1 group, 2 processes, 2 versions; create, share with the group, catch-up, rotate, change of members, ignored store errors | types; `NoEscalation` although recipients ask for `admin` and the owner grants `share`; `RevokedStaysRevoked` |
| `catchup` | 2 users, 2 processes, 2 versions, `FairSpec` | `MembersGetEnvelopes`: a member who joins or is onboarded late gets an envelope, with rotations overlapping |
| `serial_owner` | 3 users, 1 process, 2 versions, no crash and no deletion of the group | between requests the shares and the visibility agree; a rotation of either form leaves its recipients |
| `serial_all` | 2 users, 1 process, 3 versions, everything but ignored errors, aborts included | only the current version has live envelopes and they open payload and title; capabilities are granted within one's own; `StraysExplained`, below |

Two versions let a rotation overlap a request that read the version before it;
three let the second rotation follow the first. Three users are the owner, one
who stays and one who is dropped. One group suffices for the membership
operations; two groups matter only for the choice of keepers. `MaxVersion` also
bounds the keys generated and ends the rotations: with all versions used up the
other operations still run. Symmetry is used where no liveness is checked.

Run with `MCSecretSharing`, these configurations show:

| Configuration | What happens |
|---|---|
| `finding_old_versions` | A share reads version 1, a rotation to 2 commits, the share inserts a live envelope of version 1. |
| `finding_update_race` | An update passes its version check, a rotation commits, the update writes the old ciphertext back. No envelope opens it. |
| `finding_write_capability` | A user with a write share has the effective capability `read`, because the rank of "no capability" is that of `write`. |
| `finding_readded_member` | A member is removed and added again; every catch-up is refused by the revoked row. |
| `finding_catchup_key` | A catch-up reads the envelopes, a rotation commits, the catch-up reads the versions: it seals the old key under the new version (`phase12.go:171`). |

Four more things the models do, as the code does, that a document or comment
does not expect: the owner, removed from a group the secret is shared with,
loses the envelope, for only a direct share keeps it (`audit_mutate.go:177`,
against lines 250 and 252 of the architecture document); an update that has read
the metadata inserts the row of a secret deleted meanwhile again
(`phase5.go:1282`); a member without the capability to share changes the
capability of the group's share (`phase12.go:293`, against
`finding_pentest_test.go:117`); a catch-up writes back the group's capability it
read, over one the owner has raised since (`phase12.go:305`).

With overlapping requests `OldVersionsInvalid`, `EnvelopesOpen` and the
between-requests properties fail for the reasons the findings show; that is why
the runs that check them have one process. The visibility does not follow the deletion
of a group, nor a creation that breaks off; `serial_owner` leaves these two out.

That whoever holds an envelope has a share is no invariant of the code even then, and
`StraysExplained` says where it ends: a user other than the owner comes to hold an
envelope without a share in a creation whose share rows have not followed yet (or never
do, when it breaks off), when the batch panel drops a share, when the caller of a
rotation drops its own, and when a group is deleted; in no other step. The batch panel's
is the one that matters, for it undoes what the user asked for: the share row goes, the
envelope of the new version stays (`app.js:7425`; `finding_batch_unshare`, section 8, shows it
from the browser's side). The list of shares that the access panel has kept from earlier
(`vault.secretAccess`) is in `WebVault` (`finding_stale_access`); here the client reads
it anew.

### Fairness

Only `catchup` and `finding_readded_member` assume any. A goroutine that serves a
request is scheduled until the request ends (weak fairness of `RequestStep`), and
clients that hold an envelope keep unlocking their vault, after which
`sealGroupShareGaps` runs (strong fairness of a catch-up by each holder for each
group: the process may be busy in between). Nothing is assumed of rotations,
administrators or onboarding.

### Proofs

`SecretSharing_proofs` proves, for any sets of users, groups and processes, any
`MaxVersion` and any sets of operations and capabilities (the assumptions are
`UsersAssumption`, `VersionAssumption`, `OpsAssumption`, `CapsAssumption`):

* `TypeCorrect`: `Spec => []TypeOK`, one lemma for the type of each store
  operation and one for each kind of request step.
* `RevokedForGood`: `Spec => RevokedStaysRevoked`. The store refuses to revive a
  revoked row in every operation but `CreateSecret`, which writes envelopes
  unconditionally. So the argument needs an invariant, `CreatedOnce`: until the
  one creation has committed the tables are empty, no other request is past its
  first checks, and afterwards no request is about to create.
* `NoOneEscalates`: `Spec => []NoEscalation`. `NoEscalation` alone is not
  inductive; `CapsWithin` bounds every share row and every request that is past
  its authorisation by what the owner hands out (or `write`, which has no effect
  on the effective capability, see `finding_write_capability`).

Its second part proves the six properties of requests that do not overlap, that
is, with `Procs = {p}` as a hypothesis. Each of the further hypotheses names a part of
the code whose absence the property needs:

| Theorem | Property | Besides one process |
|---|---|---|
| `OldVersionsGone` | `OldVersionsInvalid` | nothing: aborts, deleted groups and ignored errors included |
| `EnvelopesKeepOpening` | `EnvelopesOpen` | nothing |
| `RotationsLeaveTheirRecipients` | `RotationLeavesItsRecipients` | nothing |
| `VisibilityIsTrue` | `VisibilityMatchesShares` | no abort, no deletion of a group |
| `StraysAreExplained` | `StraysExplained` | nothing: the four ways are in the property |
| `GrantsStayWithinOwn` | `GrantsWithinOwn` | no failing read (`LoseCap`: a catch-up then writes `write`) |

The owner must not grant `admin` in `NobodyElseHolds` because a recipient who may
rotate can leave out the share through which they hold the secret themselves: the
client seals to its own user first, so they keep an envelope without a share.

What makes these inductive is what a request in flight has read. `Found` says that
a request which seals has, once its client has opened an envelope, the key of the
ciphertext and title, and once the handler has read the ciphertext also its
version; `Sealed`, `Brings` and `Rotates` say whom it seals to and that these are
still onboarded and in their group; `HoldersTied` and `VisibilityRight` are the
two between-requests properties with the shares a creation has still to write and
a rotation still to drop; `Entitled` says that the capability about to be written
is within the requester's, or what the group has. One request suffices for that
because nothing else writes between its reads and its commit, which is what fails
with two. `ReadsGo` says once where every read leads (`Goes`), so that each
invariant treats the reads as one case.

Liveness is only model-checked.

## 4. Sessions: `SessionStore`

### State and actions

`mem` is `Store.sessions`, `file` the contents of `sessions.json`, `ttl` and
`idle` the policy. A method changes the map under the lock, releases it, and
`persist` takes it again for the write; so a caller is at rest or has yet to
write (`call`). `used`, `answered` and `gone` are history: when a session was
last accepted, which sessions were handed out and not ended, which deletions
were answered.

| Code | Action |
|---|---|
| `CreateWithTTLState` up to the unlock | `Create` |
| `Delete`, `DeleteByUser`, `DeleteByTenant` up to the unlock | actions of the same names, by way of `Remove` |
| `persist`, then the return of the call | `Persist` |
| `Get`, accepting or rejecting | `GetAccepts`, `GetRejects` |
| `SetTTL`, `SetIdle` | `SetPolicy` |
| the process stops anywhere; `NewPersistent`, `load` | `Restart` |

Time is counted in idle-timeout units; an expiry at the very instant of `now` is
decided as in the code (`After` is strict in `Get`, `persist` and `load`). A
remembered login asks for 90 days, `MaxTtl`. Session ids are random and never
drawn twice. The write is one step, for it goes to a temporary file that is
renamed, under the lock; `WritesFail` lets it fail.

### Runs

| Run | Instance | Shows |
|---|---|---|
| `sessions` | 2 ids, 2 users in 2 tenants, 2 callers, 4 points in time, idle timeout off or 1 | `RevokedSessionsStayOut`, `RememberedLoginsSurvive`, `OnlyLiveSessionsAccepted`, types |
| `finding_lost_logout` | writes may fail | a logout is answered, the write fails, the restart loads the session again (`session.go:182`); the user guide, line 67, says a logout ends the session |

A live session that is in use may be rejected after a restart, since its last use
was never written (`session.go:126`): the idle timeout then counts from an
earlier use. `OnlyLiveSessionsAccepted` says nothing against it.

Two callers give every order of two changes and their writes; one write carries
the other's change. Four points in time let a session idle out, be used again
and expire.

### Proofs

`SessionStore_proofs`, for any ids, users, tenants, callers and policies:

* `SessionTypes`: `Spec => []TypeOK`.
* `OnlyLiveAccepted`: `Spec => OnlyLiveSessionsAccepted`. `Memories` says that
  neither the map nor the file remembers a later use of a session than the real
  last one: judging by a remembered time is then never too generous.
* `RevocationLasts`: under `~WritesFail`, `Spec => []RevokedSessionsStayOut`.
  `Revoked` extends the property to the file and to deletions that are not
  answered yet: their sessions have left the map, so any write removes them.

* `RememberedLast`: under `~WritesFail`, `Spec => []RememberedLoginsSurvive`.
  The property speaks of the map after a restart, so the invariant says the same
  of the file, and of a login whose write is still to come that the map has it.

## 5. Signing in and changes of accounts: `Login`

### State and actions

`acct` is the row of each account (`UserRecord`): which password and which TOTP
secret it has (numbers, in the order they were set), its role, `disabled`,
`TotpEnabled`. `mem`, `file` and `drawn` are the sessions as in `SessionStore`,
without time. `pending` holds the login tokens of `pendingLoginStore`,
`counters` is `totpCounters`, `saved` the file of it, `step` the time step of 30
seconds. A session remembers the password it was opened with, the code and
whether a code was needed; `uses` counts how often `validateTOTP` said yes.

A process is one request. Its labels are the calls that other requests can come
between:

    password, passkey, tenantless   gate
    select                          consume -> lookup -> gate
    code                            consume -> lookup -> check
    gate, check (with a code)       -> save -> create -> persist
    gate (no code, none needed)     -> create -> persist
    gate (no code, one needed)      a login token, end
    totpenable                      enroll -> save -> write
    changepw, resetpw, setroles, update, disable
                                    write -> revoke -> flush [-> renew -> persist]
    profile, totpsetup              write
    logout, use of a disabled one   mem -> flush

The row a handler reads is kept in the request (`rec`) and written back whole,
as `UpsertUser` does. `totpMu` is held from the acceptance of a code until the
counters are written (`save`). `Fail` ends a request where a call of the store
fails, `Restart` stops the server, between requests or in the middle of them.

### What is abstracted

* The middleware's look at the session and the account and the handler's first
  read are one step. A tenantless login reads all candidates in one step.
* A right code is right for one time step near the current one; which secret it
  belongs to is left out, as is that a code may by chance fit two steps.
* `profile` stands for every handler that writes the row without touching its
  security fields (profile, preferences, a user update with only names).
* Administrators and the users they change share a tenant. One role stands for
  the administrative ones; the protection of `platform_admin` is left out.
* Not modelled: LDAP accounts (provisioning, synchronisation), disabled tenants,
  onboarding, the rate limiter, lifetimes of sessions and tokens (a token may
  vanish at any time: `Misuse`), the sign counter of passkeys, a failed write of
  the counters (the architecture document, section 4.4, discloses it).

### Runs

Ids, time steps, passwords and secrets are bounded, so a behaviour may end:
`CHECK_DEADLOCK FALSE`.

| Run | Instance | Shows |
|---|---|---|
| `login`, first kind ("at once") | 2 accounts with or without second factor, 2 processes, 2 sessions, 1 token, 2 time steps and the code window of 2 around them, crashes anywhere | `TotpCodesUsedOnce`, `OneSessionPerCode` |
| `login`, second kind ("one by one") | 2 accounts, one request at a time, 3 sessions, 2 passwords, no login token, every change of an account, restarts between requests | `SessionsFollowAccount` |

The run is of `MCLoginKinds`: a variable chooses the kind of a behaviour at the
start, and the four properties are checked of both. In the second kind second
factors appear by enrolment only. Two processes are enough for
the first kind, whose violations need two requests with one code. In the second
requests do not overlap, because `SessionsFollowAccount` does not survive
overlap, tokens that outlive a change, or a crash in the middle of a change:

| Configuration (with `MCLogin`) | What happens |
|---|---|
| `finding_login_race` | A login reads the row, the role is changed and the sessions deleted, the login creates its session with the old role (`server.go:747`, against the comment above it). |
| `finding_disable_undone` | A profile change reads the row, the account is disabled, the profile change writes the row back. |

A full session may start the setup of a new second factor, which disables the old one
(`server.go:1220`), and go on without, while the admin guide, line 254, says the policy
enforces one: with `RequireTotp = TRUE` and requests of kind `totpsetup` TLC finds
`SecondFactorEnforced` violated.

A login token that was issued for a password still opens the account after that
password was changed (`server.go:713`); a wrong code uses a login token up
(`login_pending.go:90`), while the user guide, line 361, says to enter it again.

### Proofs

`Login_proofs`, for any accounts, processes, ids, tokens, kinds of request and
bounds (assumptions `OpsKnown`, `UsersAssumption`, `BoundsAssumption`), rests on
the inductive invariant `IInv`:

* `LoginTypes`: `Spec => []TypeOK`.
* `CodesUsedOnce`: `Spec => []TotpCodesUsedOnce`. The property says nothing of
  the counters; `CountersSaved` says that file and memory differ only by the
  code of the one request at `save`, which is past the saved counter, and
  `CodesSpent` that no accepted code is past the saved counter. So a crash
  cannot go back behind a code that was answered.
* `SecondFactorMet`: `Spec => []OneSessionPerCode`. `LoginProves` says what
  a login has when it is about to create its session (a code if its row asks for
  one, that no session and no other login has), `SessionProves` the same of
  every session in memory and on disk.

* `SessionsFollow`: with one process, no login tokens and no crash in the middle
  of a request, `Spec => []SessionsFollowAccount`, for any accounts, ids and
  bounds and every kind of change. The inductive `Alone` says what the one
  request has read is still so, and which sessions do not follow their account:
  those of the user whose change is between its write and its revocation.

## 6. Offline copies: `CopyShelf` and `OfflineCopy`

### State and actions

`store` is the user's record in IndexedDB: revision (`rev`), the sync it stems
from (`born`), protection profile, the set of hardware keys (`id`, `slots`), the
key it is sealed under, the policy's requirement at the time, and for each secret
the revisions of its list row and of its body. A tab has its mode, the software
key, the root key of the hardware keys, the copy it knows, the profile chosen, the
policy it last saw, the list, and one running operation. `op.live` says that the
buffers an operation was started with have not been filled with zeros by a lock.

An operation goes from await to await:

    sync      policy1 -> list -> read [-> root] -> fetch -> policy2 -> put
    register  policy1 [-> root] -> device [-> seal -> policy2 -> put]
    remove    policy1 -> device [-> seal -> policy2 -> put]
    test      root

Between the steps other tabs work, the vault is locked, the page is reloaded, the
administrator changes the policy, secrets are edited, the copy expires. Every
await may fail. `Put` is the one transaction of `putSnapshot` that compares the
record with the expected one and replaces it.

Ciphers are what opens what: key material is a number, 0 for a buffer of zeros.
Attempts at a wrong key, the browser's storage quota and the dialogue of the
security key itself are left out.

### The refinement

`CopyShelf` is what the record promises to whoever reads it: there is at most one
copy, it opens with the keys it names, and a set of keys that was replaced or
deleted never comes back. `ShelfSpec` is its specification with
`copy <- [there |-> store.rev # 0, keyset |-> store.id, opens |-> CopyOpens]`; the
steps of the tabs stutter, `Put` replaces the copy, `Wipe` deletes it.

### Run

`offline` (`MCOfflineCopy`): 2 tabs, 1 secret, 2 hardware keys, 1 software key,
2 key sets, 3 copies stored, 3 operations begun, 2 events, at most 4 of both
together; three profiles, a copy of an earlier visit or none. Two tabs are the most that can meet at one record.
Three operations let a removal race a sync that races a registration; two events
let a lock and an edit, or a change of the policy and its return, fall between
steps. It shows `CopyOpens`, `LockedHoldsNoKeys`, `SyncFollowsList`,
`PolicyAskedLast` and `ShelfSpec`.

`SyncFollowsList` is what a sync promises and no more: a row of the previous copy
is reused when the list row looks the same, and a batch edit (`app.js:4671`) leaves
the list row alone, so the copy keeps the old body until the next change of the
title, the envelope or the key.

`finding_empty_copy` (with `MCOfflineCopy`) shows `SyncKeepsSecrets` violated: a
sync works with the list of the tab, which a refresh empties before it asks the
server, and an empty plan passes the check for completeness (`app.js:4759`, against
the message at `app.js:4774`).

### Proofs

`OfflineCopy_proofs`, for any tabs, secrets, hardware and software keys, policies
and bounds. The assumptions are those of the module: `OfflineAssumption` (bounds are
numbers, profiles are the three there are, there is a hardware key) and
`PolicyAssumption` (a policy has the type of one).

* `OfflineTypes`: `Spec => []TypeOK`.
* `CopyOpensAlways`, `LockedKeepsNoKeys`: `Spec => []CopyOpens`,
  `Spec => []LockedHoldsNoKeys`.
* `OfflineImplementsShelf`: `Spec => ShelfSpec`, the refinement.
* `SyncsFollowTheList`, `PolicyIsAskedLast`: `Spec => SyncFollowsList`,
  `Spec => PolicyAskedLast`.

None of these is inductive: what is stored is decided several steps earlier, in a
tab, from what the tab knew then. The inductive invariant says it of everything
that may be stored yet.

* `Types`: `TypeOK`, and lists no newer than the number of edits.
* `TabsGood`: in every tab, key sets are sound (slots wrap the root key of the set, all
  under one software key), the root key a tab has belongs to the set it knows
  (`Calm`), and an operation has what its step needs (`Prepared`) and a
  draft that is sound unless a lock has overtaken it before it was sealed
  (`Drafted`), which the last checks then refuse.
* `Shared`, `TabsInUse`, `Apart`: identities. Without a copy behind it, the identity a tab
  knows is its own and no copy had it; with a copy of an older revision it is the
  record's or given up; with the record's revision it is the record's. This is why a
  compare-and-replace on the revision alone never brings a replaced set of keys back.
* `AllFollow`, for the last two theorems: the list of a sync is no newer than the
  server's, its draft no older than that list, and an operation about to
  store is allowed by the policy or `late`.

Each action has one lemma for what it does to its own tab (`...Good`, then `...Aside`
or `...Follows`), and says whether it learns from the record, stores, or wipes;
`LearnsIdentities`, `StoredIdentities` and `WipedIdentities` carry the
invariant through those cases, `RecordSteps` and `ShelfStep` map them to the shelf.

## 7. Vault keys: `VaultKeys`

### State and actions

`row` is the key material of one user on the server: the public key, the private
key sealed under the master password, under the kit and to the escrow key, and the
parameters of the derivation. `tenant` has the recovery mode and the escrow key.
A window (`tabs`) has its page, what it knows of the user (`me`), the private key in
memory and one handler with the step it waits at; an administrator switches the
mode or replaces the escrow key with the server's challenge (`ceremony`). A
private key, the password or kit that seals it and an escrow key pair are numbers
(`made`, `escrows`); a blob records what is in it and what opens it. `kits` and
`shares` are history: what people were shown. So is `gone`: the kits and shares whose
page went away before it showed them, and the keys that a switch of the mode wiped while
no secret was sealed to them.

Any answer may be lost (`Lost`), any page loaded again and any vault locked
(`Reload`, `Lock`) at any moment, whatever runs and whether requests overlap or not. The switch of
the mode changes the server's rows and nothing else: a window that has the key in
memory keeps it and seals with it (`app.js:4963`).

A handler of the server is two steps, its read of the row and its write of the
whole row. The wizard's commit is one.

### Run

`keys` (`MCVaultKeys`): 2 windows, 1 administrator, 2 sets of parameters, 3
identities or passwords made, 2 escrow keys, 5 moves (reloads, locks, unlocks,
lost answers, administrators' changes), from the setup wizard or from a server
that is set up, the user without keys or with an old row that lacks its parameters.
It shows `KeysAgree`, `RecoveryReady`, `ParamsAgree` and `SecretsOpen`.

`Overlap = FALSE` means: the server answers one request for keys at a time, and the
mode is switched while no window is between the requests of an operation. Nothing else
is assumed of windows, answers or pages. What one request at a time does not give is
named in the properties:

* `RecoveryReady` has one exception for the kit and one for the shares: the very
  answer to the onboarding, or the very page of the escrow key's shares, went away
  before it showed them. Changes of the password and recoveries have none: their kit
  was shown before the request was sent, so their answers may be lost.
* `SecretsOpen` excepts the secrets sealed to a key that was wiped when no secret was
  sealed to it: a window keeps such a key in memory and uses it after the switch.
  What it does say is that no second onboarding, change, recovery, late request or switch
  replaces or wipes a key that secrets are sealed to, and that windows seal to no other.

`finding_lost_keys` (same instance) has the statements without these exceptions
and two more. TLC stops at the first that fails; keep the one of interest.

| Invariant of `finding_lost_keys` | What happens |
|---|---|
| `SomebodyRecovers` | The answer to the onboarding is lost: the server has the keys, the browser discards the only kit (`app.js:1282`). The page of the shares does the same to an escrow key (`app.js:8708`). |
| `NoSecretIsLost` | The mode is switched, the user onboards anew in one window, and another, which was unlocked before, creates a secret with the key that is gone (`app.js:4963`, `server.go:1324`): nobody can open it. |
| `LockedHoldsNoKey` | The vault is locked while a change of the master password waits, and the answer puts the key back (`app.js:4490`). |
| `OnboardNotRefused` | The user is sent to the onboarding page before the second factor's and refused there (`app.js:990`, `server.go:259`; the admin guide, line 256). |

`finding_overlap` is the instance with `Overlap = TRUE`: two handlers read
the row, one onboards or changes, the other writes what it read, and the row has the
public key of one and a private key of the other (`KeysAgree`, `server.go:1095`); a secret
created between the switch's check and its write is sealed to the key that goes
(`SecretsOpen`, `server.go:1298`).

### Proofs

`VaultKeys_proofs`, for any windows, administrators, parameters and bounds (the
assumption is the module's, `VaultKeysAssumption`: `None` is nothing else, the bounds
are numbers):

* `VaultKeysTypes`: `Spec => []TypeOK`, with or without overlap. Beside the types
  it needs that nothing has begun before the server is set up (`NotSetUp`) and that
  a window is where its handler started (`RightPlace`).
* `CopiesHoldOneKey`, `RecoveryStaysReady`, `ParamsStayTrue`, `SecretsStayOpen`: for
  `Overlap = FALSE`, `Spec => []` of `KeysAgree`, `RecoveryReady`, `ParamsAgree`,
  `SecretsOpen`. `Overlap` is a constant: the theorems are about the
  specification whose guards exclude overlap, as `keys` is, and `finding_overlap`
  shows that the hypothesis cannot be dropped.

* `PasswordAlwaysOpens`: with or without overlap, the private key in the row is
  sealed with the parameters stored with it (`PasswordOpens`), so whatever else a lost
  update breaks, the master password that sealed the key still opens it. It rests on
  `RowsOpenable`: every row that is there or that a handler will write has the property,
  and what waits to complete an old row are the parameters of its keys. TLC found
  it to be an invariant of the instance of `keys` with `Overlap = TRUE`. The kit is
  not in it: a request in the mode `admin_escrow` keeps the kit of the row it has
  read, and with overlap those may be other keys.

None of the four about `Overlap = FALSE` is inductive: what a window posts was sealed many steps before. They
are conjuncts or consequences of one invariant, `KeysInvariant`:

* `RowAgrees`: the row by itself has one key and one set of parameters, and
  every request that waits to complete an old row brings the parameters of its keys.
* `CopyOfMode`: the copy of the tenant's mode is there and the other is not (else the
  other would keep the old key at the next change), and its kit or shares are shown,
  or a window waits for the answer upon which it shows the kit, or the page that was to
  show them is gone.
* `TabAgrees`, of every window: the key in memory is the row's or one a switch threw
  away; what it has sealed is one key, which is the row's unless it onboards (a change
  seals the key it has just read, not the one in memory); the kit of a change or recovery
  was already shown, before the request is sent. That is what makes a lost answer harmless.
* `OneHandler`, `ReadIsCurrent` and `SwitchedApart`: at most one handler is between its read and
  its write, and what it has read is still there; while the mode is being switched there are no
  secrets, and no window has read a key that it is going to seal again.

TLC finds `KeysInvariant` to be an invariant of the instance of `keys`. The proof has one lemma per kind of step: pages, steps that only read
(`WindowKeeps` says what they may do), unlocks, the handlers that write, secrets,
administrators. What a step leaves of its window is stated once (`...Leaves`) and used
for the types and for the invariant.

The four statements of `finding_lost_keys` are only checked, and violated.

Left out: that the flag of the second factor changes while windows are open;
candidates for the private key taken from an own offline copy; failures of the
store inside a handler; other users of the tenant; who holds which share.

## 8. The unlocked vault: `WebVault`

`srv` has each secret's version, the key its ciphertext is under, the key in the
user's own and in everybody else's envelope, its shares, and whose content it is
(`of`). `ui` has the globals of the page: the rows, the current secret and its
plaintext, the form, the panel's access list, the busy flag. A task is a handler
that waits, with the locals it took along; `todo` are its remaining steps.
`Step` runs one of them to the next await, `Watch` ends the loads that wait for
rows. Clicks start handlers in any of two slots, while another browser changes
secrets and members and requests are lost.

`webvault` (`MCWebVault`): 2 secrets and 1 that may be created, 2 users, 1 group,
2 slots, pages of one row, 3 moves. A fault of this kind needs two handlers and a
click between them: two slots and three moves. `EnvelopesAgree` and
`QuietListIsTrue` are invariants; `HandlersEnd` is checked under weak fairness of
all steps together: while requests are under way some answer comes, as the
browser's network stack answers or fails every request.

| Configuration (with `MCWebVault`) | What happens |
|---|---|
| `finding_batch_unshare` | Unsharing seals the new key to everyone who holds an envelope, the removed user included: the share row goes, the access stays (`app.js:7426`; `docs/planning/crypto-design.md:109`). |
| `finding_stale_access` | The access list is of whichever panel was drawn last: a rotation after a member left seals to another secret's recipients (`app.js:7000`). |
| `finding_wrong_secret` | A secret opened while an unshare waits for keys becomes the target of the rotation (`app.js:7040`). |
| `finding_wrong_key` | Another secret becomes current while a form is encrypted: the payload is stored under the other's key (`app.js:5181`). |
| `finding_panel_stuck` | A member's removal saves the busy flag of a running access change and puts it back after that ended (`app.js:7743`). |

### Proofs

`WebVault_proofs`, for any secrets, users, groups, slots, pages and bounds (the assumption
is the module's, `WebVaultAssumption`: the sets are finite, the bounds are numbers):

* `WebVaultTypes`: `Spec => []TypeOK`.
* `EnvelopesHoldOneKey`: `Spec => []EnvelopesAgree`.
* `QuietListTrue`: `Spec => []QuietListIsTrue`.

`EnvelopesAgree` alone is not inductive: a share posts a key and a version that were
read before other awaits, and the server compares the version only. What makes
it right is a promise about everything read, the invariant `Good`:

* `Server`: types; no version is higher than the rotations so far.
* `Dated`, of every answer, wherever it is kept: no answer is ahead of the server,
  and one of the version the server has carries that version's key. So a key
  that is posted with its version is the right one or is refused.
* `ScreenOK`: the rows and the current secret are such answers; `Holds`: so is what a
  handler holds when its next step posts it, and the batches hold only what opened.
* `Ordered`: which step of a program may follow which, so that what a step
  leaves in `got` is for the next one. It replaces an inspection of each program
  at each of its steps: `Programs` shows it of every program once, `SuffixOrdered`
  that it stays.

`Quiet` adds what `QuietListIsTrue` needs: as long as the list counts as quiet, at most one load is
under way, and it continues where the rows end. It rests on `Ordered` too: a
reset is always followed by its page. TLC found both to be invariants of the
instance of `webvault` before they were proved. Handlers are proved in four kinds,
by what they change (`...Good` for `Good`, `...Mind` and `...Quiet` for `Quiet`): the clicks, the
readers, the writers, and those that change what is current.

`HandlersEnd` is only model-checked.

The user owns all secrets, so that every button is enabled; search, filters,
sorting by the user, favourites and the administration pages are left out.

## 9. The browser extension: `Extension`

`vault` is the server, `session` whose cookie the browser holds, `page` the origin
of the active tab, `pop` the popup's state and visible sections, `job` the one
refresh that runs, `unlocking` and `task` the other handlers between two awaits.
Closing the popup loses all but the cookie. Comparison of addresses is by origin.

`extension` (`MCExtension`): 2 accounts, one with a second factor, one with two
tenants; 2 origins, 2 secrets, pages of one row, 2 events (navigations, changes of
the vault, lost requests, locks, reopenings). `FilledWhereAllowed`: text is typed
only into the page that was active at the click and that the entry allowed when it
was listed. `ListCatchesUp` is checked under weak fairness of the refresh's
answers, of the timer of the cool-down and of the focus: the user looks at the
popup again and again. Nothing else is assumed of the user.

`Extension_proofs` proves `TypedWhereAllowed`: `Spec => []FilledWhereAllowed`, for any
secrets, origins, accounts and bounds. The property speaks of the moment before the page
types; the invariant `TaskInvariant` follows the click there: a Fill or Copy that waits was
allowed where it was asked (`AskedAllowed`), and a message that is sent names the origin of
the click (`SentToAsked`), so the page's own look at its origin closes the gap in
which the tab navigates.

`ExtensionTypes`: `Spec => []TypeOK`, whose part worth proving is that the paging stops:
the offset of a refresh never runs past the list by more than a page, although the list
changes between two pages. The step argues from the page that was not the last: it was
not empty, so the list it was cut from was longer than the old offset; that list is the
vault's, without repetitions (`VaultType`), less the rows the caller may not read
(`WithoutKeeps`), so it is no longer than there are secrets (`ListLength`). The set of
secrets is finite (`ExtensionAssumption`): they are rows of a table. `StateInvariant`
adds to `TypeOK` what the steps between need, the fields of a refresh at each of its
awaits among them (`JobType`); TLC found it an invariant of the instance of
`extension`. `Without` is a recursive function; its lemmas use the
first-order induction of section 10. `ListCatchesUp` is liveness and stays with TLC.

With `MCExtension` and TLC's option `-continue`, `finding_popup` shows two things: a
refresh that runs on over a lock and puts titles and hosts back into the wiped
popup (`LockedListIsEmpty`; `popup.js:628`,
`docs/extension-store/chrome-store.md:55`), and a payload filled into a page it does
not name, because its entry did not open at the refresh and an entry without
origins is allowed everywhere (`FilledForItsUrls`; `popup.js:467`,
`docs/extension-guide.md:97`).

## 10. Formats: `ImportExport` and `QRCode`

A text is a sequence of the characters the code tells apart, members of the constant
`Chars` (`"sp"` a blank, `"nl"` a line break, `"q"` a quote, `"comma"` and `"semi"` the
separators); a JSON or XML file is the value it holds. `ImportExportAssumption` says
what is given: `Chars` has these characters, and `Forms`, `Folders` and `Logins` hold
texts over it (a form is any list of the rows of `EXTRA_ADD_OPTIONS`). What runs over a
text character by character (`Split`, `Doubled`, `Scanned`) or over a list (`Without`,
`Distinct`, `AddAll`) is a recursive function of the position, one step per round of the
code's loop: a proof follows these steps, as it could not those of a library's fold. The
module has the form and its fields, `toTeamVaultJSON`,
`toBitwardenJSON`, `toCSV` and the backup, the parsers, the preview and the import
loop with lost posts and a list that does not load. The files of other programs are
external: `Layout` and `ForeignFile` write them as the repository's own test
expects them.

A label of a field the form makes goes through HTML: `addExtraSlot` writes it into the
value of an input and escapes only the quote (`app.js:2129`), so the browser decodes a
reference that the label has of its own. `AsAttribute` and `AttributeRead` are these two
steps; one character, `ref`, stands for every reference. A label `A&lt;B` is therefore
`A<B` after opening and saving the secret, and `EditKeepsPayload` says what is kept
nevertheless: every field, and of the extra fields number, order, types, values and the
labels without a reference, those with quotes included.

`QRCode` is the encoder from text to symbol for versions 1 to 16, each function of
the file an operator; the reader that the properties use is written from the
structure of a symbol and shares only the tables with it.

`formats` (`MCImportExport`): six forms that between them have quotes, separators,
references, line breaks, blanks, several and labelled fields; two folders, eight logins in the
formats of seven programs, exports of up to two rows, up to four posts; and texts
that fill version 1, overflow it by a byte, have the length of an otpauth URL, the
first two-byte length with uneven blocks, and are too long. A text that parses
differently from what was written needs one of these characters in one field; two
rows show an end of a row that is missed. The inputs of the run are these sets; for all
forms, texts and logins the four properties of `ImportExport` are proved, below.

A CSV file cannot hold everything: a row ends at a line break even in quotes, cells are
trimmed, and tags are separated by commas, which a folder's name may have and a tag
may not. `CsvKeeps` speaks of the rows it can hold (`FitsCsv`: texts that are
trimmed and of one line, no comma in a folder), `LoginsArrive` of the logins a file
of another program can (`FitsFile`: trimmed and of one line, with one address). The
backup, the vault's own export and the Bitwarden file have no such condition. `TypeOK` of `ImportExport` holds of the same instance.

### Proofs

`ImportExport_proofs`, for any forms, folders, entries of other programs and bounds:

* `ImportTypes`: `Spec => []TypeOK`. The loop posts only what is in the preview, and
  every secret it posts has a title, whatever the file was: every parser
  ends in `NormalizeItem` (`ParsedItems`).
* `NothingImportedTwice`: `Spec => []ImportedOnce`. It is not inductive: what keeps
  the second click from posting an item in full is that the item is empty by then.
  `Spent` says so of every item that was posted, as long as there is a preview; a new
  preview is only made before the first import (`OutsideLoop`). The lemmas about items
  (`WipedItem`, `ImportedItem`) say that wiping empties the password and that the
  conversion to a payload keeps it.

* `BackupsRestore`: `Spec => []BackupRestores`. `FileInvariant` follows a secret from the
  form into the file, the preview and the vault again: every row is a title and a payload
  the form can make (`Rows`), the file is what `Written` or `Wrapped` makes of the
  rows or comes from another program (`Origin`), the preview shows the items of the file,
  emptied where they were posted (`Shown`), and what was posted in full is the
  import of such an item (`Posted`). What is left is a fact about the conversions:
  an item that was made of a payload of the form becomes that payload again
  (`ItemComesBack`), for a form's addresses, tags and seed are trimmed, not empty, and
  its tags are different (`FormPayloads`).
* `OtherFormatsRestore`: `Spec => []OtherFormatsKeep`, by the same invariant. For a CSV
  file it reads back what was written, from the inside out: `splitRow` takes a
  quoted cell apart from its doubled quotes (`ScanCell`), a row is its cells, the file its
  rows (`FileRead`), every column is found by its name (`HeaderNamed`, `CellFound`), and
  tags joined with commas are split into the same tags (`TagsRead`).
* `EditsKeep`: `Spec => []EditKeepsPayload`. The form is filled from a payload one slot
  at a time and refuses a second slot of a type there can be one of; what is read out of
  it is, type by type, what was put in (`FormHydrated`, `OpeningRead`), but for the labels,
  which the browser has read once more (`Displayed`); a label without a reference is
  itself (`ShownLabel`).
* `LoginsComeIn`: `Spec => []LoginsArrive`. The invariant `Foreign` adds that a login's
  file is one of the programs' and that the preview is as long as the file. The rest is
  what each program's file reads as (`ChromeRead` to `ProtonRead`): the columns of
  `Layout` have different names, so each field is found in the first column that has
  one of its names (`CellIs`).

TLC found `ImportInvariant`, `FileInvariant` and `Foreign` to be invariants of the
instance of `formats` (up to three posts). The library's induction takes the property as a parameter, which the
provers cannot instantiate. These proofs do with the first-order form: a set of numbers
has a least member (`Least`, from `NatLessThanWellFounded`), so a set that has 0 and
with a number the next has them all (`Induct`), and a set that has the empty sequence
and with a sequence each one longer has all sequences (`SeqInduct`). `Folds` says what
a recursive function of the position is (that such a function exists, that it stays in a
set its steps stay in, that one more element is one more step), and every function of
the model is one.

* `finding_qr` (a listed run): `BlocksAreCodewords` is violated. The division that
  makes the correction words reads the generator's coefficients in the wrong order
  (`qrcode.js:46`), so no block is a word of the code. `TextReadsBack` holds: a reader
  that does not check finds the text. The browser draws such a symbol only where
  the server sent no picture of its own (`app.js:1394`, `app.js:4300`).
* `finding_1pux` (with `MCImportExport`): a 1PUX item gets its user name as password
  (`import-parse.js:98`; the user guide, line 170).

## 11. What is proved, what is only checked, what is neither

Proved statements are about the models: that the models are the code rests on
the map in `PROJECT.json`, which names the lines of every definition.

| | Proved for every instance | Model-checked only |
|---|---|---|
| Secrets | types, `RevokedStaysRevoked`, `NoEscalation`; for one request at a time `OldVersionsInvalid`, `EnvelopesOpen`, `RotationLeavesItsRecipients`, `VisibilityMatchesShares`, `StraysExplained`, `GrantsWithinOwn` | `MembersGetEnvelopes` |
| Sessions | types, `OnlyLiveSessionsAccepted`, and without failing writes `RevokedSessionsStayOut`, `RememberedLoginsSurvive` | |
| Login | types, `TotpCodesUsedOnce`, `OneSessionPerCode`, and for one request at a time `SessionsFollowAccount` | |
| Offline copies | types, `CopyOpens`, `LockedHoldsNoKeys`, `SyncFollowsList`, `PolicyAskedLast`, and that they implement `CopyShelf` | |
| Unlocked vault | types, `EnvelopesAgree`, `QuietListIsTrue` | `HandlersEnd` |
| Vault keys | types, `PasswordOpens`, and for one request at a time `KeysAgree`, `RecoveryReady`, `ParamsAgree`, `SecretsOpen` | |
| Extension | types, `FilledWhereAllowed` | `ListCatchesUp` |
| Formats | types of the import, `ImportedOnce`, `BackupRestores`, `OtherFormatsKeep`, `LoginsArrive`, `EditKeepsPayload` | `TextReadsBack` |

Liveness under fairness (`MembersGetEnvelopes`, `HandlersEnd`, `ListCatchesUp`)
cannot be proved with the provers used, nor anything in `QRCode`, which uses bitwise
operators.

Hazards without a property, with the reason in `PROJECT.json`: those the code does
not survive (the note says which unlisted configuration shows it), and the configuration bundle,
which is not modelled.

### Not modelled

* The JSON store: the same operations on one document in memory, with a flush
  after each; next in the plan.
* The configuration bundle (policies, API keys, tenants) that overlapping requests
  read, change and write back; backup, restore and the switch of the store.
* LDAP: the directory decides, and is not in the repository.
* The desktop client and the command-line client: the web client's operations in
  other languages; what their requests do is in `SecretSharing`.
* The cryptographic core, the arithmetic of Shamir's scheme, password hashing: the
  models say what opens what. The field of the shares has 256 elements and no state.
* The rate limiter of the login, the sign counters of passkeys.
* Audit log, mail, downloads, headers, service worker, packaging, documentation:
  no state another part depends on.
