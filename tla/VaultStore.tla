----------------------------- MODULE VaultStore -----------------------------
(***************************************************************************)
(* The tables of the vault store that decide who can open one secret of    *)
(* one tenant, and the store's write operations on them.                   *)
(*                                                                         *)
(* internal/store/store.go declares the interface VaultStore; this module  *)
(* is the SQLite implementation of it, in which every operation below is   *)
(* one statement or one transaction: it happens entirely or, when it       *)
(* returns an error, not at all.  The module follows one secret, whose     *)
(* creator is Owner; the store keeps secrets apart by the primary key      *)
(* (tenant_id, secret_id), and the only operations that touch several of   *)
(* them (removing a group member, deleting a group) treat each alike.      *)
(*                                                                         *)
(* What is encrypted is represented by the data key (DK) it is sealed      *)
(* under, a natural number that names the request that generated the key;  *)
(* 0 is no key.                                                            *)
(***************************************************************************)
EXTENDS Naturals

CONSTANTS
  Users,        \* accounts of the tenant
  Owner,        \* the user that creates the secret (secrets.created_by)
  Groups,       \* groups of the tenant
  MaxVersion    \* bound on key_version (a uint32 in the code)

ASSUME UsersAssumption == Owner \in Users
ASSUME VersionAssumption == MaxVersion \in Nat \ {0}

VARIABLES
  meta,      \* secrets: visibility and the DK of title_ciphertext
  blob,      \* secret_ciphertext: key_version and the DK of ciphertext
  envs,      \* key_envelopes, by its key (user_id, key_version)
  directs,   \* secret_direct_shares: capability by user
  gshares,   \* secret_group_shares: capability by group
  members    \* group_members

storeVars == <<meta, blob, envs, directs, gshares, members>>

-----------------------------------------------------------------------------
(* Rows.  A table without the row holds the value that stands for absence. *)

Versions == 1 .. MaxVersion
Visibilities == {"private", "shared"}
Capabilities == {"read", "write", "share", "admin"}

NoMeta == [vis |-> "none", title |-> 0]
NoBlob == [kv |-> 0, dk |-> 0]
NoEnvelope == [state |-> "absent", dk |-> 0]

MetaRow == [vis : Visibilities \cup {"none"}, title : Nat]
BlobRow == [kv : 0 .. MaxVersion, dk : Nat]
EnvelopeRow == [state : {"absent", "live", "revoked"}, dk : Nat]

StoreTypeOK ==
  /\ meta \in MetaRow
  /\ blob \in BlobRow
  /\ envs \in [Users \X Versions -> EnvelopeRow]
  /\ directs \in [Users -> Capabilities \cup {"none"}]
  /\ gshares \in [Groups -> Capabilities \cup {"none"}]
  /\ members \in [Groups -> SUBSET Users]

StoreInit ==
  /\ meta = NoMeta
  /\ blob = NoBlob
  /\ envs = [row \in Users \X Versions |-> NoEnvelope]
  /\ directs = [u \in Users |-> "none"]
  /\ gshares = [g \in Groups |-> "none"]

-----------------------------------------------------------------------------
(* Reads.                                                                  *)

MetaExists == meta # NoMeta
BlobExists == blob # NoBlob

\* ListKeyEnvelopes returns the rows that are not revoked.
Live(u, k) == envs[<<u, k>>].state = "live"
Revoked(u, k) == envs[<<u, k>>].state = "revoked"
LiveVersions(u) == {k \in Versions : Live(u, k)}
HasEnvelope(u) == LiveVersions(u) # {}

MembersOf(gs) == UNION {members[g] : g \in gs}

\* CapRank.  NormalizeCapability turns the empty capability into "write", so
\* the rank of no capability is the rank of "write" and never 0.
CapRank(c) == CASE c = "read"  -> 1
                [] c = "share" -> 3
                [] c = "admin" -> 4
                [] OTHER       -> 2

CapAtLeast(have, want) == CapRank(have) >= CapRank(want)

-----------------------------------------------------------------------------
(* Writes to key_envelopes.                                                *)

\* A fault: the store does not look whether the row is revoked.
RefusesNoEnvelopes(to, k) == FALSE

\* PutKeyEnvelope answers ErrRevokedEnvelope for a row that is revoked.
RefusesEnvelopes(to, k) == \E u \in to : Revoked(u, k)

EnvelopesPut(table, to, k, dk) ==
  [row \in Users \X Versions |->
     IF row[1] \in to /\ row[2] = k
     THEN [state |-> "live", dk |-> dk]
     ELSE table[row]]

\* UPDATE key_envelopes SET revoked = 1 for the rows selected.
EnvelopesRevoked(table, us, ks) ==
  [row \in Users \X Versions |->
     IF row[1] \in us /\ row[2] \in ks /\ table[row].state # "absent"
     THEN [table[row] EXCEPT !.state = "revoked"]
     ELSE table[row]]

-----------------------------------------------------------------------------
(* Write operations, each a transaction.                                   *)

\* CreateSecret: three INSERTs, so it only succeeds for a fresh id.
CreateSecret(vis, dk, to) ==
  /\ meta' = [vis |-> vis, title |-> dk]
  /\ blob' = [kv |-> 1, dk |-> dk]
  /\ envs' = EnvelopesPut(envs, to, 1, dk)
  /\ UNCHANGED <<directs, gshares, members>>

\* PutSecretMeta and PutSecretCiphertext are upserts.
PutSecretMeta(vis, title) ==
  /\ meta' = [vis |-> vis, title |-> title]
  /\ UNCHANGED <<blob, envs, directs, gshares, members>>

PutSecretCiphertext(k, dk) ==
  /\ blob' = [kv |-> k, dk |-> dk]
  /\ UNCHANGED <<meta, envs, directs, gshares, members>>

\* ShareSecret: envelopes and direct-share rows.
ShareSecret(to, k, dk, grantees, cap) ==
  /\ envs' = EnvelopesPut(envs, to, k, dk)
  /\ directs' = [u \in Users |-> IF u \in grantees THEN cap ELSE directs[u]]
  /\ UNCHANGED <<meta, blob, gshares, members>>

\* ShareSecretGroup: envelopes and the group-share row.
ShareSecretGroup(to, k, dk, g, cap) ==
  /\ envs' = EnvelopesPut(envs, to, k, dk)
  /\ gshares' = [gshares EXCEPT ![g] = cap]
  /\ UNCHANGED <<meta, blob, directs, members>>

\* Faults of a rotation: it leaves the old envelopes live, it revokes the new
\* ones, it keeps the title as it was, it counts the version up once more.
RotateWithoutRevoking(old, vis, k, dk, to) ==
  /\ meta' = [vis |-> vis, title |-> dk]
  /\ blob' = [kv |-> k, dk |-> dk]
  /\ envs' = EnvelopesPut(envs, to, k, dk)
  /\ UNCHANGED <<directs, gshares, members>>

RotateRevokingNew(old, vis, k, dk, to) ==
  /\ meta' = [vis |-> vis, title |-> dk]
  /\ blob' = [kv |-> k, dk |-> dk]
  /\ envs' = EnvelopesRevoked(EnvelopesPut(envs, to, k, dk), Users, {k})
  /\ UNCHANGED <<directs, gshares, members>>

RotateKeepingTitle(old, vis, k, dk, to) ==
  /\ meta' = [meta EXCEPT !.vis = vis]
  /\ blob' = [kv |-> k, dk |-> dk]
  /\ envs' = EnvelopesPut(EnvelopesRevoked(envs, Users, {old}), to, k, dk)
  /\ UNCHANGED <<directs, gshares, members>>

RotateCountingAgain(old, vis, k, dk, to) ==
  /\ meta' = [vis |-> vis, title |-> dk]
  /\ blob' = [kv |-> k + 1, dk |-> dk]
  /\ envs' = EnvelopesPut(EnvelopesRevoked(envs, Users, {old}), to, k, dk)
  /\ UNCHANGED <<directs, gshares, members>>

\* RotateSecret: revoke the envelopes of the version the caller names, then
\* write meta, ciphertext and the new envelopes.
RotateSecret(old, vis, k, dk, to) ==
  /\ meta' = [vis |-> vis, title |-> dk]
  /\ blob' = [kv |-> k, dk |-> dk]
  /\ envs' = EnvelopesPut(EnvelopesRevoked(envs, Users, {old}), to, k, dk)
  /\ UNCHANGED <<directs, gshares, members>>

PutSecretDirectShare(u, cap) ==
  /\ directs' = [directs EXCEPT ![u] = cap]
  /\ UNCHANGED <<meta, blob, envs, gshares, members>>

PutSecretGroupShare(g, cap) ==
  /\ gshares' = [gshares EXCEPT ![g] = cap]
  /\ UNCHANGED <<meta, blob, envs, directs, members>>

DeleteSecretDirectShare(u) == PutSecretDirectShare(u, "none")
DeleteSecretGroupShare(g) == PutSecretGroupShare(g, "none")

DeleteSecret ==
  /\ meta' = NoMeta
  /\ blob' = NoBlob
  /\ envs' = [row \in Users \X Versions |-> NoEnvelope]
  /\ directs' = [u \in Users |-> "none"]
  /\ gshares' = [g \in Groups |-> "none"]
  /\ UNCHANGED members

AddGroupMember(g, u) ==
  /\ members' = [members EXCEPT ![g] = @ \cup {u}]
  /\ UNCHANGED <<meta, blob, envs, directs, gshares>>

\* RemoveGroupMemberWithRevoke: on a secret shared with the group, all live
\* envelopes of the user are revoked unless a direct share remains.
RemoveGroupMember(g, u) ==
  /\ members' = [members EXCEPT ![g] = @ \ {u}]
  /\ envs' = IF gshares[g] # "none" /\ directs[u] = "none"
             THEN EnvelopesRevoked(envs, {u}, Versions)
             ELSE envs
  /\ UNCHANGED <<meta, blob, directs, gshares>>

\* DeleteGroup: memberships and group shares go, the envelopes stay.
DeleteGroup(g) ==
  /\ members' = [members EXCEPT ![g] = {}]
  /\ gshares' = [gshares EXCEPT ![g] = "none"]
  /\ UNCHANGED <<meta, blob, envs, directs>>
=============================================================================
