--------------------------- MODULE SecretSharing ---------------------------
(***************************************************************************)
(* The requests that create, read, share, change, rotate and delete one    *)
(* secret, and the administrative requests that change who belongs to the  *)
(* groups it is shared with: internal/server/phase5.go and phase12.go,     *)
(* driven by the clients as web/static/app.js drives them.                 *)
(*                                                                         *)
(* net/http runs every request in a goroutine of its own, and no handler   *)
(* takes a lock: between two calls of the store any other request may run. *)
(* A process stands for one client with the request it has in flight; it   *)
(* moves through the client's reads and the handler's calls of the store   *)
(* one at a time, and keeps in req what it read on the way.                *)
(***************************************************************************)
EXTENDS VaultStore

CONSTANTS
  Procs,      \* requests that can be in flight at the same time
  Ops,        \* kinds of operation that occur in this instance
  OwnerCaps,  \* capabilities the owner grants when sharing
  PeerCaps    \* capabilities that other users ask for when they share

AllOps == {"create", "share", "sharegroup", "reseal", "update", "rotate",
           "batchunshare", "delete", "abort", "dberror", "addmember", "removemember",
           "deletegroup", "disable", "onboard"}

ASSUME OpsAssumption == Ops \subseteq AllOps
ASSUME CapsAssumption ==
  OwnerCaps \subseteq Capabilities /\ PeerCaps \subseteq Capabilities

VARIABLES
  status,     \* of each account: pending until onboarded, active, disabled
  keys,       \* data keys generated so far
  req         \* the request of each process

vars == <<meta, blob, envs, directs, gshares, members, status, keys, req>>

-----------------------------------------------------------------------------
(* Requests.                                                               *)

RequestOps == {"create", "share", "sharegroup", "reseal", "update",
               "rotate", "delete", "none"}

Labels == {"idle", "get", "getblob", "open", "access", "gapenvs", "gapversions",
           "auth", "cap", "blob", "meta", "commit", "putblob", "drop",
           "sync", "putmeta", "users", "groups"}

Request == [op : RequestOps, pc : Labels, u : Users,
            kv : 0 .. MaxVersion, dk : Nat, \* version and key it will send
            pdk : Nat,                      \* key of the payload it read
            to : SUBSET Users,              \* recipients of its envelopes
            users : SUBSET Users,           \* users to share with or to drop
            groups : SUBSET Groups,         \* groups to share with or to drop
            cap : Capabilities \cup {"none"},
            batch : BOOLEAN,                \* a rotation of the batch panel
            old : 0 .. MaxVersion,          \* oldBlob.KeyVersion
            vis : Visibilities \cup {"none"}, title : Nat] \* copy of meta

Statuses == {"pending", "active", "disabled"}

\* recipientShareable: onboarded, with a public key, not disabled.  Only such
\* a user gets through requireOnboarded, so only they send requests.
Shareable == {u \in Users : status[u] = "active"}

Idle == [op |-> "none", pc |-> "idle", u |-> Owner, kv |-> 0, dk |-> 0,
         pdk |-> 0, to |-> {}, users |-> {}, groups |-> {}, cap |-> "none",
         batch |-> FALSE, old |-> 0, vis |-> "none", title |-> 0]

TypeOK ==
  /\ StoreTypeOK
  /\ status \in [Users -> Statuses]
  /\ keys \in 0 .. MaxVersion
  /\ req \in [Procs -> Request]

Init ==
  /\ StoreInit
  /\ members \in [Groups -> SUBSET Users]
  /\ status \in [Users -> {"pending", "active"}]
  /\ status[Owner] = "active"
  /\ keys = 0
  /\ req = [p \in Procs |-> Idle]

Become(p, r) == req' = [req EXCEPT ![p] = r]
Finish(p) == Become(p, Idle)
Goto(p, label) == Become(p, [req[p] EXCEPT !.pc = label])

\* The request of p is at this label.
At(p, label) == req[p].pc = label

-----------------------------------------------------------------------------
(* Who may do what.                                                        *)

Granted(u) ==
  ({directs[u]} \cup {gshares[g] : g \in {h \in Groups : u \in members[h]}})
    \ {"none"}

\* callerEffectiveCapability: best starts as the empty capability, and only a
\* capability of a higher rank replaces it.
EffectiveCap(u) ==
  LET better == {c \in Granted(u) : CapRank(c) > CapRank("none")}
  IN  IF MetaExists /\ u = Owner THEN "admin"
      ELSE IF better # {} THEN CHOOSE c \in better :
                                 \A d \in better : CapAtLeast(c, d)
      ELSE IF HasEnvelope(u) THEN "read"
      ELSE "none"

HasCap(u, want) ==
  EffectiveCap(u) # "none" /\ CapAtLeast(EffectiveCap(u), want)

MaySign(r) == r.u \in Shareable /\ HasEnvelope(r.u)

\* A fault: any capability may be granted.
MayGrantAnything(u, cap) == TRUE

\* "cannot grant capability above own".
MayGrant(u, cap) == CapAtLeast(EffectiveCap(u), cap)

\* The checks each handler makes before it reads the ciphertext.
Authorized(r) ==
  CASE r.op = "share"  -> /\ MaySign(r)
                          /\ HasCap(r.u, "share")
                          /\ MayGrant(r.u, r.cap)
    [] r.op = "update" -> MaySign(r) /\ HasCap(r.u, "write")
    [] r.op = "rotate" -> MaySign(r) /\ HasCap(r.u, "admin")
    [] r.op = "delete" -> MaySign(r) /\ HasCap(r.u, "admin")
    [] r.op \in {"sharegroup", "reseal"} ->
         /\ MaySign(r)
         /\ \A g \in r.groups :
              IF gshares[g] # "none"
              THEN r.op = "reseal" \/ MayGrant(r.u, r.cap)
              ELSE /\ HasCap(r.u, "share")
                   /\ MayGrant(r.u, r.cap)
    [] OTHER -> FALSE

-----------------------------------------------------------------------------
(* The client: what it reads before it sends its request.                  *)

BeginCreate(p, us, gs, cap) ==
  /\ "create" \in Ops /\ At(p, "idle") /\ keys = 0
  /\ Owner \in Shareable /\ us \subseteq Shareable \ {Owner}
  /\ keys' = 1
  /\ Become(p, [Idle EXCEPT
       !.op = "create", !.pc = "commit", !.kv = 1, !.dk = 1,
       !.to = {Owner} \cup us \cup (Shareable \cap MembersOf(gs)),
       !.users = us, !.groups = gs, !.cap = cap,
       !.vis = IF us = {} /\ gs = {} THEN "private" ELSE "shared"])
  /\ UNCHANGED <<storeVars, status>>

BeginShare(p, u, to, cap) ==
  /\ "share" \in Ops /\ At(p, "idle")
  /\ u \in Shareable /\ to \in Shareable \ {u}
  /\ Become(p, [Idle EXCEPT !.op = "share", !.pc = "get", !.u = u,
                           !.to = {to}, !.cap = cap])
  /\ UNCHANGED <<storeVars, status, keys>>

BeginShareGroup(p, u, g, cap) ==
  /\ "sharegroup" \in Ops /\ At(p, "idle") /\ u \in Shareable
  /\ Become(p, [Idle EXCEPT !.op = "sharegroup", !.pc = "get", !.u = u,
                           !.groups = {g}, !.cap = cap])
  /\ UNCHANGED <<storeVars, status, keys>>

\* sealGroupShareGaps: runs after unlock and after a member was added.
BeginReseal(p, u, g) ==
  /\ "reseal" \in Ops /\ At(p, "idle") /\ u \in Shareable
  /\ Become(p, [Idle EXCEPT !.op = "reseal", !.pc = "gapenvs", !.u = u,
                           !.groups = {g}])
  /\ UNCHANGED <<storeVars, status, keys>>

BeginUpdate(p, u) ==
  /\ "update" \in Ops /\ At(p, "idle") /\ u \in Shareable
  /\ Become(p, [Idle EXCEPT !.op = "update", !.pc = "get", !.u = u])
  /\ UNCHANGED <<storeVars, status, keys>>

\* A rotation under a new key that drops the shares of some users and groups.
BeginRotation(p, u, us, gs, batch) ==
  /\ At(p, "idle") /\ u \in Shareable
  /\ keys \in 1 .. MaxVersion - 1
  /\ keys' = keys + 1
  /\ Become(p, [Idle EXCEPT !.op = "rotate", !.pc = "get", !.u = u,
                           !.dk = keys + 1, !.users = us, !.groups = gs,
                           !.batch = batch])
  /\ UNCHANGED <<storeVars, status>>

\* unshareSecret; with nothing to drop it is rotateSecretExcludingUser.
BeginRotate(p, u, us, gs) ==
  "rotate" \in Ops /\ BeginRotation(p, u, us, gs, FALSE)

\* unshareSecretByTarget: one user or one group, on the secrets selected.
BeginBatchUnshare(p, u, us, gs) ==
  "batchunshare" \in Ops /\ BeginRotation(p, u, us, gs, TRUE)

BeginDelete(p, u) ==
  /\ "delete" \in Ops /\ At(p, "idle") /\ u \in Shareable
  /\ Become(p, [Idle EXCEPT !.op = "delete", !.pc = "auth", !.u = u])
  /\ UNCHANGED <<storeVars, status, keys>>

\* ListKeyEnvelopes of the secret: who has a live envelope.
Holders == {u \in Users : HasEnvelope(u)}

\* handleGetSecret: the metadata, ...
GetSecretMeta(p) ==
  /\ At(p, "get")
  /\ IF MetaExists
     THEN Become(p, [req[p] EXCEPT !.title = meta.title, !.pc = "getblob"])
     ELSE Finish(p)
  /\ UNCHANGED <<storeVars, status, keys>>

\* ... the ciphertext ...
GetSecretCiphertext(p) ==
  /\ At(p, "getblob")
  /\ IF BlobExists
     THEN Become(p, [req[p] EXCEPT !.kv = blob.kv, !.pdk = blob.dk,
                                   !.pc = "open"])
     ELSE Finish(p)
  /\ UNCHANGED <<storeVars, status, keys>>

\* ... and some live envelope of the caller, which the client opens.  Changing
\* and rotating decrypt title and payload with the key, and end when it is not
\* the key of both; sharing only wraps it again.  The answer names the holders
\* of live envelopes too (recipients), which the batch panel keeps.
OpenEnvelope(p) ==
  /\ At(p, "open")
  /\ LET r == req[p]
         opened == {envs[<<r.u, k>>].dk : k \in LiveVersions(r.u)}
     IN  \/ \E dk \in opened :
              IF r.op \in {"update", "rotate"} /\ {r.pdk, r.title} # {dk}
              THEN Finish(p)
              ELSE Become(p, [r EXCEPT
                     !.pdk = 0, !.title = 0,
                     !.dk = IF r.op = "rotate" THEN r.dk ELSE dk,
                     !.to = IF r.batch THEN Holders ELSE r.to,
                     !.pc = IF r.op \in {"rotate", "sharegroup"}
                            THEN "access" ELSE "auth"])
         \/ opened = {} /\ Finish(p)
  /\ UNCHANGED <<storeVars, status, keys>>

\* A fault: the users being dropped keep access by their direct shares.
KeepersWithDropped(r) ==
  {Owner, r.u}
    \cup {v \in Users : directs[v] # "none"}
    \cup (Shareable \cap MembersOf({g \in Groups \ r.groups :
                                     gshares[g] # "none"}))

\* The users that keep access when the others are dropped: owner, caller,
\* direct shares that stay and members of the groups that stay.
Keepers(r) ==
  {Owner, r.u}
    \cup {v \in Users \ r.users : directs[v] # "none"}
    \cup (Shareable \cap MembersOf({g \in Groups \ r.groups :
                                     gshares[g] # "none"}))

\* Whom a rotation seals to.  The batch panel adds the recipients it read, as
\* far as public-keys lists them, and so the very user it is to drop.
Recipients(r) == Keepers(r) \cup (r.to \cap Shareable)

\* The batch panel goes on only where the user or the group has a share.
StillShared(r) == /\ \A u \in r.users : directs[u] # "none"
                  /\ \A g \in r.groups : gshares[g] # "none"

\* GET access, group-member-keys and public-keys: whom to seal to.  A keeper
\* without a public key in the listing ends the rotation.
ReadAccess(p) ==
  /\ At(p, "access")
  /\ IF req[p].op = "sharegroup"
     THEN LET to == Shareable \cap MembersOf(req[p].groups)
          IN  IF to = {} THEN Finish(p)
              ELSE Become(p, [req[p] EXCEPT !.to = to, !.pc = "auth"])
     ELSE IF /\ Recipients(req[p]) \subseteq Shareable
             /\ req[p].batch => StillShared(req[p])
             /\ req[p].kv < MaxVersion
          THEN Become(p, [req[p] EXCEPT !.to = Recipients(req[p]),
                                        !.kv = @ + 1, !.pc = "auth"])
          ELSE Finish(p)
  /\ UNCHANGED <<storeVars, status, keys>>

\* A fault: a revoked envelope counts as one.
WithoutRow == {u \in Users : \A k \in Versions : ~Live(u, k) /\ ~Revoked(u, k)}

WithoutEnvelope == {u \in Users : ~HasEnvelope(u)}

\* handleGroupShareGaps reads the shares and all live envelopes, and answers
\* with one of the caller's envelopes and the users that have none ...
ReadGapEnvelopes(p) ==
  /\ At(p, "gapenvs")
  /\ \/ /\ \A g \in req[p].groups : gshares[g] # "none"
        /\ \E k \in LiveVersions(req[p].u) :
             Become(p, [req[p] EXCEPT !.dk = envs[<<req[p].u, k>>].dk,
                                      !.to = WithoutEnvelope,
                                      !.pc = "gapversions"])
     \/ /\ \/ \E g \in req[p].groups : gshares[g] = "none"
           \/ ~HasEnvelope(req[p].u)
        /\ Finish(p)
  /\ UNCHANGED <<storeVars, status, keys>>

\* ... then the key version of the ciphertext and the group's members.
ReadGapVersions(p) ==
  /\ At(p, "gapversions")
  /\ LET to == req[p].to \cap Shareable \cap MembersOf(req[p].groups)
     IN  IF to # {} /\ BlobExists
         THEN Become(p, [req[p] EXCEPT !.to = to, !.kv = blob.kv,
                                       !.pc = "auth"])
         ELSE Finish(p)
  /\ UNCHANGED <<storeVars, status, keys>>

-----------------------------------------------------------------------------
(* The handlers.                                                           *)

Authorize(p) ==
  /\ At(p, "auth")
  /\ LET r == req[p]
         catchUp == r.op = "reseal" /\ \E g \in r.groups : gshares[g] # "none"
     IN  IF Authorized(r)
         THEN Become(p, [r EXCEPT
                !.cap = IF r.op = "reseal" THEN "write" ELSE r.cap,
                !.pc = CASE r.op = "delete" -> "commit"
                         [] catchUp         -> "cap"
                         [] OTHER           -> "blob"])
         ELSE Finish(p)
  /\ UNCHANGED <<storeVars, status, keys>>

\* handleShareGroup for a request that names no capability: it keeps the one
\* of the share, read again here, and "write" when there is none any more.
KeepCap(p, g) ==
  /\ At(p, "cap") /\ g \in req[p].groups
  /\ Become(p, [req[p] EXCEPT !.pc = "blob",
                               !.cap = IF gshares[g] = "none"
                                       THEN "write" ELSE gshares[g]])
  /\ UNCHANGED <<storeVars, status, keys>>

\* The error of that second read is ignored: the capability stays "write".
LoseCap(p) ==
  /\ "dberror" \in Ops /\ At(p, "cap")
  /\ Become(p, [req[p] EXCEPT !.pc = "blob", !.cap = "write"])
  /\ UNCHANGED <<storeVars, status, keys>>

\* The ciphertext's version decides whether the request is still current, and
\* the recipients of a share must be onboarded (and in the group).
ReadBlob(p) ==
  /\ At(p, "blob")
  /\ LET r == req[p]
         current == IF r.op = "rotate" THEN r.kv > blob.kv ELSE r.kv = blob.kv
         fit == CASE r.op = "share" -> r.to \subseteq Shareable
                  [] r.op \in {"sharegroup", "reseal"} ->
                       r.to \subseteq Shareable \cap MembersOf(r.groups)
                  [] OTHER -> TRUE
     IN  IF BlobExists /\ current /\ fit
         THEN Become(p, [r EXCEPT
                !.old = IF r.op = "rotate" THEN blob.kv ELSE 0,
                !.pc = IF r.op \in {"update", "rotate"}
                       THEN "meta" ELSE "commit"])
         ELSE Finish(p)
  /\ UNCHANGED <<storeVars, status, keys>>

\* Update and rotate take a copy of the metadata and put the new title in it;
\* a rotation must seal to the owner.
ReadMeta(p) ==
  /\ At(p, "meta")
  /\ IF MetaExists /\ (req[p].op = "rotate" => Owner \in req[p].to)
     THEN Become(p, [req[p] EXCEPT
            !.vis = meta.vis,
            !.title = req[p].dk,
            !.pc = IF req[p].op = "update" THEN "putmeta" ELSE "commit"])
     ELSE Finish(p)
  /\ UNCHANGED <<storeVars, status, keys>>

\* handleCreateSecret: the transaction, then the share markers one by one up
\* to the first recipient that is not shareable.
CommitCreate(p) ==
  /\ At(p, "commit") /\ req[p].op = "create"
  /\ CreateSecret(req[p].vis, req[p].dk, req[p].to)
  /\ Goto(p, "users")
  /\ UNCHANGED <<status, keys>>

PutCreateUser(p) ==
  /\ At(p, "users")
  /\ \/ req[p].users = {} /\ Goto(p, "groups") /\ UNCHANGED storeVars
     \/ \E u \in req[p].users :
          IF u \in Shareable
          THEN /\ PutSecretDirectShare(u, req[p].cap)
               /\ Become(p, [req[p] EXCEPT !.users = @ \ {u}])
          ELSE Finish(p) /\ UNCHANGED storeVars
  /\ UNCHANGED <<status, keys>>

PutCreateGroup(p) ==
  /\ At(p, "groups")
  /\ \/ req[p].groups = {} /\ Finish(p) /\ UNCHANGED storeVars
     \/ \E g \in req[p].groups :
          /\ PutSecretGroupShare(g, req[p].cap)
          /\ Become(p, [req[p] EXCEPT !.groups = @ \ {g}])
  /\ UNCHANGED <<status, keys>>

\* Answering 409: the store refused to revive a revoked envelope.
RefuseRevoked(p) ==
  /\ At(p, "commit") /\ req[p].op \notin {"create", "delete"}
  /\ RefusesEnvelopes(req[p].to, req[p].kv)
  /\ Finish(p)
  /\ UNCHANGED <<storeVars, status, keys>>

CommitShare(p) ==
  /\ At(p, "commit") /\ req[p].op = "share"
  /\ ~RefusesEnvelopes(req[p].to, req[p].kv)
  /\ ShareSecret(req[p].to, req[p].kv, req[p].dk,
                 req[p].to \ {req[p].u}, req[p].cap)
  /\ Goto(p, "sync")
  /\ UNCHANGED <<status, keys>>

CommitShareGroup(p, g) ==
  /\ At(p, "commit") /\ req[p].op \in {"sharegroup", "reseal"}
  /\ g \in req[p].groups
  /\ ~RefusesEnvelopes(req[p].to, req[p].kv)
  /\ ShareSecretGroup(req[p].to, req[p].kv, req[p].dk, g, req[p].cap)
  /\ Goto(p, "sync")
  /\ UNCHANGED <<status, keys>>

CommitRotate(p) ==
  /\ At(p, "commit") /\ req[p].op = "rotate"
  /\ ~RefusesEnvelopes(req[p].to, req[p].kv)
  /\ RotateSecret(req[p].old, req[p].vis, req[p].kv, req[p].dk, req[p].to)
  /\ Goto(p, "drop")
  /\ UNCHANGED <<status, keys>>

\* The share rows of the dropped users go one by one, then those of groups.
DropUser(p) ==
  /\ At(p, "drop")
  /\ \E u \in req[p].users :
       /\ DeleteSecretDirectShare(u)
       /\ Become(p, [req[p] EXCEPT !.users = @ \ {u}])
  /\ UNCHANGED <<status, keys>>

DropGroup(p) ==
  /\ At(p, "drop") /\ req[p].users = {}
  /\ \/ req[p].groups = {} /\ Goto(p, "sync") /\ UNCHANGED storeVars
     \/ \E g \in req[p].groups :
          /\ DeleteSecretGroupShare(g)
          /\ Become(p, [req[p] EXCEPT !.groups = @ \ {g}])
  /\ UNCHANGED <<status, keys>>

\* So are the errors of the deletions: the share row stays.
DropFails(p) ==
  /\ "dberror" \in Ops /\ At(p, "drop")
  /\ \/ \E u \in req[p].users :
          Become(p, [req[p] EXCEPT !.users = @ \ {u}])
     \/ /\ req[p].users = {}
        /\ \E g \in req[p].groups :
             Become(p, [req[p] EXCEPT !.groups = @ \ {g}])
  /\ UNCHANGED <<storeVars, status, keys>>

CommitDelete(p) ==
  /\ At(p, "commit") /\ req[p].op = "delete"
  /\ DeleteSecret
  /\ Finish(p)
  /\ UNCHANGED <<status, keys>>

\* A fault: a secret that only groups share counts as private.
SharedWithUsers(r) == r.op # "rotate" \/ \E u \in Users : directs[u] # "none"

\* After a share the secret is shared; after a rotation the rows decide.
SharedAfter(r) ==
  \/ r.op # "rotate"
  \/ \E u \in Users : directs[u] # "none"
  \/ \E g \in Groups : gshares[g] # "none"

\* syncSecretVisibility: reads the metadata and, after a rotation, the share
\* rows; a visibility that has to change is written back with the copy.
SyncRead(p) ==
  /\ At(p, "sync")
  /\ LET vis == IF SharedAfter(req[p]) THEN "shared" ELSE "private"
     IN  IF MetaExists /\ meta.vis # vis
         THEN Become(p, [req[p] EXCEPT !.vis = vis, !.title = meta.title,
                                       !.pc = "putmeta"])
         ELSE Finish(p)
  /\ UNCHANGED <<storeVars, status, keys>>

\* PutSecretMeta of the copy; an update goes on with the ciphertext.
PutMeta(p) ==
  /\ At(p, "putmeta")
  /\ PutSecretMeta(req[p].vis, req[p].title)
  /\ IF req[p].op = "update" THEN Goto(p, "putblob") ELSE Finish(p)
  /\ UNCHANGED <<status, keys>>

PutBlob(p) ==
  /\ At(p, "putblob")
  /\ PutSecretCiphertext(req[p].kv, req[p].dk)
  /\ Finish(p)
  /\ UNCHANGED <<status, keys>>

\* The request ends between two steps: the process dies, a call of the store
\* fails, or the client goes away and the request's context is cancelled.
Abort(p) ==
  /\ "abort" \in Ops /\ ~At(p, "idle")
  /\ Finish(p)
  /\ UNCHANGED <<storeVars, status, keys>>

-----------------------------------------------------------------------------
(* Administration: one call of the store each.                             *)

AddMember(g, u) ==
  /\ "addmember" \in Ops /\ u \notin members[g]
  /\ AddGroupMember(g, u)
  /\ UNCHANGED <<status, keys, req>>

RemoveMember(g, u) ==
  /\ "removemember" \in Ops /\ u \in members[g]
  /\ RemoveGroupMember(g, u)
  /\ UNCHANGED <<status, keys, req>>

RemoveGroup(g) ==
  /\ "deletegroup" \in Ops
  /\ DeleteGroup(g)
  /\ UNCHANGED <<status, keys, req>>

DisableUser(u) ==
  /\ "disable" \in Ops /\ status[u] # "disabled"
  /\ status' = [status EXCEPT ![u] = "disabled"]
  /\ UNCHANGED <<storeVars, keys, req>>

OnboardUser(u) ==
  /\ "onboard" \in Ops /\ status[u] = "pending"
  /\ status' = [status EXCEPT ![u] = "active"]
  /\ UNCHANGED <<storeVars, keys, req>>

-----------------------------------------------------------------------------
AskedCaps(u) == IF u = Owner THEN OwnerCaps ELSE PeerCaps

ClientBegins(p) ==
  \/ \E us \in SUBSET Users, gs \in SUBSET Groups, cap \in OwnerCaps :
       BeginCreate(p, us, gs, cap)
  \/ \E u \in Users :
       \/ \E to \in Users, cap \in AskedCaps(u) : BeginShare(p, u, to, cap)
       \/ \E g \in Groups :
            \/ \E cap \in AskedCaps(u) : BeginShareGroup(p, u, g, cap)
            \/ BeginReseal(p, u, g)
       \/ BeginUpdate(p, u)
       \/ \E us \in SUBSET Users, gs \in SUBSET Groups :
            BeginRotate(p, u, us, gs)
       \/ \E v \in Users : BeginBatchUnshare(p, u, {v}, {})
       \/ \E g \in Groups : BeginBatchUnshare(p, u, {}, {g})
       \/ BeginDelete(p, u)

RequestStep(p) ==
  \/ GetSecretMeta(p) \/ GetSecretCiphertext(p) \/ OpenEnvelope(p)
  \/ ReadAccess(p)
  \/ ReadGapEnvelopes(p) \/ ReadGapVersions(p)
  \/ Authorize(p) \/ (\E g \in Groups : KeepCap(p, g)) \/ LoseCap(p)
  \/ ReadBlob(p) \/ ReadMeta(p)
  \/ CommitCreate(p) \/ PutCreateUser(p) \/ PutCreateGroup(p)
  \/ RefuseRevoked(p) \/ CommitShare(p) \/ CommitRotate(p)
  \/ \E g \in Groups : CommitShareGroup(p, g)
  \/ DropUser(p) \/ DropGroup(p) \/ DropFails(p) \/ CommitDelete(p)
  \/ SyncRead(p) \/ PutMeta(p) \/ PutBlob(p)

\* An administrator's request occupies a process for its one step.
AdminStep(p) ==
  /\ At(p, "idle")
  /\ \/ \E g \in Groups, u \in Users : AddMember(g, u) \/ RemoveMember(g, u)
     \/ \E g \in Groups : RemoveGroup(g)
     \/ \E u \in Users : DisableUser(u) \/ OnboardUser(u)

Next ==
  \E p \in Procs :
    ClientBegins(p) \/ RequestStep(p) \/ Abort(p) \/ AdminStep(p)

Spec == Init /\ [][Next]_vars

(***************************************************************************)
(* Fairness, for the liveness property only.  A goroutine that serves a    *)
(* request is scheduled until the request is answered; and clients that    *)
(* hold the secret keep unlocking their vault, which runs                  *)
(* sealGroupShareGaps (strong fairness: the process is busy in between).   *)
(***************************************************************************)
Fairness ==
  /\ \A p \in Procs : WF_vars(RequestStep(p))
  /\ \A u \in Users, g \in Groups :
       SF_vars(\E p \in Procs : HasEnvelope(u) /\ BeginReseal(p, u, g))

FairSpec == Spec /\ Fairness

-----------------------------------------------------------------------------
(* Properties that hold however requests interleave.                       *)

\* An envelope that was revoked is never live again for its (user, version):
\* the only way out of "revoked" is the deletion of the whole secret.  A
\* member who was removed, or a user dropped by a rotation, cannot be handed
\* the old key again by a share that was still under way (PutKeyEnvelope and
\* its copies in RotateSecret and putKeyEnvelopeTx).
RevokedStaysRevoked ==
  [][\A u \in Users, k \in Versions :
       Revoked(u, k) => Revoked(u, k)' \/ ~BlobExists']_vars

\* No user other than the owner ever acts on the secret with a higher
\* capability than the owner hands out, whatever the recipients ask for and
\* in whatever order their shares, catch-ups and rotations interleave
\* (handleShareSecret and handleShareGroup: "cannot grant capability above
\* own").  Having an envelope counts as "read".
NoEscalation ==
  \A u \in Users \ {Owner} :
    \/ EffectiveCap(u) \in {"none", "read"}
    \/ \E c \in OwnerCaps : CapAtLeast(c, EffectiveCap(u))

-----------------------------------------------------------------------------
(* Properties of requests that do not overlap, that is, of one process.    *)

Quiescent == \A p \in Procs : At(p, "idle")

\* Whoever holds an envelope can open the secret, whether a share row says so
\* or not.
Stray(u) == HasEnvelope(u) /\ Granted(u) = {}

\* The envelopes that are live are those of the ciphertext's version: what a
\* rotation leaves behind opens nothing and authorises nobody.
OldVersionsInvalid ==
  \A u \in Users, k \in Versions : Live(u, k) => k = blob.kv

\* Every live envelope opens what is stored: the payload and the title.
EnvelopesOpen ==
  \A u \in Users, k \in Versions :
    Live(u, k) => envs[<<u, k>>].dk = blob.dk /\ envs[<<u, k>>].dk = meta.title

\* A rotation that ran to the removal of the dropped shares leaves exactly
\* the recipients it sealed to able to open the secret.
RotationLeavesItsRecipients ==
  [][\A p \in Procs :
       At(p, "drop") /\ At(p, "sync")' =>
         {u \in Users : HasEnvelope(u)'} = req[p].to]_vars

\* A user other than the owner comes to hold an envelope without any share in
\* one of four ways only: in the creation of the secret, whose share rows
\* follow its envelopes; when the batch panel drops a share (it seals the new
\* key to the user it drops); when the caller of a rotation drops its own; and
\* when a group is deleted with its shares.  In particular no other unshare,
\* catch-up, removal of a member or request that breaks off leaves one behind.
StraysExplained ==
  [][\A u \in Users \ {Owner} :
       Stray(u)' /\ ~Stray(u) =>
         \/ \E p \in Procs :
              /\ req'[p] # req[p]
              /\ \/ At(p, "commit") /\ req[p].op = "create"
                 \/ At(p, "drop") /\ (req[p].batch \/ req[p].u = u)
         \/ \E g \in Groups : u \in members[g] /\ RemoveGroup(g)]_vars

\* Between requests the visibility shown agrees with the share rows.
VisibilityMatchesShares ==
  Quiescent /\ MetaExists =>
    (meta.vis = "shared" <=> \/ \E u \in Users : directs[u] # "none"
                            \/ \E g \in Groups : gshares[g] # "none")

\* A capability is written to a share row only by a request of a user who
\* has at least that capability at that moment.
GrantsWithinOwn ==
  [][\A u \in Users, g \in Groups :
       \A new \in ({directs'[u]} \ {directs[u]})
                    \cup ({gshares'[g]} \ {gshares[g]}) :
         \/ new = "none"
         \/ \E p \in Procs :
              req'[p] # req[p] /\ CapAtLeast(EffectiveCap(req[p].u), new)]_vars

\* Every group member that can hold an envelope for a secret shared with the
\* group gets one (or stops being entitled to it), as long as the owner has
\* one to seal it from.
MembersGetEnvelopes ==
  \A u \in Users, g \in Groups :
    LET due == /\ HasEnvelope(Owner) /\ gshares[g] # "none"
               /\ u \in members[g] /\ u \in Shareable
    IN  due ~> (HasEnvelope(u) \/ ~due)

-----------------------------------------------------------------------------
(* What the repository says of the program and the code does not do.       *)

\* user-guide.md: after a rotation there are valid envelopes at any moment.
SomeoneCanOpen ==
  BlobExists => \E u \in Users, k \in Versions :
                  Live(u, k) /\ envs[<<u, k>>].dk = blob.dk

\* phase5.go: callerEffectiveCapability is the caller's maximum capability.
CapabilityIsMaximum ==
  \A u \in Users : HasEnvelope(u) =>
    \A c \in Granted(u) : CapAtLeast(EffectiveCap(u), c)
=============================================================================
