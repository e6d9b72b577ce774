------------------------ MODULE SecretSharing_proofs ------------------------
(* Theorems about SecretSharing, for any users, groups, capabilities and    *)
(* kinds of requests: first for any number of requests in flight, then what *)
(* requests leave behind when one is in flight at a time.                   *)
EXTENDS SecretSharing, TLAPS

-----------------------------------------------------------------------------
(* Type correctness of the store's operations.                             *)

EnvelopeTable == [Users \X Versions -> EnvelopeRow]
Markers == Capabilities \cup {"none"}

LEMMA PutType ==
  ASSUME NEW table \in EnvelopeTable, NEW to, NEW k, NEW dk \in Nat
  PROVE  EnvelopesPut(table, to, k, dk) \in EnvelopeTable
BY DEF EnvelopesPut, EnvelopeRow, EnvelopeTable

LEMMA RevokedType ==
  ASSUME NEW table \in EnvelopeTable, NEW us, NEW ks
  PROVE  EnvelopesRevoked(table, us, ks) \in EnvelopeTable
<1>1. \A row \in Users \X Versions :
        [table[row] EXCEPT !.state = "revoked"] \in EnvelopeRow
  BY DEF EnvelopeRow, EnvelopeTable
<1> QED BY <1>1 DEF EnvelopesRevoked, EnvelopeTable

LEMMA CreateSecretType ==
  ASSUME StoreTypeOK, NEW vis \in Visibilities \cup {"none"},
         NEW dk \in Nat, NEW to, CreateSecret(vis, dk, to)
  PROVE  StoreTypeOK'
<1>1. meta' \in MetaRow
  BY DEF CreateSecret, MetaRow
<1>2. blob' \in BlobRow
  BY VersionAssumption DEF CreateSecret, BlobRow
<1>3. envs' \in EnvelopeTable
  BY PutType DEF StoreTypeOK, CreateSecret, EnvelopeTable
<1> QED BY <1>1, <1>2, <1>3 DEF StoreTypeOK, CreateSecret, EnvelopeTable

LEMMA PutSecretMetaType ==
  ASSUME StoreTypeOK, NEW vis \in Visibilities \cup {"none"},
         NEW title \in Nat, PutSecretMeta(vis, title)
  PROVE  StoreTypeOK'
BY DEF StoreTypeOK, PutSecretMeta, MetaRow

LEMMA PutSecretCiphertextType ==
  ASSUME StoreTypeOK, NEW k \in 0 .. MaxVersion, NEW dk \in Nat,
         PutSecretCiphertext(k, dk)
  PROVE  StoreTypeOK'
BY DEF StoreTypeOK, PutSecretCiphertext, BlobRow

LEMMA ShareSecretType ==
  ASSUME StoreTypeOK, NEW to, NEW k, NEW dk \in Nat, NEW grantees,
         NEW cap \in Markers, ShareSecret(to, k, dk, grantees, cap)
  PROVE  StoreTypeOK'
BY PutType DEF StoreTypeOK, ShareSecret, EnvelopeTable, Markers

LEMMA ShareSecretGroupType ==
  ASSUME StoreTypeOK, NEW to, NEW k, NEW dk \in Nat, NEW g,
         NEW cap \in Markers, ShareSecretGroup(to, k, dk, g, cap)
  PROVE  StoreTypeOK'
BY PutType DEF StoreTypeOK, ShareSecretGroup, EnvelopeTable, Markers

LEMMA RotateSecretType ==
  ASSUME StoreTypeOK, NEW old, NEW vis \in Visibilities \cup {"none"},
         NEW k \in 0 .. MaxVersion, NEW dk \in Nat, NEW to,
         RotateSecret(old, vis, k, dk, to)
  PROVE  StoreTypeOK'
BY PutType, RevokedType
   DEF StoreTypeOK, RotateSecret, MetaRow, BlobRow, EnvelopeTable

LEMMA PutShareType ==
  ASSUME StoreTypeOK, NEW who, NEW cap \in Markers,
         PutSecretDirectShare(who, cap) \/ PutSecretGroupShare(who, cap)
  PROVE  StoreTypeOK'
BY DEF StoreTypeOK, PutSecretDirectShare, PutSecretGroupShare, Markers

LEMMA DeleteShareType ==
  ASSUME StoreTypeOK, NEW who,
         DeleteSecretDirectShare(who) \/ DeleteSecretGroupShare(who)
  PROVE  StoreTypeOK'
BY PutShareType DEF DeleteSecretDirectShare, DeleteSecretGroupShare, Markers

LEMMA DeleteSecretType == StoreTypeOK /\ DeleteSecret => StoreTypeOK'
BY VersionAssumption
   DEF StoreTypeOK, DeleteSecret, NoMeta, NoBlob, NoEnvelope, MetaRow, BlobRow,
       EnvelopeRow

LEMMA MembershipType ==
  ASSUME StoreTypeOK, NEW g \in Groups, NEW u \in Users,
         AddGroupMember(g, u) \/ RemoveGroupMember(g, u) \/ DeleteGroup(g)
  PROVE  StoreTypeOK'
<1>1. CASE AddGroupMember(g, u)
  BY <1>1 DEF StoreTypeOK, AddGroupMember
<1>2. CASE RemoveGroupMember(g, u)
  BY <1>2, RevokedType DEF StoreTypeOK, RemoveGroupMember, EnvelopeTable
<1>3. CASE DeleteGroup(g)
  BY <1>3 DEF StoreTypeOK, DeleteGroup
<1> QED BY <1>1, <1>2, <1>3

-----------------------------------------------------------------------------
(* Type correctness of the requests.                                       *)

LEMMA InitType == Init => TypeOK
BY UsersAssumption, VersionAssumption
   DEF Init, StoreInit, TypeOK, StoreTypeOK, Idle, Request, RequestOps, Labels,
       Statuses, MetaRow, BlobRow, EnvelopeRow, NoMeta, NoBlob, NoEnvelope,
       Capabilities, Visibilities, Versions

LEMMA IdleType == Idle \in Request
BY UsersAssumption, VersionAssumption
   DEF Idle, Request, RequestOps, Labels, Capabilities, Visibilities

LEMMA BecomeType ==
  ASSUME NEW p \in Procs, NEW r \in Request, req \in [Procs -> Request],
         Become(p, r)
  PROVE  req' \in [Procs -> Request]
BY DEF Become

LEMMA FinishType ==
  ASSUME NEW p \in Procs, req \in [Procs -> Request], Finish(p)
  PROVE  req' \in [Procs -> Request]
BY BecomeType, IdleType DEF Finish

LEMMA GotoType ==
  ASSUME NEW p \in Procs, NEW label \in Labels, req \in [Procs -> Request],
         Goto(p, label)
  PROVE  req' \in [Procs -> Request]
<1>1. [req[p] EXCEPT !.pc = label] \in Request
  BY DEF Request
<1> QED BY <1>1, BecomeType DEF Goto

\* A step that changes nothing but requests.
LEMMA RequestOnlyType ==
  ASSUME TypeOK, UNCHANGED <<storeVars, status, keys>>,
         req' \in [Procs -> Request]
  PROVE  TypeOK'
BY DEF TypeOK, StoreTypeOK, storeVars

LEMMA ClientType ==
  ASSUME TypeOK, NEW p \in Procs, ClientBegins(p)
  PROVE  TypeOK'
<1>1. ASSUME NEW us \in SUBSET Users, NEW gs \in SUBSET Groups,
             NEW cap \in OwnerCaps, BeginCreate(p, us, gs, cap)
      PROVE  TypeOK'
  <2> DEFINE to == {Owner} \cup us \cup (Shareable \cap MembersOf(gs))
             vis == IF us = {} /\ gs = {} THEN "private" ELSE "shared"
             r == [Idle EXCEPT !.op = "create", !.pc = "commit", !.kv = 1,
                     !.dk = 1, !.to = to, !.users = us, !.groups = gs,
                     !.cap = cap, !.vis = vis]
  <2>1. /\ to \in SUBSET Users /\ vis \in Visibilities
        /\ 1 \in 0 .. MaxVersion /\ 1 \in Nat /\ cap \in Capabilities
    BY UsersAssumption, VersionAssumption, CapsAssumption
       DEF Shareable, Visibilities
  <2> HIDE DEF to, vis
  <2>2. r \in Request
    BY <2>1, IdleType DEF Request, RequestOps, Labels
  <2>3. Become(p, r) /\ keys' = 1 /\ UNCHANGED <<storeVars, status>>
    BY <1>1 DEF BeginCreate, to, vis
  <2> HIDE DEF r
  <2>4. req' \in [Procs -> Request]
    BY <2>2, <2>3, BecomeType DEF TypeOK
  <2> QED BY <2>3, <2>4, VersionAssumption DEF TypeOK, storeVars, StoreTypeOK
<1>2. ASSUME NEW u \in Users, NEW to \in Users, NEW cap \in AskedCaps(u),
             BeginShare(p, u, to, cap)
      PROVE  TypeOK'
  <2>1. cap \in Capabilities
    BY <1>2, CapsAssumption DEF AskedCaps
  <2>2. [Idle EXCEPT !.op = "share", !.pc = "get", !.u = u, !.to = {to},
           !.cap = cap] \in Request
    BY <2>1, IdleType DEF Request, RequestOps, Labels
  <2> QED BY <1>2, <2>2, BecomeType, RequestOnlyType DEF BeginShare, TypeOK
<1>3. ASSUME NEW u \in Users, NEW g \in Groups, NEW cap \in AskedCaps(u),
             BeginShareGroup(p, u, g, cap)
      PROVE  TypeOK'
  <2>1. cap \in Capabilities
    BY <1>3, CapsAssumption DEF AskedCaps
  <2>2. [Idle EXCEPT !.op = "sharegroup", !.pc = "get", !.u = u,
           !.groups = {g}, !.cap = cap] \in Request
    BY <2>1, IdleType DEF Request, RequestOps, Labels
  <2> QED BY <1>3, <2>2, BecomeType, RequestOnlyType
          DEF BeginShareGroup, TypeOK
<1>4. ASSUME NEW u \in Users, NEW g \in Groups, BeginReseal(p, u, g)
      PROVE  TypeOK'
  <2>1. [Idle EXCEPT !.op = "reseal", !.pc = "gapenvs", !.u = u,
           !.groups = {g}] \in Request
    BY IdleType DEF Request, RequestOps, Labels
  <2> QED BY <1>4, <2>1, BecomeType, RequestOnlyType DEF BeginReseal, TypeOK
<1>5. ASSUME NEW u \in Users, BeginUpdate(p, u) \/ BeginDelete(p, u)
      PROVE  TypeOK'
  <2>1. /\ [Idle EXCEPT !.op = "update", !.pc = "get", !.u = u] \in Request
        /\ [Idle EXCEPT !.op = "delete", !.pc = "auth", !.u = u] \in Request
    BY IdleType DEF Request, RequestOps, Labels
  <2> QED BY <1>5, <2>1, BecomeType, RequestOnlyType
          DEF BeginUpdate, BeginDelete, TypeOK
<1>6. ASSUME NEW u \in Users, NEW us \in SUBSET Users,
             NEW gs \in SUBSET Groups, NEW batch \in BOOLEAN,
             BeginRotation(p, u, us, gs, batch)
      PROVE  TypeOK'
  <2>1. keys + 1 \in Nat /\ keys + 1 \in 0 .. MaxVersion
    BY <1>6, VersionAssumption DEF BeginRotation, TypeOK
  <2>2. [Idle EXCEPT !.op = "rotate", !.pc = "get", !.u = u,
           !.dk = keys + 1, !.users = us, !.groups = gs, !.batch = batch] \in Request
    BY <2>1, IdleType DEF Request, RequestOps, Labels
  <2>3. req' \in [Procs -> Request]
    BY <1>6, <2>2, BecomeType DEF BeginRotation, TypeOK
  <2> QED BY <1>6, <2>1, <2>3 DEF BeginRotation, TypeOK, storeVars, StoreTypeOK
<1> QED BY <1>1, <1>2, <1>3, <1>4, <1>5, <1>6
        DEF ClientBegins, BeginRotate, BeginBatchUnshare

\* What a step can read, with its type.
LEMMA ReadTypes ==
  ASSUME TypeOK
  PROVE  /\ blob.kv \in 0 .. MaxVersion /\ blob.dk \in Nat
         /\ meta.vis \in Visibilities \cup {"none"} /\ meta.title \in Nat
         /\ \A g \in Groups : gshares[g] \in Markers
         /\ \A p \in Procs : req[p] \in Request
         /\ MaxVersion \in Nat
BY VersionAssumption
   DEF TypeOK, StoreTypeOK, BlobRow, MetaRow, EnvelopeRow, Markers

LEMMA EnvelopeReadType ==
  ASSUME TypeOK, NEW u \in Users, NEW k \in Versions
  PROVE  envs[<<u, k>>].dk \in Nat
BY DEF TypeOK, StoreTypeOK, EnvelopeRow

LEMMA ClientReadType ==
  ASSUME TypeOK, NEW p \in Procs,
         \/ GetSecretMeta(p) \/ GetSecretCiphertext(p)
         \/ OpenEnvelope(p) \/ ReadAccess(p)
         \/ ReadGapEnvelopes(p) \/ ReadGapVersions(p)
  PROVE  TypeOK'
<1> USE ReadTypes
<1> SUFFICES req' \in [Procs -> Request]
  BY RequestOnlyType DEF GetSecretMeta, GetSecretCiphertext, OpenEnvelope, ReadAccess,
       ReadGapEnvelopes, ReadGapVersions
<1>0. req \in [Procs -> Request]
  BY DEF TypeOK
<1>1. CASE Finish(p)
  BY <1>0, <1>1, FinishType
<1>2. CASE GetSecretMeta(p) /\ ~Finish(p)
  <2>1. [req[p] EXCEPT !.title = meta.title, !.pc = "getblob"] \in Request
    BY ZenonT(40) DEF Request, Labels
  <2> QED BY <1>0, <1>2, <2>1, BecomeType DEF GetSecretMeta
<1>7. CASE GetSecretCiphertext(p) /\ ~Finish(p)
  <2>1. [req[p] EXCEPT !.kv = blob.kv, !.pdk = blob.dk, !.pc = "open"]
          \in Request
    BY ZenonT(40) DEF Request, Labels
  <2> QED BY <1>0, <1>7, <2>1, BecomeType DEF GetSecretCiphertext
<1>3. CASE OpenEnvelope(p) /\ ~Finish(p)
  <2>1. PICK k \in Versions :
          Become(p, [req[p] EXCEPT
            !.pdk = 0, !.title = 0,
            !.dk = IF req[p].op = "rotate" THEN req[p].dk
                                           ELSE envs[<<req[p].u, k>>].dk,
            !.to = IF req[p].batch THEN Holders ELSE req[p].to,
            !.pc = IF req[p].op \in {"rotate", "sharegroup"}
                   THEN "access" ELSE "auth"])
    BY <1>3 DEF OpenEnvelope, LiveVersions
  <2> DEFINE dk == IF req[p].op = "rotate" THEN req[p].dk
                                           ELSE envs[<<req[p].u, k>>].dk
             to == IF req[p].batch THEN Holders ELSE req[p].to
             pc == IF req[p].op \in {"rotate", "sharegroup"}
                   THEN "access" ELSE "auth"
  <2>2. dk \in Nat /\ pc \in Labels /\ to \in SUBSET Users
    BY EnvelopeReadType DEF Request, Labels, Holders
  <2>3. Become(p, [req[p] EXCEPT !.pdk = 0, !.title = 0, !.dk = dk,
                              !.to = to, !.pc = pc])
    BY <2>1
  <2> HIDE DEF dk, to, pc
  <2>4. [req[p] EXCEPT !.pdk = 0, !.title = 0, !.dk = dk,
                              !.to = to, !.pc = pc] \in Request
    BY <2>2 DEF Request
  <2> QED BY <1>0, <2>3, <2>4, BecomeType
<1>4. CASE ReadAccess(p) /\ ~Finish(p)
  <2> DEFINE to == Shareable \cap MembersOf(req[p].groups)
             keepers == Recipients(req[p])
  <2>1. \/ Become(p, [req[p] EXCEPT !.to = to, !.pc = "auth"])
        \/ /\ keepers \subseteq Shareable /\ req[p].kv < MaxVersion
           /\ Become(p, [req[p] EXCEPT !.to = keepers, !.kv = @ + 1,
                                       !.pc = "auth"])
    BY <1>4 DEF ReadAccess
  <2>2. to \in SUBSET Users /\ (keepers \subseteq Shareable
                               => keepers \in SUBSET Users)
    BY DEF Shareable
  <2> HIDE DEF to, keepers
  <2>3. [req[p] EXCEPT !.to = to, !.pc = "auth"] \in Request
    BY ZenonT(40), <2>2 DEF Request, Labels
  <2>4. keepers \subseteq Shareable /\ req[p].kv < MaxVersion =>
          [req[p] EXCEPT !.to = keepers, !.kv = req[p].kv + 1, !.pc = "auth"]
            \in Request
    <3>1. req[p].kv < MaxVersion => req[p].kv + 1 \in 0 .. MaxVersion
      BY DEF Request
    <3> QED BY ZenonT(40), <2>2, <3>1 DEF Request, Labels
  <2> QED BY <1>0, <2>1, <2>3, <2>4, BecomeType
<1>5. CASE ReadGapEnvelopes(p) /\ ~Finish(p)
  <2> DEFINE to == WithoutEnvelope
  <2>1. PICK k \in Versions :
          Become(p, [req[p] EXCEPT !.dk = envs[<<req[p].u, k>>].dk, !.to = to,
                                   !.pc = "gapversions"])
    BY <1>5 DEF ReadGapEnvelopes, LiveVersions
  <2>2. envs[<<req[p].u, k>>].dk \in Nat /\ to \in SUBSET Users
    BY EnvelopeReadType DEF Request, WithoutEnvelope
  <2> HIDE DEF to
  <2>3. [req[p] EXCEPT !.dk = envs[<<req[p].u, k>>].dk, !.to = to,
                       !.pc = "gapversions"] \in Request
    BY ZenonT(40), <2>2 DEF Request, Labels
  <2> QED BY <1>0, <2>1, <2>3, BecomeType
<1>6. CASE ReadGapVersions(p) /\ ~Finish(p)
  <2> DEFINE to == req[p].to \cap Shareable \cap MembersOf(req[p].groups)
  <2>1. Become(p, [req[p] EXCEPT !.to = to, !.kv = blob.kv, !.pc = "auth"])
    BY <1>6 DEF ReadGapVersions
  <2>2. to \in SUBSET Users
    BY DEF Shareable
  <2> HIDE DEF to
  <2>3. [req[p] EXCEPT !.to = to, !.kv = blob.kv, !.pc = "auth"] \in Request
    BY ZenonT(40), <2>2 DEF Request, Labels
  <2> QED BY <1>0, <2>1, <2>3, BecomeType
<1> QED BY <1>1, <1>2, <1>3, <1>4, <1>5, <1>6, <1>7

LEMMA HandlerReadType ==
  ASSUME TypeOK, NEW p \in Procs,
         \/ Authorize(p) \/ (\E g \in Groups : KeepCap(p, g)) \/ LoseCap(p)
         \/ ReadBlob(p) \/ ReadMeta(p) \/ RefuseRevoked(p) \/ SyncRead(p)
         \/ DropFails(p) \/ Abort(p)
  PROVE  TypeOK'
<1> USE ReadTypes
<1> SUFFICES req' \in [Procs -> Request]
  BY RequestOnlyType DEF Authorize, KeepCap, LoseCap, ReadBlob, ReadMeta,
       RefuseRevoked, SyncRead, DropFails, Abort
<1>0. req \in [Procs -> Request]
  BY DEF TypeOK
<1>1. CASE Finish(p) \/ RefuseRevoked(p) \/ Abort(p)
  BY <1>0, <1>1, FinishType DEF RefuseRevoked, Abort
<1>2. CASE Authorize(p) /\ ~Finish(p)
  <2>1. PICK cap, pc :
          /\ cap \in {"write", req[p].cap} /\ pc \in {"commit", "cap", "blob"}
          /\ Become(p, [req[p] EXCEPT !.cap = cap, !.pc = pc])
    BY <1>2 DEF Authorize
  <2>2. cap \in Capabilities \cup {"none"} /\ pc \in Labels
    BY <2>1 DEF Request, Labels, Capabilities
  <2>3. [req[p] EXCEPT !.cap = cap, !.pc = pc] \in Request
    BY <2>2 DEF Request
  <2> QED BY <1>0, <2>1, <2>3, BecomeType
<1>3. CASE \E g \in Groups : KeepCap(p, g)
  <2>1. PICK g \in Groups : KeepCap(p, g)
    BY <1>3
  <2> DEFINE cap == IF gshares[g] = "none" THEN "write" ELSE gshares[g]
  <2>2. Become(p, [req[p] EXCEPT !.pc = "blob", !.cap = cap])
    BY <2>1 DEF KeepCap
  <2>3. cap \in Markers
    BY DEF Markers, Capabilities
  <2> HIDE DEF cap
  <2>4. [req[p] EXCEPT !.pc = "blob", !.cap = cap] \in Request
    BY ZenonT(40), <2>3 DEF Request, Labels, Markers
  <2> QED BY <1>0, <2>2, <2>4, BecomeType
<1>4. CASE ReadBlob(p) /\ ~Finish(p)
  <2>1. PICK old, pc :
          /\ old \in {blob.kv, 0} /\ pc \in {"meta", "commit"}
          /\ Become(p, [req[p] EXCEPT !.old = old, !.pc = pc])
    BY <1>4 DEF ReadBlob
  <2>2. old \in 0 .. MaxVersion
    BY <2>1
  <2>3. [req[p] EXCEPT !.old = old, !.pc = pc] \in Request
    BY ZenonT(40), <2>1, <2>2 DEF Request, Labels
  <2> QED BY <1>0, <2>1, <2>3, BecomeType
<1>5. CASE ReadMeta(p) /\ ~Finish(p)
  <2>1. PICK pc \in {"putmeta", "commit"} :
          Become(p, [req[p] EXCEPT !.vis = meta.vis, !.title = req[p].dk,
                                   !.pc = pc])
    BY <1>5 DEF ReadMeta
  <2>2. [req[p] EXCEPT !.vis = meta.vis, !.title = req[p].dk, !.pc = pc]
          \in Request
    BY ZenonT(40) DEF Request, Labels
  <2> QED BY <1>0, <2>1, <2>2, BecomeType
<1>6. CASE SyncRead(p) /\ ~Finish(p)
  <2>1. PICK vis \in Visibilities :
          Become(p, [req[p] EXCEPT !.vis = vis, !.title = meta.title,
                                   !.pc = "putmeta"])
    BY <1>6 DEF SyncRead, Visibilities
  <2>2. [req[p] EXCEPT !.vis = vis, !.title = meta.title, !.pc = "putmeta"]
          \in Request
    BY ZenonT(40) DEF Request, Labels
  <2> QED BY <1>0, <2>1, <2>2, BecomeType
<1>7. CASE LoseCap(p)
  <2>1. [req[p] EXCEPT !.pc = "blob", !.cap = "write"] \in Request
    BY ZenonT(40) DEF Request, Labels, Capabilities
  <2> QED BY <1>0, <1>7, <2>1, BecomeType DEF LoseCap
<1>8. CASE DropFails(p)
  <2>1. ASSUME NEW us \in SUBSET Users
        PROVE  [req[p] EXCEPT !.users = us] \in Request
    BY DEF Request
  <2>2. ASSUME NEW gs \in SUBSET Groups
        PROVE  [req[p] EXCEPT !.groups = gs] \in Request
    BY DEF Request
  <2>3. /\ \A u : req[p].users \ {u} \in SUBSET Users
        /\ \A g : req[p].groups \ {g} \in SUBSET Groups
    BY DEF Request
  <2> QED BY <1>0, <1>8, <2>1, <2>2, <2>3, BecomeType DEF DropFails
<1> QED BY <1>1, <1>2, <1>3, <1>4, <1>5, <1>6, <1>7, <1>8

LEMMA CommitType ==
  ASSUME TypeOK, NEW p \in Procs,
         \/ CommitCreate(p) \/ PutCreateUser(p) \/ PutCreateGroup(p)
         \/ CommitShare(p) \/ (\E g \in Groups : CommitShareGroup(p, g))
         \/ CommitRotate(p) \/ DropUser(p) \/ DropGroup(p)
         \/ CommitDelete(p) \/ PutMeta(p) \/ PutBlob(p)
  PROVE  TypeOK'
<1> DEFINE r == req[p]
<1>1. /\ r.kv \in 0 .. MaxVersion /\ r.dk \in Nat /\ r.cap \in Markers
      /\ r.vis \in Visibilities \cup {"none"} /\ r.title \in Nat
  BY DEF TypeOK, Request, Markers
<1>2. StoreTypeOK /\ req \in [Procs -> Request]
  BY DEF TypeOK
<1>3. req' \in [Procs -> Request]
  <2>1. ASSUME \/ Finish(p)
               \/ \E label \in {"users", "groups", "sync", "drop", "putblob"} :
                    Goto(p, label)
        PROVE  req' \in [Procs -> Request]
    BY <1>2, <2>1, FinishType, GotoType DEF Labels
  <2>2. ASSUME NEW us \in SUBSET Users, Become(p, [r EXCEPT !.users = us])
        PROVE  req' \in [Procs -> Request]
    <3>1. [r EXCEPT !.users = us] \in Request
      BY <1>2 DEF Request
    <3> QED BY <1>2, <2>2, <3>1, BecomeType
  <2>3. ASSUME NEW gs \in SUBSET Groups, Become(p, [r EXCEPT !.groups = gs])
        PROVE  req' \in [Procs -> Request]
    <3>1. [r EXCEPT !.groups = gs] \in Request
      BY <1>2 DEF Request
    <3> QED BY <1>2, <2>3, <3>1, BecomeType
  <2>4. r.users \in SUBSET Users /\ r.groups \in SUBSET Groups
    BY <1>2 DEF Request
  <2>5. CASE PutCreateUser(p) \/ DropUser(p)
    BY <2>1, <2>2, <2>4, <2>5 DEF PutCreateUser, DropUser
  <2>6. CASE PutCreateGroup(p) \/ DropGroup(p)
    BY <2>1, <2>3, <2>4, <2>6 DEF PutCreateGroup, DropGroup
  <2>7. CASE \/ CommitCreate(p) \/ CommitShare(p) \/ CommitRotate(p)
             \/ (\E g \in Groups : CommitShareGroup(p, g))
             \/ CommitDelete(p) \/ PutMeta(p) \/ PutBlob(p)
    BY <2>1, <2>7 DEF CommitCreate, CommitShare, CommitShareGroup,
         CommitRotate, CommitDelete, PutMeta, PutBlob
  <2> QED BY <2>5, <2>6, <2>7
<1>4. StoreTypeOK'
  <2>1. CASE CommitCreate(p)
    BY <1>1, <1>2, <2>1, CreateSecretType DEF CommitCreate
  <2>2. ASSUME UNCHANGED storeVars PROVE StoreTypeOK'
    BY <1>2, <2>2 DEF StoreTypeOK, storeVars
  <2>3. CASE PutCreateUser(p) \/ PutCreateGroup(p)
    BY <1>1, <1>2, <2>2, <2>3, PutShareType DEF PutCreateUser, PutCreateGroup
  <2>4. CASE CommitShare(p)
    BY <1>1, <1>2, <2>4, ShareSecretType DEF CommitShare
  <2>5. CASE \E g \in Groups : CommitShareGroup(p, g)
    BY <1>1, <1>2, <2>5, ShareSecretGroupType DEF CommitShareGroup
  <2>6. CASE CommitRotate(p)
    BY <1>1, <1>2, <2>6, RotateSecretType DEF CommitRotate
  <2>7. CASE DropUser(p) \/ DropGroup(p)
    BY <1>2, <2>2, <2>7, DeleteShareType DEF DropUser, DropGroup
  <2>8. CASE CommitDelete(p)
    BY <1>2, <2>8, DeleteSecretType DEF CommitDelete
  <2>9. CASE PutMeta(p) \/ PutBlob(p)
    BY <1>1, <1>2, <2>9, PutSecretMetaType, PutSecretCiphertextType
       DEF PutMeta, PutBlob
  <2> QED BY <2>1, <2>3, <2>4, <2>5, <2>6, <2>7, <2>8, <2>9
<1>5. UNCHANGED <<status, keys>>
  BY DEF CommitCreate, PutCreateUser, PutCreateGroup, CommitShare,
         CommitShareGroup, CommitRotate, DropUser, DropGroup, CommitDelete,
         PutMeta, PutBlob
<1> QED BY <1>3, <1>4, <1>5 DEF TypeOK

LEMMA AdminType ==
  ASSUME TypeOK, NEW p \in Procs, AdminStep(p)
  PROVE  TypeOK'
<1>1. ASSUME NEW g \in Groups, NEW u \in Users,
             AddMember(g, u) \/ RemoveMember(g, u) \/ RemoveGroup(g)
      PROVE  TypeOK'
  BY <1>1, MembershipType DEF TypeOK, AddMember, RemoveMember, RemoveGroup
<1>2. ASSUME NEW u \in Users, DisableUser(u) \/ OnboardUser(u)
      PROVE  TypeOK'
  BY <1>2 DEF TypeOK, StoreTypeOK, storeVars, DisableUser, OnboardUser,
              Statuses
<1> QED BY <1>1, <1>2, UsersAssumption DEF AdminStep

LEMMA NextType ==
  ASSUME TypeOK, [Next]_vars
  PROVE  TypeOK'
<1>1. CASE UNCHANGED vars
  BY <1>1 DEF vars, TypeOK, StoreTypeOK
<1>2. CASE Next
  <2>1. PICK p \in Procs :
          ClientBegins(p) \/ RequestStep(p) \/ Abort(p) \/ AdminStep(p)
    BY <1>2 DEF Next
  <2>2. CASE ClientBegins(p)
    BY <2>2, ClientType
  <2>3. CASE RequestStep(p) \/ Abort(p)
    BY <2>3, ClientReadType, HandlerReadType, CommitType DEF RequestStep
  <2>4. CASE AdminStep(p)
    BY <2>4, AdminType
  <2> QED BY <2>1, <2>2, <2>3, <2>4
<1> QED BY <1>1, <1>2

\* Every variable keeps to its type: in particular no request names a version
\* or a key that does not exist, and share rows hold capabilities only.
THEOREM TypeCorrect == Spec => []TypeOK
<1>1. TypeOK /\ [Next]_vars => TypeOK'
  BY NextType
<1> QED BY InitType, <1>1, PTL DEF Spec

-----------------------------------------------------------------------------
(* Revoked envelopes.  Only the creation of the secret writes envelopes     *)
(* without looking whether they are revoked, so the argument is that it     *)
(* meets an empty table: the secret is created once.                        *)

Creating(p) == req[p].op = "create" /\ req[p].pc = "commit"
NotYetCreated == keys = 0 \/ \E p \in Procs : Creating(p)

CreatedOnce ==
  /\ \A p \in Procs :
       req[p].op = "create" => /\ keys # 0
                               /\ req[p].pc \in {"commit", "users", "groups"}
  /\ \A p, q \in Procs : Creating(p) /\ Creating(q) => p = q
  /\ NotYetCreated =>
       /\ meta = NoMeta
       /\ blob = NoBlob
       /\ \A u \in Users, k \in Versions : envs[<<u, k>>].state = "absent"
       /\ \A p \in Procs :
            req[p].pc \in {"idle", "get", "gapenvs", "auth"} \/ Creating(p)

LEMMA InitCreatedOnce == Init => CreatedOnce
BY DEF Init, StoreInit, CreatedOnce, NotYetCreated, Creating, Idle, NoEnvelope

\* A step of p leaves the requests of the other processes alone.
LEMMA OthersUnchanged ==
  ASSUME TypeOK, NEW p \in Procs, NEW r, Become(p, r)
  PROVE  /\ req'[p] = r
         /\ \A q \in Procs \ {p} : req'[q] = req[q]
BY DEF Become, TypeOK

LEMMA ClientCreatedOnce ==
  ASSUME TypeOK, CreatedOnce, NEW p \in Procs, ClientBegins(p)
  PROVE  CreatedOnce'
<1>1. ASSUME NEW us, NEW gs, NEW cap, BeginCreate(p, us, gs, cap)
      PROVE  CreatedOnce'
  <2>1. PICK r : /\ Become(p, r) /\ r.op = "create" /\ r.pc = "commit"
                 /\ keys = 0 /\ keys' = 1 /\ At(p, "idle")
                 /\ UNCHANGED storeVars
    BY <1>1 DEF BeginCreate, Idle
  <2>2. req'[p] = r /\ \A q \in Procs \ {p} : req'[q] = req[q]
    BY <2>1, OthersUnchanged
  <2>3. \A q \in Procs \ {p} : req[q].op # "create"
    BY <2>1 DEF CreatedOnce
  <2> QED BY <2>1, <2>2, <2>3
          DEF CreatedOnce, NotYetCreated, Creating, storeVars
<1>2. ASSUME NEW r, Become(p, r), r.op # "create",
             r.pc \in {"get", "gapenvs", "auth"}, keys' \in {keys, keys + 1},
             keys' = keys \/ keys # 0, UNCHANGED storeVars, At(p, "idle")
      PROVE  CreatedOnce'
  <2>1. req'[p] = r /\ \A q \in Procs \ {p} : req'[q] = req[q]
    BY <1>2, OthersUnchanged
  <2>2. keys' = 0 <=> keys = 0
    BY <1>2 DEF TypeOK
  <2>3. \A q \in Procs : Creating(q)' <=> Creating(q)
    BY <1>2, <2>1 DEF Creating, At
  <2> QED BY <1>2, <2>1, <2>2, <2>3
          DEF CreatedOnce, NotYetCreated, Creating, storeVars
<1>3. ASSUME NEW u, NEW to, NEW cap, BeginShare(p, u, to, cap)
      PROVE  CreatedOnce'
  BY <1>3, <1>2 DEF BeginShare, Idle
<1>4. ASSUME NEW u, NEW g, NEW cap,
             BeginShareGroup(p, u, g, cap) \/ BeginReseal(p, u, g)
      PROVE  CreatedOnce'
  BY <1>4, <1>2 DEF BeginShareGroup, BeginReseal, Idle
<1>5. ASSUME NEW u, BeginUpdate(p, u) \/ BeginDelete(p, u)
      PROVE  CreatedOnce'
  BY <1>5, <1>2 DEF BeginUpdate, BeginDelete, Idle
<1>6. ASSUME NEW u, NEW us, NEW gs, NEW batch, BeginRotation(p, u, us, gs, batch)
      PROVE  CreatedOnce'
  <2>1. keys # 0
    BY <1>6 DEF BeginRotation
  <2> QED BY <1>6, <1>2, <2>1 DEF BeginRotation, Idle
<1> QED BY <1>1, <1>3, <1>4, <1>5, <1>6
        DEF ClientBegins, BeginRotate, BeginBatchUnshare

\* Until the secret is created, a request for it ends without an effect.
LEMMA NothingToFind ==
  ASSUME TypeOK, CreatedOnce, NotYetCreated, NEW p \in Procs, ~Creating(p),
         RequestStep(p) \/ Abort(p)
  PROVE  Finish(p) /\ UNCHANGED <<storeVars, keys>>
<1>1. /\ req[p].pc \in {"idle", "get", "gapenvs", "auth"}
      /\ req[p].op # "create" \/ req[p].pc = "commit"
  BY DEF CreatedOnce, Creating
<1>2. ~MetaExists /\ \A u \in Users : ~HasEnvelope(u)
  BY DEF CreatedOnce, MetaExists, HasEnvelope, LiveVersions, Live
<1>3. req[p].u \in Users
  BY DEF TypeOK, Request
<1>4. CASE Abort(p)
  BY <1>4 DEF Abort
<1>5. CASE GetSecretMeta(p)
  BY <1>2, <1>5 DEF GetSecretMeta
<1>6. CASE ReadGapEnvelopes(p)
  BY <1>2, <1>3, <1>6 DEF ReadGapEnvelopes, HasEnvelope
<1>7. CASE Authorize(p)
  <2>1. ~Authorized(req[p])
    BY <1>2, <1>3 DEF Authorized, MaySign
  <2> QED BY <1>7, <2>1 DEF Authorize
<1> QED
  BY <1>1, <1>4, <1>5, <1>6, <1>7
  DEF RequestStep, At, GetSecretCiphertext, OpenEnvelope, ReadAccess, ReadGapVersions, KeepCap,
      LoseCap, DropFails, ReadBlob, ReadMeta, CommitCreate, PutCreateUser, PutCreateGroup,
      RefuseRevoked, CommitShare, CommitShareGroup, CommitRotate, DropUser,
      DropGroup, CommitDelete, SyncRead, PutMeta, PutBlob

\* A step of a request ends it or leaves its operation what it was, and one
\* of a creation that has been committed goes on to the share markers.
Progress(p) ==
  \E r : /\ Become(p, r)
         /\ r.op = "create" => /\ req[p].op = "create"
                               /\ r.pc \in {"users", "groups"}

LEMMA StepKeepsOp ==
  ASSUME TypeOK, CreatedOnce, NEW p \in Procs, RequestStep(p) \/ Abort(p)
  PROVE  keys' = keys /\ Progress(p)
<1>0. req[p] \in Request
  BY DEF TypeOK
<1>1. req[p].op = "create" => req[p].pc \in {"commit", "users", "groups"}
  BY DEF CreatedOnce
<1>2. keys' = keys
  BY DEF RequestStep, GetSecretMeta, GetSecretCiphertext, OpenEnvelope, ReadAccess, ReadGapEnvelopes,
      ReadGapVersions, Authorize, KeepCap, LoseCap, DropFails, ReadBlob,
      ReadMeta, CommitCreate,
      PutCreateUser, PutCreateGroup, RefuseRevoked, CommitShare,
      CommitShareGroup, CommitRotate, DropUser, DropGroup, CommitDelete, SyncRead,
      PutMeta, PutBlob, Abort
<1>3. ASSUME Finish(p) PROVE Progress(p)
  BY <1>3 DEF Finish, Idle, Progress
<1>4. ASSUME NEW label, Goto(p, label), req[p].op = "create"
                                          => label \in {"users", "groups"}
      PROVE  Progress(p)
  <2>1. /\ [req[p] EXCEPT !.pc = label].op = req[p].op
        /\ [req[p] EXCEPT !.pc = label].pc = label
    BY <1>0 DEF Request
  <2> QED BY <1>4, <2>1 DEF Goto, Progress
<1>5. ASSUME NEW r, Become(p, r), r.op = req[p].op,
             req[p].pc \notin {"commit", "users", "groups"}
      PROVE  Progress(p)
  BY <1>1, <1>5 DEF Progress
<1>6. ASSUME RefuseRevoked(p) \/ CommitDelete(p) \/ PutBlob(p) \/ Abort(p)
      PROVE  Progress(p)
  BY <1>3, <1>6 DEF RefuseRevoked, CommitDelete, PutBlob, Abort
<1>7. ASSUME CommitCreate(p)
      PROVE  Progress(p)
  BY <1>4, <1>7 DEF CommitCreate
<1>8. ASSUME CommitShare(p) \/ (\E g \in Groups : CommitShareGroup(p, g))
           \/ CommitRotate(p) \/ PutMeta(p)
      PROVE  Progress(p)
  BY <1>1, <1>3, <1>4, <1>8
     DEF CommitShare, CommitShareGroup, CommitRotate, PutMeta, At
<1>19. ASSUME NEW r, Become(p, r), r.op = req[p].op,
              req[p].pc \in {"users", "groups"}, r.pc = req[p].pc
       PROVE  Progress(p)
  BY <1>19 DEF Progress
<1>20. ASSUME PutCreateUser(p) \/ PutCreateGroup(p)
       PROVE  Progress(p)
  BY <1>0, <1>3, <1>4, <1>19, <1>20
     DEF PutCreateUser, PutCreateGroup, At, Request
<1>21. ASSUME DropUser(p) \/ DropGroup(p) \/ DropFails(p)
       PROVE  Progress(p)
  BY <1>0, <1>1, <1>4, <1>5, <1>21
     DEF DropUser, DropGroup, DropFails, At, Request
<1>9. ASSUME GetSecretMeta(p) \/ GetSecretCiphertext(p)
      PROVE  Progress(p)
  BY <1>0, <1>3, <1>5, <1>9 DEF GetSecretMeta, GetSecretCiphertext, At, Request
<1>10. ASSUME OpenEnvelope(p)
      PROVE  Progress(p)
  BY <1>0, <1>3, <1>5, <1>10 DEF OpenEnvelope, At, Request
<1>11. ASSUME ReadAccess(p)
      PROVE  Progress(p)
  BY <1>0, <1>3, <1>5, <1>11 DEF ReadAccess, At, Request
<1>12. ASSUME ReadGapEnvelopes(p) \/ ReadGapVersions(p)
      PROVE  Progress(p)
  BY <1>0, <1>3, <1>5, <1>12 DEF ReadGapEnvelopes, ReadGapVersions, At, Request
<1>13. ASSUME Authorize(p)
      PROVE  Progress(p)
  BY <1>0, <1>3, <1>5, <1>13 DEF Authorize, At, Request
<1>14. ASSUME (\E g \in Groups : KeepCap(p, g)) \/ LoseCap(p)
      PROVE  Progress(p)
  BY <1>0, <1>3, <1>5, <1>14 DEF KeepCap, LoseCap, At, Request
<1>15. ASSUME ReadBlob(p)
      PROVE  Progress(p)
  BY <1>0, <1>3, <1>5, <1>15 DEF ReadBlob, At, Request
<1>16. ASSUME ReadMeta(p)
      PROVE  Progress(p)
  BY <1>0, <1>3, <1>5, <1>16 DEF ReadMeta, At, Request
<1>17. ASSUME SyncRead(p)
      PROVE  Progress(p)
  BY <1>0, <1>3, <1>5, <1>17 DEF SyncRead, At, Request
<1>18. Progress(p)
  BY <1>6, <1>7, <1>8, <1>9, <1>10, <1>11, <1>12, <1>13, <1>14, <1>15, <1>16,
     <1>17, <1>20, <1>21 DEF RequestStep
<1> QED BY <1>2, <1>18

LEMMA AdminCreatedOnce ==
  ASSUME TypeOK, CreatedOnce, NEW p \in Procs, AdminStep(p)
  PROVE  CreatedOnce'
<1>1. UNCHANGED <<req, keys>>
  BY DEF AdminStep, AddMember, RemoveMember, RemoveGroup, DisableUser,
         OnboardUser
<1>2. meta' = meta /\ blob' = blob
  BY DEF AdminStep, AddMember, RemoveMember, RemoveGroup, DisableUser,
         OnboardUser, AddGroupMember, RemoveGroupMember, DeleteGroup, storeVars
<1>3. \/ envs' = envs
      \/ \E u \in Users : envs' = EnvelopesRevoked(envs, {u}, Versions)
  BY DEF AdminStep, AddMember, RemoveMember, RemoveGroup, DisableUser,
         OnboardUser, AddGroupMember, RemoveGroupMember, DeleteGroup, storeVars
<1>4. ASSUME NEW u \in Users, NEW k \in Versions,
             envs[<<u, k>>].state = "absent"
      PROVE  envs'[<<u, k>>].state = "absent"
  BY <1>3, <1>4 DEF EnvelopesRevoked
<1> QED BY <1>1, <1>2, <1>4 DEF CreatedOnce, NotYetCreated, Creating

LEMMA NextCreatedOnce ==
  ASSUME TypeOK, CreatedOnce, [Next]_vars
  PROVE  CreatedOnce'
<1>1. CASE UNCHANGED vars
  BY <1>1 DEF vars, CreatedOnce, NotYetCreated, Creating
<1>2. ASSUME NEW p \in Procs, RequestStep(p) \/ Abort(p)
      PROVE  CreatedOnce'
  <2>0. keys' = keys /\ Progress(p)
    BY <1>2, StepKeepsOp
  <2>1. PICK r : /\ Become(p, r)
                 /\ r.op = "create" => /\ req[p].op = "create"
                                       /\ r.pc \in {"users", "groups"}
    BY <2>0 DEF Progress
  <2>2. req'[p] = r /\ \A q \in Procs \ {p} : req'[q] = req[q]
    BY <2>1, OthersUnchanged
  <2>3. \A q \in Procs : Creating(q)' => Creating(q) /\ q # p
    BY <2>1, <2>2 DEF Creating
  <2>4. CASE NotYetCreated /\ ~Creating(p)
    <3>1. Finish(p) /\ UNCHANGED storeVars
      BY <1>2, <2>4, NothingToFind
    <3>2. r.pc = "idle"
      BY <2>2, <3>1, OthersUnchanged DEF Finish, Idle
    <3> QED BY <2>0, <2>1, <2>2, <2>3, <2>4, <3>1, <3>2
            DEF CreatedOnce, NotYetCreated, Creating, storeVars
  <2>5. CASE ~NotYetCreated \/ Creating(p)
    <3>1. ~NotYetCreated'
      BY <2>0, <2>1, <2>3, <2>5 DEF NotYetCreated, CreatedOnce, Creating
    <3> QED BY <2>0, <2>1, <2>2, <2>3, <3>1 DEF CreatedOnce, Creating
  <2> QED BY <2>4, <2>5
<1> QED BY <1>1, <1>2, ClientCreatedOnce, AdminCreatedOnce DEF Next

\* The store does not revive a revoked envelope, for any number of requests.
THEOREM RevokedForGood == Spec => RevokedStaysRevoked
<1> DEFINE Kept == \A u \in Users, k \in Versions :
                     Revoked(u, k) => Revoked(u, k)' \/ ~BlobExists'
<1>1. ASSUME TypeOK, CreatedOnce, [Next]_vars PROVE Kept
  <2> SUFFICES ASSUME NEW u \in Users, NEW k \in Versions, Revoked(u, k)
               PROVE  Revoked(u, k)' \/ ~BlobExists'
    OBVIOUS
  <2>0. envs \in EnvelopeTable
    BY <1>1 DEF TypeOK, StoreTypeOK, EnvelopeTable
  <2>1. ASSUME NEW to, NEW kv, NEW dk, ~RefusesEnvelopes(to, kv),
               envs' = EnvelopesPut(envs, to, kv, dk)
        PROVE  Revoked(u, k)'
    BY <2>0, <2>1 DEF Revoked, RefusesEnvelopes, EnvelopesPut, EnvelopeTable
  <2>2. ASSUME NEW us, NEW ks, envs' = EnvelopesRevoked(envs, us, ks)
        PROVE  Revoked(u, k)'
    BY <2>0, <2>2
       DEF Revoked, EnvelopesRevoked, EnvelopeTable, EnvelopeRow
  <2>3. ASSUME NEW p \in Procs, CommitCreate(p)
        PROVE  FALSE
    BY <1>1, <2>3 DEF CommitCreate, At, CreatedOnce, NotYetCreated, Creating,
                      Revoked
  <2>4. ASSUME NEW p \in Procs, \/ CommitShare(p)
                                \/ \E g \in Groups : CommitShareGroup(p, g)
        PROVE  Revoked(u, k)'
    BY <2>1, <2>4
       DEF CommitShare, CommitShareGroup, ShareSecret, ShareSecretGroup
  <2>5. ASSUME NEW p \in Procs, CommitRotate(p)
        PROVE  Revoked(u, k)'
    BY <2>0, <2>5 DEF CommitRotate, RotateSecret, RefusesEnvelopes, Revoked,
                      EnvelopesPut, EnvelopesRevoked, EnvelopeTable, EnvelopeRow
  <2>6. ASSUME NEW p \in Procs, CommitDelete(p)
        PROVE  ~BlobExists'
    BY <2>6 DEF CommitDelete, DeleteSecret, BlobExists
  <2>7. ASSUME NEW g \in Groups, NEW v \in Users, RemoveMember(g, v)
        PROVE  Revoked(u, k)'
    BY <2>2, <2>7 DEF RemoveMember, RemoveGroupMember, Revoked
  <2>8. ASSUME envs' = envs
        PROVE  Revoked(u, k)'
    BY <2>8 DEF Revoked
  <2>9. CASE UNCHANGED vars
    BY <2>8, <2>9 DEF vars
  <2>10. ASSUME NEW p \in Procs, ClientBegins(p) \/ Abort(p)
         PROVE  envs' = envs
    BY <2>10 DEF ClientBegins, BeginCreate, BeginShare, BeginShareGroup,
        BeginReseal, BeginUpdate, BeginRotate, BeginBatchUnshare, BeginRotation,
        BeginDelete, Abort, storeVars
  <2>11. ASSUME NEW p \in Procs,
                \/ GetSecretMeta(p) \/ GetSecretCiphertext(p)
         \/ OpenEnvelope(p) \/ ReadAccess(p)
                \/ ReadGapEnvelopes(p) \/ ReadGapVersions(p)
                \/ Authorize(p) \/ (\E g \in Groups : KeepCap(p, g))
                \/ LoseCap(p) \/ DropFails(p)
                \/ ReadBlob(p) \/ ReadMeta(p) \/ RefuseRevoked(p)
                \/ SyncRead(p)
         PROVE  envs' = envs
    BY <2>11 DEF GetSecretMeta, GetSecretCiphertext, OpenEnvelope, ReadAccess, ReadGapEnvelopes,
        ReadGapVersions, Authorize, KeepCap, LoseCap, DropFails, ReadBlob,
        ReadMeta, RefuseRevoked, SyncRead, storeVars
  <2>12. ASSUME NEW p \in Procs,
                \/ PutCreateUser(p) \/ PutCreateGroup(p) \/ DropUser(p)
                \/ DropGroup(p) \/ PutMeta(p) \/ PutBlob(p)
         PROVE  envs' = envs
    BY <2>12 DEF PutCreateUser, PutCreateGroup, DropUser, DropGroup, PutMeta,
        PutBlob, PutSecretDirectShare, PutSecretGroupShare,
        DeleteSecretDirectShare, DeleteSecretGroupShare, PutSecretMeta,
        PutSecretCiphertext, storeVars
  <2>13. ASSUME NEW p \in Procs, AdminStep(p)
         PROVE  envs' = envs \/ \E g \in Groups, v \in Users : RemoveMember(g, v)
    BY <2>13 DEF AdminStep, AddMember, RemoveGroup, DisableUser, OnboardUser,
        AddGroupMember, DeleteGroup, storeVars
  <2> QED BY <1>1, <2>3, <2>4, <2>5, <2>6, <2>7, <2>8, <2>9, <2>10, <2>11,
             <2>12, <2>13 DEF Next, RequestStep
<1>2. TypeOK /\ CreatedOnce /\ [Next]_vars => CreatedOnce'
  BY NextCreatedOnce
<1>3. Spec => []CreatedOnce
  BY InitCreatedOnce, TypeCorrect, <1>2, PTL DEF Spec
<1> QED BY <1>1, <1>3, TypeCorrect, PTL DEF Spec, RevokedStaysRevoked

-----------------------------------------------------------------------------
(* Capabilities.  What a request carries past its authorization, and so     *)
(* what a share row can hold, is bounded by what the owner hands out.       *)

Within(c) ==
  c \in {"none", "read", "write"} \/ \E o \in OwnerCaps : CapAtLeast(o, c)

\* The labels a request reaches only after its authorization.
Checked == {"cap", "blob", "meta", "commit", "putblob", "drop", "sync",
            "putmeta", "users", "groups"}

RequestWithin(r) ==
  /\ r.op \in {"none", "update", "rotate", "delete"} => r.cap = "none"
  /\ r.op = "sharegroup" /\ r.pc \notin Checked => r.groups # {}
  /\ r.pc = "cap" => r.op = "reseal"
  /\ r.pc \in Checked \/ r.u = Owner => Within(r.cap)

CapsWithin ==
  /\ \A u \in Users : Within(directs[u])
  /\ \A g \in Groups : Within(gshares[g])
  /\ \A p \in Procs : RequestWithin(req[p])

LEMMA Ranks ==
  /\ \A c : CapRank(c) \in 1 .. 4
  /\ \A c \in Markers : CapRank(c) > 2 <=> c \in {"share", "admin"}
  /\ CapRank("none") = 2 /\ CapRank("read") = 1
  /\ CapRank("share") = 3 /\ CapRank("admin") = 4
BY DEF CapRank, Markers, Capabilities

LEMMA WithinBelow ==
  ASSUME NEW c \in Markers, NEW d, CapAtLeast(d, c),
         d \in {"none", "read"} \/ \E o \in OwnerCaps : CapAtLeast(o, d)
  PROVE  Within(c)
<1>1. CASE d \in {"none", "read"}
  <2>1. CapRank(c) <= 2
    BY <1>1, Ranks DEF CapAtLeast
  <2>2. c \notin {"share", "admin"}
    BY <2>1, Ranks
  <2> QED BY <2>2 DEF Within, Markers, Capabilities
<1>2. CASE \E o \in OwnerCaps : CapAtLeast(o, d)
  <2>1. PICK o \in OwnerCaps : CapAtLeast(o, d)
    BY <1>2
  <2>2. CapAtLeast(o, c)
    BY <2>1, Ranks DEF CapAtLeast
  <2> QED BY <2>2 DEF Within
<1> QED BY <1>1, <1>2

\* The CHOOSE of callerEffectiveCapability finds one of the granted ones.
LEMMA EffectiveWithin ==
  ASSUME TypeOK, CapsWithin, NEW u \in Users, u # Owner
  PROVE  \/ EffectiveCap(u) \in {"none", "read"}
         \/ \E o \in OwnerCaps : CapAtLeast(o, EffectiveCap(u))
<1> DEFINE better == {c \in Granted(u) : CapRank(c) > CapRank("none")}
           best(c) == \A d \in better : CapAtLeast(c, d)
<1>1. CASE better = {}
  BY <1>1 DEF EffectiveCap
<1>2. CASE better # {}
  <2>1. \A c \in better : c \in {"share", "admin"} /\ Within(c)
    <3>1. \A c \in Granted(u) : c \in Markers /\ Within(c)
      BY DEF Granted, CapsWithin, TypeOK, StoreTypeOK, Markers
    <3> QED BY <3>1, Ranks
  <2>2. \E c \in better : best(c)
    <3>1. CASE "admin" \in better
      BY <3>1, <2>1, Ranks DEF CapAtLeast
    <3>2. CASE "admin" \notin better
      <4>1. "share" \in better /\ better \subseteq {"share"}
        BY <1>2, <2>1, <3>2
      <4> HIDE DEF better
      <4> QED BY <4>1, Ranks DEF CapAtLeast
    <3> QED BY <3>1, <3>2
  <2>3. EffectiveCap(u) = CHOOSE c \in better : best(c)
    BY <1>2 DEF EffectiveCap
  <2> HIDE DEF better, best
  <2>4. EffectiveCap(u) \in better
    BY <2>2, <2>3
  <2> QED BY <2>1, <2>4 DEF Within
<1> QED BY <1>1, <1>2

\* The capability a request has after its authorization.
LEMMA AuthorizedWithin ==
  ASSUME TypeOK, CapsWithin, NEW p \in Procs, At(p, "auth"),
         Authorized(req[p])
  PROVE  Within(IF req[p].op = "reseal" THEN "write" ELSE req[p].cap)
<1> DEFINE r == req[p]
<1>1. /\ r \in Request /\ RequestWithin(r) /\ r.cap \in Markers
      /\ r.groups \subseteq Groups /\ r.u \in Users
  BY DEF TypeOK, Request, CapsWithin, Markers
<1> HIDE DEF r
<1>2. CASE r.op \in {"update", "rotate", "delete", "none"} \/ r.u = Owner
  BY <1>1, <1>2 DEF RequestWithin, Within, r
<1>3. CASE r.op = "reseal"
  BY <1>3 DEF Within, r
<1>4. CASE r.op \in {"share", "sharegroup"} /\ r.u # Owner
  <2>1. CapAtLeast(EffectiveCap(r.u), r.cap)
    BY <1>1, <1>4 DEF Authorized, MayGrant, RequestWithin, At, Checked, r
  <2>2. Within(r.cap)
    BY <1>1, <1>4, <2>1, EffectiveWithin, WithinBelow
  <2> QED BY <1>4, <2>2 DEF r
<1> QED BY <1>1, <1>2, <1>3, <1>4 DEF Authorized, Request, RequestOps, r

LEMMA InitCapsWithin == Init => CapsWithin
BY DEF Init, StoreInit, CapsWithin, RequestWithin, Within, Idle

LEMMA BecomeWithin ==
  ASSUME TypeOK, CapsWithin, NEW p \in Procs, NEW r, Become(p, r),
         RequestWithin(r)
  PROVE  \A q \in Procs : RequestWithin(req'[q])
BY OthersUnchanged DEF CapsWithin

LEMMA FinishWithin ==
  ASSUME TypeOK, CapsWithin, NEW p \in Procs, Finish(p)
  PROVE  \A q \in Procs : RequestWithin(req'[q])
<1>1. RequestWithin(Idle)
  BY DEF Idle, RequestWithin, Within
<1> QED BY <1>1, BecomeWithin DEF Finish

LEMMA ClientWithin ==
  ASSUME TypeOK, CapsWithin, NEW p \in Procs, ClientBegins(p)
  PROVE  CapsWithin'
<1>1. UNCHANGED storeVars
  BY DEF ClientBegins, BeginCreate, BeginShare, BeginShareGroup, BeginReseal,
         BeginUpdate, BeginRotate, BeginBatchUnshare, BeginRotation, BeginDelete
<1>2. \A c \in OwnerCaps : Within(c)
  BY Ranks DEF Within, CapAtLeast
<1>3. \A q \in Procs : RequestWithin(req'[q])
  <2> DEFINE Goal == \A q \in Procs : RequestWithin(req'[q])
  <2>1. ASSUME NEW us, NEW gs, NEW cap \in OwnerCaps,
               BeginCreate(p, us, gs, cap)
        PROVE  Goal
    <3> DEFINE to == {Owner} \cup us \cup (Shareable \cap MembersOf(gs))
               vis == IF us = {} /\ gs = {} THEN "private" ELSE "shared"
               r == [Idle EXCEPT !.op = "create", !.pc = "commit", !.kv = 1,
                       !.dk = 1, !.to = to, !.users = us, !.groups = gs,
                       !.cap = cap, !.vis = vis]
    <3>1. Become(p, r)
      BY <2>1 DEF BeginCreate
    <3> HIDE DEF to, vis
    <3>2. RequestWithin(r)
      BY <1>2 DEF Idle, RequestWithin
    <3> QED BY <3>1, <3>2, BecomeWithin
  <2>2. ASSUME NEW u, NEW to, NEW cap \in AskedCaps(u),
               BeginShare(p, u, to, cap)
        PROVE  Goal
    <3>1. RequestWithin([Idle EXCEPT !.op = "share", !.pc = "get", !.u = u,
                           !.to = {to}, !.cap = cap])
      BY <1>2 DEF Idle, RequestWithin, AskedCaps, Checked
    <3> QED BY <2>2, <3>1, BecomeWithin DEF BeginShare
  <2>3. ASSUME NEW u, NEW g, NEW cap \in AskedCaps(u),
               BeginShareGroup(p, u, g, cap)
        PROVE  Goal
    <3>1. RequestWithin([Idle EXCEPT !.op = "sharegroup", !.pc = "get",
                           !.u = u, !.groups = {g}, !.cap = cap])
      BY <1>2 DEF Idle, RequestWithin, AskedCaps, Checked
    <3> QED BY <2>3, <3>1, BecomeWithin DEF BeginShareGroup
  <2>4. ASSUME NEW u, NEW g, BeginReseal(p, u, g)
        PROVE  Goal
    <3>1. RequestWithin([Idle EXCEPT !.op = "reseal", !.pc = "gapenvs",
                           !.u = u, !.groups = {g}])
      BY DEF Idle, RequestWithin, Within, Checked
    <3> QED BY <2>4, <3>1, BecomeWithin DEF BeginReseal
  <2>5. ASSUME NEW u, BeginUpdate(p, u) \/ BeginDelete(p, u)
        PROVE  Goal
    <3>1. /\ RequestWithin([Idle EXCEPT !.op = "update", !.pc = "get",
                              !.u = u])
          /\ RequestWithin([Idle EXCEPT !.op = "delete", !.pc = "auth",
                              !.u = u])
      BY DEF Idle, RequestWithin, Within, Checked
    <3> QED BY <2>5, <3>1, BecomeWithin DEF BeginUpdate, BeginDelete
  <2>6. ASSUME NEW u, NEW us, NEW gs, NEW batch, BeginRotation(p, u, us, gs, batch)
        PROVE  Goal
    <3>1. RequestWithin([Idle EXCEPT !.op = "rotate", !.pc = "get", !.u = u,
                           !.dk = keys + 1, !.users = us, !.groups = gs,
                           !.batch = batch])
      BY DEF Idle, RequestWithin, Within, Checked
    <3> QED BY <2>6, <3>1, BecomeWithin DEF BeginRotation
  <2> QED BY <2>1, <2>2, <2>3, <2>4, <2>5, <2>6
          DEF ClientBegins, BeginRotate, BeginBatchUnshare
<1> QED BY <1>1, <1>3 DEF CapsWithin, storeVars

LEMMA AdminWithin ==
  ASSUME TypeOK, CapsWithin, NEW p \in Procs, AdminStep(p)
  PROVE  CapsWithin'
<1>1. UNCHANGED <<req, directs>>
  BY DEF AdminStep, AddMember, RemoveMember, RemoveGroup, DisableUser,
         OnboardUser, AddGroupMember, RemoveGroupMember, DeleteGroup, storeVars
<1>2. \/ gshares' = gshares
      \/ \E g \in Groups : gshares' = [gshares EXCEPT ![g] = "none"]
  BY DEF AdminStep, AddMember, RemoveMember, RemoveGroup, DisableUser,
         OnboardUser, AddGroupMember, RemoveGroupMember, DeleteGroup, storeVars
<1>3. \A g \in Groups : Within(gshares'[g])
  BY <1>2 DEF CapsWithin, Within, TypeOK, StoreTypeOK
<1> QED BY <1>1, <1>3 DEF CapsWithin

\* A step of a request that is neither its authorization nor the reading of
\* the capability to keep leaves what RequestWithin looks at alone.
KeepsRequest(p) ==
  \/ Finish(p)
  \/ \E r : /\ Become(p, r)
            /\ r.op = req[p].op /\ r.u = req[p].u /\ r.cap = req[p].cap
            /\ r.groups = req[p].groups \/ req[p].pc \in Checked
            /\ r.pc # "cap" /\ (r.pc \in Checked <=> req[p].pc \in Checked)

LEMMA StepKeepsRequest ==
  ASSUME TypeOK, NEW p \in Procs, RequestStep(p) \/ Abort(p),
         ~Authorize(p), ~(\E g \in Groups : KeepCap(p, g)), ~LoseCap(p)
  PROVE  KeepsRequest(p)
<1>1. req[p] \in Request
  BY DEF TypeOK
<1>2. ASSUME Finish(p) PROVE KeepsRequest(p)
  BY <1>2 DEF KeepsRequest
<1>3. ASSUME NEW label, Goto(p, label), label # "cap", label \in Checked,
             req[p].pc \in Checked
      PROVE  KeepsRequest(p)
  <2> DEFINE r == [req[p] EXCEPT !.pc = label]
  <2>1. /\ r.op = req[p].op /\ r.u = req[p].u /\ r.cap = req[p].cap
        /\ r.groups = req[p].groups /\ r.pc = label
    BY <1>1 DEF Request
  <2> QED BY <1>3, <2>1 DEF Goto, KeepsRequest
<1>4. ASSUME NEW r, Become(p, r), r.op = req[p].op, r.u = req[p].u,
             r.cap = req[p].cap, r.groups = req[p].groups,
             r.pc # "cap", r.pc \in Checked <=> req[p].pc \in Checked
      PROVE  KeepsRequest(p)
  BY <1>4 DEF KeepsRequest
<1>16. ASSUME NEW r, Become(p, r), r.op = req[p].op, r.u = req[p].u,
              r.cap = req[p].cap, r.pc = req[p].pc,
              req[p].pc \in Checked \ {"cap"}
       PROVE  KeepsRequest(p)
  BY <1>16 DEF KeepsRequest
<1>5. ASSUME RefuseRevoked(p) \/ CommitDelete(p) \/ PutBlob(p) \/ Abort(p)
      PROVE  KeepsRequest(p)
  BY <1>2, <1>5 DEF RefuseRevoked, CommitDelete, PutBlob, Abort
<1>6. ASSUME CommitCreate(p) \/ CommitShare(p)
             \/ (\E g \in Groups : CommitShareGroup(p, g))
             \/ CommitRotate(p) \/ PutMeta(p)
      PROVE  KeepsRequest(p)
  BY <1>2, <1>3, <1>6 DEF CommitCreate, CommitShare, CommitShareGroup,
     CommitRotate, PutMeta, At, Checked
<1>14. ASSUME PutCreateUser(p) \/ PutCreateGroup(p)
       PROVE  KeepsRequest(p)
  BY <1>1, <1>2, <1>3, <1>16, <1>14
     DEF PutCreateUser, PutCreateGroup, At, Checked, Request
<1>15. ASSUME DropUser(p) \/ DropGroup(p) \/ DropFails(p)
       PROVE  KeepsRequest(p)
  BY <1>1, <1>3, <1>16, <1>15
     DEF DropUser, DropGroup, DropFails, At, Checked, Request
<1>7. ASSUME GetSecretMeta(p) \/ GetSecretCiphertext(p)
      PROVE  KeepsRequest(p)
  BY <1>1, <1>2, <1>4, <1>7 DEF GetSecretMeta, GetSecretCiphertext, At,
     Checked, Request
<1>8. ASSUME OpenEnvelope(p)
       PROVE  KeepsRequest(p)
  BY <1>1, <1>2, <1>4, <1>8 DEF OpenEnvelope, At, Checked, Request
<1>9. ASSUME ReadAccess(p)
       PROVE  KeepsRequest(p)
  BY <1>1, <1>2, <1>4, <1>9 DEF ReadAccess, At, Checked, Request
<1>10. ASSUME ReadGapEnvelopes(p) \/ ReadGapVersions(p)
       PROVE  KeepsRequest(p)
  BY <1>1, <1>2, <1>4, <1>10
     DEF ReadGapEnvelopes, ReadGapVersions, At, Checked, Request
<1>11. ASSUME ReadBlob(p)
       PROVE  KeepsRequest(p)
  BY <1>1, <1>2, <1>4, <1>11 DEF ReadBlob, At, Checked, Request
<1>12. ASSUME ReadMeta(p)
       PROVE  KeepsRequest(p)
  BY <1>1, <1>2, <1>4, <1>12 DEF ReadMeta, At, Checked, Request
<1>13. ASSUME SyncRead(p)
       PROVE  KeepsRequest(p)
  BY <1>1, <1>2, <1>4, <1>13 DEF SyncRead, At, Checked, Request
<1> QED
  BY <1>5, <1>6, <1>7, <1>8, <1>9, <1>10, <1>11, <1>12, <1>13, <1>14, <1>15
  DEF RequestStep

LEMMA RequestStepWithin ==
  ASSUME TypeOK, CapsWithin, NEW p \in Procs, RequestStep(p) \/ Abort(p)
  PROVE  CapsWithin'
<1> DEFINE Goal == \A q \in Procs : RequestWithin(req'[q])
<1>1. req[p] \in Request /\ RequestWithin(req[p])
  BY DEF TypeOK, CapsWithin
<1>2. ASSUME Authorize(p) PROVE CapsWithin'
  <2>1. Goal
    <3>1. CASE Finish(p)
      BY <3>1, FinishWithin
    <3>2. CASE ~Finish(p)
      <4> DEFINE cap == IF req[p].op = "reseal" THEN "write" ELSE req[p].cap
             catchUp == /\ req[p].op = "reseal"
                        /\ \E g \in req[p].groups : gshares[g] # "none"
             pc == CASE req[p].op = "delete" -> "commit"
                     [] catchUp              -> "cap"
                     [] OTHER                -> "blob"
      <4>1. /\ Become(p, [req[p] EXCEPT !.cap = cap, !.pc = pc])
            /\ pc \in Checked /\ (pc = "cap" => req[p].op = "reseal")
        BY <1>2, <3>2 DEF Authorize, Checked
      <4>2. Within(cap) /\ (cap = req[p].cap \/ req[p].op = "reseal")
        BY <1>2, <3>2, AuthorizedWithin DEF Authorize
      <4> HIDE DEF cap, pc
      <4>3. RequestWithin([req[p] EXCEPT !.cap = cap, !.pc = pc])
        BY <1>1, <4>1, <4>2 DEF RequestWithin, Request
      <4> QED BY <4>1, <4>3, BecomeWithin
    <3> QED BY <3>1, <3>2
  <2> QED BY <1>2, <2>1 DEF Authorize, CapsWithin, storeVars
<1>3. ASSUME NEW g \in Groups, KeepCap(p, g) PROVE CapsWithin'
  <2> DEFINE cap == IF gshares[g] = "none" THEN "write" ELSE gshares[g]
  <2>1. Become(p, [req[p] EXCEPT !.pc = "blob", !.cap = cap])
        /\ At(p, "cap")
    BY <1>3 DEF KeepCap
  <2>2. Within(cap)
    BY DEF CapsWithin, Within
  <2>3. req[p].op = "reseal"
    BY <1>1, <2>1 DEF RequestWithin, At
  <2> HIDE DEF cap
  <2>4. RequestWithin([req[p] EXCEPT !.pc = "blob", !.cap = cap])
    BY <1>1, <2>2, <2>3 DEF RequestWithin, Request
  <2> QED BY <1>3, <2>1, <2>4, BecomeWithin DEF KeepCap, CapsWithin, storeVars
<1>5. ASSUME LoseCap(p) PROVE CapsWithin'
  <2>1. /\ Become(p, [req[p] EXCEPT !.pc = "blob", !.cap = "write"])
        /\ At(p, "cap")
    BY <1>5 DEF LoseCap
  <2>2. req[p].op = "reseal"
    BY <1>1, <2>1 DEF RequestWithin, At
  <2>3. RequestWithin([req[p] EXCEPT !.pc = "blob", !.cap = "write"])
    BY <1>1, <2>2 DEF RequestWithin, Within, Request
  <2> QED BY <1>5, <2>1, <2>3, BecomeWithin DEF LoseCap, CapsWithin, storeVars
<1>4. ASSUME ~Authorize(p), ~(\E g \in Groups : KeepCap(p, g)), ~LoseCap(p)
      PROVE  CapsWithin'
  <2>1. Goal
    <3>1. KeepsRequest(p)
      BY <1>4, StepKeepsRequest
    <3>2. CASE Finish(p)
      BY <3>2, FinishWithin
    <3>3. ASSUME NEW r, Become(p, r), r.op = req[p].op, r.u = req[p].u,
                 r.cap = req[p].cap,
                 r.groups = req[p].groups \/ req[p].pc \in Checked,
                 r.pc # "cap", r.pc \in Checked <=> req[p].pc \in Checked
          PROVE  Goal
      BY <1>1, <3>3, BecomeWithin DEF RequestWithin
    <3> QED BY <3>1, <3>2, <3>3 DEF KeepsRequest
  <2>2. ASSUME At(p, "users") \/ At(p, "groups") \/ At(p, "commit")
        PROVE  Within(req[p].cap)
    BY <1>1, <2>2 DEF RequestWithin, At, Checked
  <2>3. (\A u \in Users : Within(directs'[u]))
        /\ \A g \in Groups : Within(gshares'[g])
    <3>1. CASE PutCreateUser(p) \/ PutCreateGroup(p)
      BY <2>2, <3>1 DEF PutCreateUser, PutCreateGroup, CapsWithin, TypeOK,
           StoreTypeOK, PutSecretDirectShare, PutSecretGroupShare, storeVars
    <3>2. CASE CommitShare(p)
      BY <2>2, <3>2 DEF CommitShare, ShareSecret, CapsWithin
    <3>3. CASE \E g \in Groups : CommitShareGroup(p, g)
      BY <2>2, <3>3 DEF CommitShareGroup, ShareSecretGroup, CapsWithin, TypeOK,
           StoreTypeOK
    <3>4. CASE DropUser(p) \/ DropGroup(p)
      <4>1. Within("none")
        BY DEF Within
      <4> QED BY <3>4, <4>1 DEF DropUser, DropGroup, CapsWithin, TypeOK,
           StoreTypeOK, DeleteSecretDirectShare, DeleteSecretGroupShare,
           PutSecretDirectShare, PutSecretGroupShare, storeVars
    <3>5. CASE CommitDelete(p)
      BY <3>5 DEF CommitDelete, DeleteSecret, Within
    <3>6. CASE CommitCreate(p) \/ CommitRotate(p) \/ PutMeta(p) \/ PutBlob(p)
      BY <3>6 DEF CommitCreate, CommitRotate, PutMeta, PutBlob, CreateSecret,
           RotateSecret, PutSecretMeta, PutSecretCiphertext, CapsWithin
    <3>7. CASE \/ GetSecretMeta(p) \/ GetSecretCiphertext(p)
         \/ OpenEnvelope(p) \/ ReadAccess(p)
               \/ ReadGapEnvelopes(p) \/ ReadGapVersions(p)
               \/ ReadBlob(p) \/ ReadMeta(p) \/ RefuseRevoked(p)
               \/ SyncRead(p) \/ DropFails(p) \/ Abort(p)
      BY <3>7 DEF GetSecretMeta, GetSecretCiphertext, OpenEnvelope, ReadAccess, ReadGapEnvelopes,
           ReadGapVersions, ReadBlob, ReadMeta, RefuseRevoked, SyncRead,
           DropFails, Abort, storeVars, CapsWithin
    <3> QED BY <1>4, <3>1, <3>2, <3>3, <3>4, <3>5, <3>6, <3>7 DEF RequestStep
  <2> QED BY <2>1, <2>3 DEF CapsWithin
<1> QED BY <1>2, <1>3, <1>4, <1>5

\* Nobody but the owner ever acts with more than the owner hands out, for any
\* number of requests and whatever capabilities the recipients ask for.
THEOREM NoOneEscalates == Spec => []NoEscalation
<1>1. ASSUME TypeOK, CapsWithin, [Next]_vars PROVE CapsWithin'
  <2>1. CASE UNCHANGED vars
    BY <1>1, <2>1 DEF vars, CapsWithin
  <2> QED BY <1>1, <2>1, ClientWithin, RequestStepWithin, AdminWithin DEF Next
<1>2. ASSUME TypeOK, CapsWithin PROVE NoEscalation
  BY <1>2, EffectiveWithin DEF NoEscalation
<1>3. Spec => []CapsWithin
  BY InitCapsWithin, TypeCorrect, <1>1, PTL DEF Spec
<1> QED BY <1>2, <1>3, TypeCorrect, PTL

-----------------------------------------------------------------------------
(* One request in flight at a time.                                         *)

(* The key.  A request that goes on with a key it found has the key of the *)
(* ciphertext and the title; from ReadBlob on it has the version too.      *)

Wraps == {"share", "sharegroup", "reseal", "update"}

Agree == OldVersionsInvalid /\ EnvelopesOpen

Found(r) ==
  /\ r.op \in Wraps /\ r.pc \notin {"idle", "get", "getblob", "open", "gapenvs"} =>
       r.dk = blob.dk /\ r.dk = meta.title
  /\ r.op \in Wraps /\ r.pc \in {"meta", "commit", "sync", "putmeta", "putblob"} =>
       r.kv = blob.kv
  /\ r.op = "rotate" /\ r.pc \in {"meta", "commit"} => r.old = blob.kv
  /\ r.pc = "putmeta" => r.title = IF r.op = "update" THEN r.dk ELSE meta.title
  /\ r.pc = "putblob" => r.op = "update"
  /\ r.pc = "access" => r.op \in {"sharegroup", "rotate"}
  /\ r.pc = "drop" => r.op = "rotate"

-----------------------------------------------------------------------------
(* The shares.                                                             *)

Shared == \/ \E u \in Users : directs[u] # "none"
          \/ \E g \in Groups : gshares[g] # "none"
\* What the visibility says, by how far the request is.
VisibilityRight(r) ==
  CASE r.pc \in {"users", "groups"} ->
         meta.vis = "shared" <=> Shared \/ r.users # {} \/ r.groups # {}
    [] r.pc = "drop" -> TRUE
    [] r.pc = "sync" -> r.op # "rotate" => Shared
    [] r.pc = "putmeta" /\ r.op # "update" -> r.vis = "shared" <=> Shared
    [] OTHER -> MetaExists => (meta.vis = "shared" <=> Shared)

\* Nothing is shared before there is a secret.
NoneShared == NotYetCreated => ~Shared

-----------------------------------------------------------------------------
(* Every live envelope is of the ciphertext's version and opens it.        *)

\* What a step does with the request it works on.
LEMMA Became ==
  ASSUME TypeOK, NEW p \in Procs, NEW r, Become(p, r)
  PROVE  req'[p] = r
BY OthersUnchanged

\* A step that writes neither the ciphertext, its title nor envelopes.
LEMMA KeyFrame ==
  ASSUME TypeOK, NEW p \in Procs, NEW r, Become(p, r), UNCHANGED <<meta, blob, envs>>,
         Agree, Found(r)
  PROVE  Agree' /\ Found(req[p])'
<1>1. req'[p] = r
  BY Became
<1> QED
  BY <1>1 DEF Agree, OldVersionsInvalid, EnvelopesOpen, Live, Found

LEMMA FinishKey ==
  ASSUME TypeOK, NEW p \in Procs, Finish(p), UNCHANGED <<meta, blob, envs>>, Agree
  PROVE  Agree' /\ Found(req[p])'
<1>1. Found(Idle)
  BY DEF Found, Idle, Wraps
<1> QED
  BY <1>1, KeyFrame DEF Finish

\* A key that opens a live envelope is the one of the ciphertext.
LEMMA LiveKey ==
  ASSUME Agree, NEW u \in Users, NEW k \in LiveVersions(u)
  PROVE  envs[<<u, k>>].dk = blob.dk /\ envs[<<u, k>>].dk = meta.title /\ k = blob.kv
BY DEF Agree, OldVersionsInvalid, EnvelopesOpen, LiveVersions

LEMMA ClientKey ==
  ASSUME TypeOK, NEW p \in Procs, Agree, Found(req[p]),
         \/ GetSecretMeta(p) \/ GetSecretCiphertext(p)
         \/ OpenEnvelope(p) \/ ReadAccess(p)
         \/ ReadGapEnvelopes(p) \/ ReadGapVersions(p)
  PROVE  Agree' /\ Found(req[p])'
<1> DEFINE q == req[p]
<1>0. q \in Request /\ q.u \in Users
  BY DEF TypeOK, Request
<1> HIDE DEF q
<1>u. UNCHANGED <<meta, blob, envs>>
  BY DEF GetSecretMeta, GetSecretCiphertext, OpenEnvelope, ReadAccess, ReadGapEnvelopes,
         ReadGapVersions, storeVars
<1>1. CASE Finish(p)
  BY <1>1, <1>u, FinishKey
<1>2. CASE GetSecretMeta(p) /\ ~Finish(p)
  <2>1. Become(p, [q EXCEPT !.title = meta.title, !.pc = "getblob"])
    BY <1>2 DEF GetSecretMeta, q
  <2>2. Found([q EXCEPT !.title = meta.title, !.pc = "getblob"])
    BY <1>0 DEF Found, Request
  <2> QED
    BY <1>u, <2>1, <2>2, KeyFrame
<1>3. CASE GetSecretCiphertext(p) /\ ~Finish(p)
  <2>1. Become(p, [q EXCEPT !.kv = blob.kv, !.pdk = blob.dk, !.pc = "open"])
    BY <1>3 DEF GetSecretCiphertext, q
  <2>2. Found([q EXCEPT !.kv = blob.kv, !.pdk = blob.dk, !.pc = "open"])
    BY <1>0 DEF Found, Request
  <2> QED
    BY <1>u, <2>1, <2>2, KeyFrame
<1>4. CASE OpenEnvelope(p) /\ ~Finish(p)
  <2>1. PICK k \in LiveVersions(q.u) :
          Become(p, [q EXCEPT !.pdk = 0, !.title = 0,
                     !.dk = IF q.op = "rotate" THEN q.dk ELSE envs[<<q.u, k>>].dk,
                     !.to = IF q.batch THEN Holders ELSE q.to,
                     !.pc = IF q.op \in {"rotate", "sharegroup"} THEN "access" ELSE "auth"])
    BY <1>4 DEF OpenEnvelope, q
  <2> DEFINE dk == IF q.op = "rotate" THEN q.dk ELSE envs[<<q.u, k>>].dk
             to == IF q.batch THEN Holders ELSE q.to
             pc == IF q.op \in {"rotate", "sharegroup"} THEN "access" ELSE "auth"
             r == [q EXCEPT !.pdk = 0, !.title = 0, !.dk = dk, !.to = to, !.pc = pc]
  <2>2. q.op # "rotate" => dk = blob.dk /\ dk = meta.title
    BY <1>0, LiveKey
  <2>3. pc \in {"access", "auth"} /\ (pc = "access" => q.op \in {"sharegroup", "rotate"})
    OBVIOUS
  <2>4. Become(p, r)
    BY <2>1
  <2> HIDE DEF dk, to, pc
  <2>5. r.op = q.op /\ r.dk = dk /\ r.pc = pc
    BY <1>0 DEF Request
  <2> HIDE DEF r
  <2>6. Found(r)
    BY <2>2, <2>3, <2>5 DEF Found, Wraps
  <2> QED
    BY <1>u, <2>4, <2>6, KeyFrame
<1>5. CASE ReadAccess(p) /\ ~Finish(p)
  <2>1. PICK to, kv : Become(p, [q EXCEPT !.to = to, !.kv = kv, !.pc = "auth"])
    <3>1. \/ \E to : Become(p, [q EXCEPT !.to = to, !.pc = "auth"])
          \/ \E to : Become(p, [q EXCEPT !.to = to, !.kv = @ + 1, !.pc = "auth"])
      BY <1>5 DEF ReadAccess, q
    <3>2. \A to : [q EXCEPT !.to = to, !.pc = "auth"] = [q EXCEPT !.to = to, !.kv = q.kv, !.pc = "auth"]
      BY <1>0 DEF Request
    <3> QED
      BY <3>1, <3>2
  <2> DEFINE r == [q EXCEPT !.to = to, !.kv = kv, !.pc = "auth"]
  <2>2. r.op = q.op /\ r.dk = q.dk /\ r.pc = "auth"
    BY <1>0 DEF Request
  <2>3. Become(p, r) /\ q.pc = "access"
    BY <1>5, <2>1 DEF ReadAccess, At, q
  <2> HIDE DEF r
  <2>4. Found(r)
    BY <2>2, <2>3 DEF Found, Wraps, q
  <2> QED
    BY <1>u, <2>3, <2>4, KeyFrame
<1>6. CASE ReadGapEnvelopes(p) /\ ~Finish(p)
  <2>1. PICK k \in LiveVersions(q.u) :
          Become(p, [q EXCEPT !.dk = envs[<<q.u, k>>].dk, !.to = WithoutEnvelope, !.pc = "gapversions"])
    BY <1>6 DEF ReadGapEnvelopes, q
  <2> DEFINE r == [q EXCEPT !.dk = envs[<<q.u, k>>].dk, !.to = WithoutEnvelope, !.pc = "gapversions"]
  <2>2. r.pc = "gapversions" /\ r.dk = envs[<<q.u, k>>].dk
    BY <1>0 DEF Request
  <2>3. r.dk = blob.dk /\ r.dk = meta.title
    BY <1>0, <2>2, LiveKey
  <2>4. Become(p, r)
    BY <2>1
  <2> HIDE DEF r
  <2>5. Found(r)
    BY <2>2, <2>3 DEF Found
  <2> QED
    BY <1>u, <2>4, <2>5, KeyFrame
<1>7. CASE ReadGapVersions(p) /\ ~Finish(p)
  <2>1. PICK to : Become(p, [q EXCEPT !.to = to, !.kv = blob.kv, !.pc = "auth"])
    BY <1>7 DEF ReadGapVersions, q
  <2> DEFINE r == [q EXCEPT !.to = to, !.kv = blob.kv, !.pc = "auth"]
  <2>2. r.op = q.op /\ r.dk = q.dk /\ r.pc = "auth"
    BY <1>0 DEF Request
  <2>3. Become(p, r) /\ q.pc = "gapversions"
    BY <1>7, <2>1 DEF ReadGapVersions, At, q
  <2> HIDE DEF r
  <2>4. Found(r)
    BY <2>2, <2>3 DEF Found, Wraps, q
  <2> QED
    BY <1>u, <2>3, <2>4, KeyFrame
<1> QED
  BY <1>1, <1>2, <1>3, <1>4, <1>5, <1>6, <1>7

LEMMA HandlerKey ==
  ASSUME TypeOK, NEW p \in Procs, Agree, Found(req[p]),
         \/ Authorize(p) \/ (\E g \in Groups : KeepCap(p, g)) \/ LoseCap(p)
         \/ ReadBlob(p) \/ ReadMeta(p) \/ RefuseRevoked(p) \/ SyncRead(p)
         \/ DropFails(p) \/ Abort(p)
  PROVE  Agree' /\ Found(req[p])'
<1> DEFINE q == req[p]
<1>0. q \in Request
  BY DEF TypeOK
<1> HIDE DEF q
<1>u. UNCHANGED <<meta, blob, envs>>
  BY DEF Authorize, KeepCap, LoseCap, ReadBlob, ReadMeta, RefuseRevoked, SyncRead, DropFails, Abort,
         storeVars
<1>1. CASE Finish(p) \/ RefuseRevoked(p) \/ Abort(p)
  BY <1>1, <1>u, FinishKey DEF RefuseRevoked, Abort
\* The steps that keep version, key and what was read.
<1>2. ASSUME NEW r, Become(p, r), r.op = q.op, r.dk = q.dk, r.kv = q.kv, r.old = q.old,
             r.title = q.title, r.pc \in {"cap", "blob", "drop"} \/ (r.pc = "commit" /\ r.op = "delete"),
             q.pc \in {"auth", "cap", "drop"}, r.pc = "drop" => q.pc = "drop"
      PROVE  Agree' /\ Found(req[p])'
  <2>1. Found(r)
    BY <1>2 DEF Found, Wraps, q
  <2> QED
    BY <1>u, <1>2, <2>1, KeyFrame
<1>3. CASE Authorize(p) /\ ~Finish(p)
  <2>1. PICK cap, pc :
          /\ (pc = "commit" /\ q.op = "delete") \/ pc \in {"cap", "blob"}
          /\ Become(p, [q EXCEPT !.cap = cap, !.pc = pc])
    BY <1>3 DEF Authorize, q
  <2> DEFINE r == [q EXCEPT !.cap = cap, !.pc = pc]
  <2>2. /\ r.op = q.op /\ r.dk = q.dk /\ r.kv = q.kv /\ r.old = q.old /\ r.title = q.title
        /\ r.pc = pc
    BY <1>0 DEF Request
  <2>3. q.pc = "auth" /\ Become(p, r)
    BY <1>3, <2>1 DEF Authorize, At, q
  <2> HIDE DEF r
  <2> QED
    BY <1>2, <2>1, <2>2, <2>3
<1>4. CASE (\E g \in Groups : KeepCap(p, g)) \/ LoseCap(p)
  <2>1. PICK cap : Become(p, [q EXCEPT !.pc = "blob", !.cap = cap])
    BY <1>4 DEF KeepCap, LoseCap, q
  <2> DEFINE r == [q EXCEPT !.pc = "blob", !.cap = cap]
  <2>2. /\ r.op = q.op /\ r.dk = q.dk /\ r.kv = q.kv /\ r.old = q.old /\ r.title = q.title
        /\ r.pc = "blob"
    BY <1>0 DEF Request
  <2>3. q.pc = "cap" /\ Become(p, r)
    BY <1>4, <2>1 DEF KeepCap, LoseCap, At, q
  <2> HIDE DEF r
  <2> QED
    BY <1>2, <2>2, <2>3
<1>5. CASE DropFails(p)
  <2>1. PICK r : /\ Become(p, r)
                 /\ \/ \E us : r = [q EXCEPT !.users = us]
                    \/ \E gs : r = [q EXCEPT !.groups = gs]
    BY <1>5 DEF DropFails, q
  <2>2. q.pc = "drop"
    BY <1>5 DEF DropFails, At, q
  <2>3. /\ r.op = q.op /\ r.dk = q.dk /\ r.kv = q.kv /\ r.old = q.old /\ r.title = q.title
        /\ r.pc = "drop"
    BY <1>0, <2>1, <2>2 DEF Request
  <2> QED
    BY <1>2, <2>1, <2>2, <2>3
<1>6. CASE ReadBlob(p) /\ ~Finish(p)
  <2> DEFINE old == IF q.op = "rotate" THEN blob.kv ELSE 0
             pc == IF q.op \in {"update", "rotate"} THEN "meta" ELSE "commit"
             r == [q EXCEPT !.old = old, !.pc = pc]
  <2>1. Become(p, r) /\ q.pc = "blob" /\ (q.op = "rotate" \/ q.kv = blob.kv)
    BY <1>6 DEF ReadBlob, At, q
  <2> HIDE DEF old, pc
  <2>2. r.op = q.op /\ r.dk = q.dk /\ r.kv = q.kv /\ r.old = old /\ r.pc = pc
    BY <1>0 DEF Request
  <2> HIDE DEF r
  <2>3. Found(r)
    BY <2>1, <2>2 DEF Found, Wraps, old, pc, q
  <2> QED
    BY <1>u, <2>1, <2>3, KeyFrame
<1>7. CASE ReadMeta(p) /\ ~Finish(p)
  <2> DEFINE pc == IF q.op = "update" THEN "putmeta" ELSE "commit"
             r == [q EXCEPT !.vis = meta.vis, !.title = q.dk, !.pc = pc]
  <2>1. Become(p, r) /\ q.pc = "meta"
    BY <1>7 DEF ReadMeta, At, q
  <2> HIDE DEF pc
  <2>2. r.op = q.op /\ r.dk = q.dk /\ r.kv = q.kv /\ r.old = q.old /\ r.title = q.dk /\ r.pc = pc
    BY <1>0 DEF Request
  <2> HIDE DEF r
  <2>3. Found(r)
    BY <2>1, <2>2 DEF Found, Wraps, pc, q
  <2> QED
    BY <1>u, <2>1, <2>3, KeyFrame
<1>8. CASE SyncRead(p) /\ ~Finish(p)
  <2>1. PICK vis : Become(p, [q EXCEPT !.vis = vis, !.title = meta.title, !.pc = "putmeta"])
    BY <1>8 DEF SyncRead, q
  <2> DEFINE r == [q EXCEPT !.vis = vis, !.title = meta.title, !.pc = "putmeta"]
  <2>2. Become(p, r) /\ q.pc = "sync"
    BY <1>8, <2>1 DEF SyncRead, At, q
  <2>3. r.op = q.op /\ r.dk = q.dk /\ r.kv = q.kv /\ r.old = q.old /\ r.title = meta.title
        /\ r.pc = "putmeta"
    BY <1>0 DEF Request
  <2> HIDE DEF r
  <2>4. Found(r)
    BY <2>2, <2>3 DEF Found, Wraps, q
  <2> QED
    BY <1>u, <2>2, <2>4, KeyFrame
<1> QED
  BY <1>1, <1>3, <1>4, <1>5, <1>6, <1>7, <1>8

\* The steps that write to the store.
LEMMA CommitKey ==
  ASSUME TypeOK, CreatedOnce, NEW p \in Procs, Agree, Found(req[p]),
         \/ CommitCreate(p) \/ PutCreateUser(p) \/ PutCreateGroup(p)
         \/ CommitShare(p) \/ (\E g \in Groups : CommitShareGroup(p, g))
         \/ CommitRotate(p) \/ DropUser(p) \/ DropGroup(p)
         \/ CommitDelete(p) \/ PutMeta(p) \/ PutBlob(p)
  PROVE  Agree' /\ Found(req[p])'
<1> DEFINE q == req[p]
<1>0. q \in Request /\ q.kv \in 0 .. MaxVersion /\ envs \in EnvelopeTable
  BY DEF TypeOK, StoreTypeOK, Request, EnvelopeTable
<1>g. ASSUME NEW label, Goto(p, label)
      PROVE  \E r : /\ req'[p] = r /\ Become(p, r) /\ r.pc = label
                    /\ r.op = q.op /\ r.dk = q.dk /\ r.kv = q.kv /\ r.old = q.old /\ r.title = q.title
  <2> DEFINE r == [q EXCEPT !.pc = label]
  <2>1. Become(p, r)
    BY <1>g DEF Goto
  <2>2. r.op = q.op /\ r.dk = q.dk /\ r.kv = q.kv /\ r.old = q.old /\ r.title = q.title /\ r.pc = label
    BY <1>0 DEF Request
  <2> HIDE DEF r
  <2> QED
    BY <2>1, <2>2, Became
<1> HIDE DEF q
<1>1. CASE CommitCreate(p)
  <2>1. CreateSecret(q.vis, q.dk, q.to) /\ Goto(p, "users") /\ q.op = "create" /\ q.pc = "commit"
    BY <1>1 DEF CommitCreate, At, q
  <2>2. \A u \in Users, k \in Versions : envs[<<u, k>>].state = "absent"
    BY <2>1 DEF CreatedOnce, NotYetCreated, Creating, q
  <2>3. Agree'
    BY <2>1, <2>2 DEF CreateSecret, EnvelopesPut, Agree, OldVersionsInvalid, EnvelopesOpen, Live
  <2>4. Found(req[p])'
    BY <2>1, <1>g DEF Found, Wraps
  <2> QED
    BY <2>3, <2>4
<1>2. CASE PutCreateUser(p) \/ PutCreateGroup(p) \/ DropUser(p) \/ DropGroup(p)
  <2>1. UNCHANGED <<meta, blob, envs>>
    BY <1>2 DEF PutCreateUser, PutCreateGroup, DropUser, DropGroup, PutSecretDirectShare,
       PutSecretGroupShare, DeleteSecretDirectShare, DeleteSecretGroupShare, storeVars
  <2>2. CASE Finish(p)
    BY <2>1, <2>2, FinishKey
  <2>3. ASSUME NEW r, Become(p, r), r.op = q.op, r.dk = q.dk, r.kv = q.kv, r.old = q.old,
               r.pc \in {"users", "groups", "drop", "sync"},
               r.pc = "sync" => q.pc = "drop" /\ r.op \notin Wraps, r.pc = "drop" => q.pc = "drop",
               q.pc \in {"users", "groups", "drop"}
        PROVE  Agree' /\ Found(req[p])'
    <3>1. Found(r)
      BY <2>3 DEF Found, Wraps, q
    <3> QED
      BY <2>1, <2>3, <3>1, KeyFrame
  <2>4. ASSUME NEW us, Become(p, [q EXCEPT !.users = us]) \/ Become(p, [q EXCEPT !.groups = us]),
               q.pc \in {"users", "groups", "drop"}
        PROVE  Agree' /\ Found(req[p])'
    <3>1. PICK r : Become(p, r) /\ (r = [q EXCEPT !.users = us] \/ r = [q EXCEPT !.groups = us])
      BY <2>4
    <3>2. r.op = q.op /\ r.dk = q.dk /\ r.kv = q.kv /\ r.old = q.old /\ r.pc = q.pc
      BY <1>0, <3>1 DEF Request
    <3> QED
      BY <2>3, <2>4, <3>1, <3>2
  <2>5. q.pc \in {"users", "groups", "drop"}
    BY <1>2 DEF PutCreateUser, PutCreateGroup, DropUser, DropGroup, At, q
  <2>6. ASSUME Goto(p, "groups") \/ (Goto(p, "sync") /\ q.pc = "drop")
        PROVE  Agree' /\ Found(req[p])'
    <3>1. q.pc = "drop" => q.op \notin Wraps
      BY DEF Found, Wraps, q
    <3> QED
      BY <1>g, <2>3, <2>5, <2>6, <3>1
  <2> QED
    BY <1>2, <2>2, <2>4, <2>5, <2>6 DEF PutCreateUser, PutCreateGroup, DropUser, DropGroup, At, q
<1>3. ASSUME NEW to, NEW k, NEW dk, envs' = EnvelopesPut(envs, to, k, dk), UNCHANGED <<meta, blob>>,
             k = blob.kv, dk = blob.dk, dk = meta.title
      PROVE  Agree'
  BY <1>3 DEF EnvelopesPut, Agree, OldVersionsInvalid, EnvelopesOpen, Live
<1>4. CASE CommitShare(p) \/ (\E g \in Groups : CommitShareGroup(p, g))
  <2>1. /\ envs' = EnvelopesPut(envs, q.to, q.kv, q.dk) /\ UNCHANGED <<meta, blob>>
        /\ Goto(p, "sync") /\ q.op \in Wraps \ {"update"} /\ q.pc = "commit"
    BY <1>4 DEF CommitShare, CommitShareGroup, ShareSecret, ShareSecretGroup, At, Wraps, q
  <2>2. q.kv = blob.kv /\ q.dk = blob.dk /\ q.dk = meta.title
    BY <2>1 DEF Found, q
  <2>3. Agree'
    BY <1>3, <2>1, <2>2
  <2>4. PICK r : req'[p] = r /\ r.pc = "sync" /\ r.op = q.op /\ r.dk = q.dk /\ r.kv = q.kv
    BY <1>g, <2>1
  <2>5. Found(req[p])'
    BY <2>1, <2>2, <2>4 DEF Found, Wraps
  <2> QED
    BY <2>3, <2>5
<1>5. CASE CommitRotate(p)
  <2>1. RotateSecret(q.old, q.vis, q.kv, q.dk, q.to) /\ Goto(p, "drop") /\ q.op = "rotate" /\ q.pc = "commit"
    BY <1>5 DEF CommitRotate, At, q
  <2>2. q.old = blob.kv
    BY <2>1 DEF Found, q
  <2>3. ASSUME NEW u \in Users, NEW k \in Versions, Live(u, k)'
        PROVE  k = q.kv /\ envs'[<<u, k>>].dk = q.dk
    <3>1. envs' = EnvelopesPut(EnvelopesRevoked(envs, Users, {blob.kv}), q.to, q.kv, q.dk)
      BY <2>1, <2>2 DEF RotateSecret
    <3>2. Live(u, k) => k = blob.kv
      BY DEF Agree, OldVersionsInvalid
    <3>3. EnvelopesRevoked(envs, Users, {blob.kv})[<<u, k>>].state # "live"
      BY <1>0, <3>2 DEF EnvelopesRevoked, EnvelopeTable, EnvelopeRow, Live
    <3> QED
      BY <2>3, <3>1, <3>3 DEF EnvelopesPut, Live
  <2>4. Agree'
    BY <2>1, <2>3 DEF RotateSecret, Agree, OldVersionsInvalid, EnvelopesOpen
  <2>5. Found(req[p])'
    BY <1>g, <2>1 DEF Found, Wraps
  <2> QED
    BY <2>4, <2>5
<1>6. CASE CommitDelete(p)
  <2>1. DeleteSecret /\ Finish(p)
    BY <1>6 DEF CommitDelete
  <2>2. Agree'
    BY <2>1 DEF DeleteSecret, NoEnvelope, Agree, OldVersionsInvalid, EnvelopesOpen, Live
  <2>3. req'[p] = Idle
    BY <2>1, Became DEF Finish
  <2> QED
    BY <2>2, <2>3 DEF Found, Idle, Wraps
<1>7. CASE PutMeta(p)
  <2>1. /\ meta' = [vis |-> q.vis, title |-> q.title] /\ UNCHANGED <<blob, envs>> /\ q.pc = "putmeta"
        /\ IF q.op = "update" THEN Goto(p, "putblob") ELSE Finish(p)
    BY <1>7 DEF PutMeta, PutSecretMeta, At, q
  <2>2. q.title = meta.title
    BY <2>1 DEF Found, Wraps, q
  <2>3. Agree'
    BY <2>1, <2>2 DEF Agree, OldVersionsInvalid, EnvelopesOpen, Live
  <2>4. CASE q.op = "update"
    <3>1. PICK r : req'[p] = r /\ r.pc = "putblob" /\ r.op = q.op /\ r.dk = q.dk /\ r.kv = q.kv
      BY <1>g, <2>1, <2>4
    <3>2. q.dk = blob.dk /\ q.dk = meta.title /\ q.kv = blob.kv
      BY <2>1, <2>4 DEF Found, Wraps, q
    <3>3. Found(req[p])'
      BY <2>1, <2>2, <2>4, <3>1, <3>2 DEF Found
    <3> QED
      BY <2>3, <3>3
  <2>5. CASE q.op # "update"
    <3>1. req'[p] = Idle
      BY <2>1, <2>5, Became DEF Finish
    <3> QED
      BY <2>3, <3>1 DEF Found, Idle, Wraps
  <2> QED
    BY <2>4, <2>5
<1>8. CASE PutBlob(p)
  <2>1. /\ blob' = [kv |-> q.kv, dk |-> q.dk] /\ UNCHANGED <<meta, envs>> /\ q.pc = "putblob" /\ Finish(p)
    BY <1>8 DEF PutBlob, PutSecretCiphertext, At, q
  <2>2. q.kv = blob.kv /\ q.dk = blob.dk
    BY <2>1 DEF Found, Wraps, q
  <2>3. Agree'
    BY <2>1, <2>2 DEF Agree, OldVersionsInvalid, EnvelopesOpen, Live
  <2>4. req'[p] = Idle
    BY <2>1, Became DEF Finish
  <2> QED
    BY <2>3, <2>4 DEF Found, Idle, Wraps
<1> QED
  BY <1>1, <1>2, <1>4, <1>5, <1>6, <1>7, <1>8

\* The requests that clients start.
Begun(r) ==
  /\ r.batch => r.op = "rotate"
  /\ \/ /\ r.op = "create" /\ r.pc = "commit" /\ keys = 0 /\ r.u = Owner /\ r.cap \in OwnerCaps
        /\ r.users \subseteq Shareable \ {Owner} /\ r.groups \subseteq Groups
        /\ r.to = {Owner} \cup r.users \cup (Shareable \cap MembersOf(r.groups))
        /\ r.vis = IF r.users = {} /\ r.groups = {} THEN "private" ELSE "shared"
     \/ /\ r.op = "share" /\ r.pc = "get" /\ r.cap \in AskedCaps(r.u)
        /\ \E u \in Users : r.to = {u} /\ u # r.u
     \/ /\ r.op = "sharegroup" /\ r.pc = "get" /\ r.cap \in AskedCaps(r.u)
        /\ \E g \in Groups : r.groups = {g}
     \/ r.op = "reseal" /\ r.pc = "gapenvs" /\ r.cap = "none" /\ \E g \in Groups : r.groups = {g}
     \/ r.op \in {"update", "rotate"} /\ r.pc = "get" /\ r.to = {}
     \/ r.op = "delete" /\ r.pc = "auth"

LEMMA BeginsAs ==
  ASSUME TypeOK, NEW p \in Procs, ClientBegins(p)
  PROVE  /\ UNCHANGED <<storeVars, status>>
         /\ req[p].pc = "idle"
         /\ \E r : Become(p, r) /\ Begun(r)
<1> DEFINE B == \E r : Become(p, r) /\ Begun(r)
<1>0. UNCHANGED <<storeVars, status>> /\ req[p].pc = "idle"
  BY DEF ClientBegins, BeginCreate, BeginShare, BeginShareGroup, BeginReseal, BeginUpdate,
     BeginRotate, BeginBatchUnshare, BeginRotation, BeginDelete, At
<1>1. ASSUME NEW us \in SUBSET Users, NEW gs \in SUBSET Groups, NEW cap \in OwnerCaps,
             BeginCreate(p, us, gs, cap)
      PROVE  B
  <2> DEFINE to == {Owner} \cup us \cup (Shareable \cap MembersOf(gs))
             vis == IF us = {} /\ gs = {} THEN "private" ELSE "shared"
             r == [Idle EXCEPT !.op = "create", !.pc = "commit", !.kv = 1, !.dk = 1, !.to = to,
                               !.users = us, !.groups = gs, !.cap = cap, !.vis = vis]
  <2>1. Become(p, r) /\ keys = 0 /\ us \subseteq Shareable \ {Owner}
    BY <1>1 DEF BeginCreate
  <2> HIDE DEF to, vis
  <2>2. /\ r.op = "create" /\ r.pc = "commit" /\ r.u = Owner /\ r.cap = cap
        /\ r.users = us /\ r.groups = gs /\ r.to = to /\ r.vis = vis /\ ~r.batch
    BY DEF Idle
  <2> HIDE DEF r
  <2>3. Begun(r)
    BY <2>1, <2>2 DEF Begun, to, vis
  <2> QED
    BY <2>1, <2>3
<1>2. ASSUME NEW u \in Users, NEW to \in Users, NEW cap \in AskedCaps(u), BeginShare(p, u, to, cap)
      PROVE  B
  <2> DEFINE r == [Idle EXCEPT !.op = "share", !.pc = "get", !.u = u, !.to = {to}, !.cap = cap]
  <2>1. Become(p, r) /\ to # u
    BY <1>2 DEF BeginShare
  <2>2. r.op = "share" /\ r.pc = "get" /\ r.u = u /\ r.to = {to} /\ r.cap = cap /\ ~r.batch
    BY DEF Idle
  <2> HIDE DEF r
  <2> QED
    BY <2>1, <2>2 DEF Begun
<1>3. ASSUME NEW u \in Users, NEW g \in Groups, NEW cap \in AskedCaps(u), BeginShareGroup(p, u, g, cap)
      PROVE  B
  <2> DEFINE r == [Idle EXCEPT !.op = "sharegroup", !.pc = "get", !.u = u, !.groups = {g}, !.cap = cap]
  <2>1. Become(p, r)
    BY <1>3 DEF BeginShareGroup
  <2>2. r.op = "sharegroup" /\ r.pc = "get" /\ r.u = u /\ r.groups = {g} /\ r.cap = cap /\ ~r.batch
    BY DEF Idle
  <2> HIDE DEF r
  <2> QED
    BY <2>1, <2>2 DEF Begun
<1>4. ASSUME NEW u \in Users, NEW g \in Groups, BeginReseal(p, u, g)
      PROVE  B
  <2> DEFINE r == [Idle EXCEPT !.op = "reseal", !.pc = "gapenvs", !.u = u, !.groups = {g}]
  <2>1. Become(p, r) /\ r.op = "reseal" /\ r.pc = "gapenvs" /\ r.groups = {g} /\ r.cap = "none"
        /\ ~r.batch
    BY <1>4 DEF BeginReseal, Idle
  <2> QED
    BY <2>1 DEF Begun
<1>5. ASSUME NEW u \in Users, BeginUpdate(p, u)
      PROVE  B
  <2> DEFINE r == [Idle EXCEPT !.op = "update", !.pc = "get", !.u = u]
  <2>1. Become(p, r) /\ r.op = "update" /\ r.pc = "get" /\ r.to = {} /\ ~r.batch
    BY <1>5 DEF BeginUpdate, Idle
  <2> QED
    BY <2>1 DEF Begun
<1>7. ASSUME NEW u \in Users, BeginDelete(p, u)
      PROVE  B
  <2> DEFINE r == [Idle EXCEPT !.op = "delete", !.pc = "auth", !.u = u]
  <2>1. Become(p, r) /\ r.op = "delete" /\ r.pc = "auth" /\ ~r.batch
    BY <1>7 DEF BeginDelete, Idle
  <2> QED
    BY <2>1 DEF Begun
<1>6. ASSUME NEW u \in Users, NEW us \in SUBSET Users, NEW gs \in SUBSET Groups,
             NEW batch \in BOOLEAN, BeginRotation(p, u, us, gs, batch)
      PROVE  B
  <2> DEFINE r == [Idle EXCEPT !.op = "rotate", !.pc = "get", !.u = u, !.dk = keys + 1,
                               !.users = us, !.groups = gs, !.batch = batch]
  <2>1. Become(p, r) /\ r.op = "rotate" /\ r.pc = "get" /\ r.to = {}
    BY <1>6 DEF BeginRotation, Idle
  <2> QED
    BY <2>1 DEF Begun
<1> QED
  BY <1>0, <1>1, <1>2, <1>3, <1>4, <1>5, <1>6, <1>7
     DEF ClientBegins, BeginRotate, BeginBatchUnshare

\* The other steps.
LEMMA OtherKey ==
  ASSUME TypeOK, NEW p \in Procs, Agree, Found(req[p]), ClientBegins(p) \/ AdminStep(p)
  PROVE  Agree' /\ Found(req[p])'
<1>1. CASE AdminStep(p)
  <2>1. UNCHANGED <<meta, blob, req>> /\ req[p].pc = "idle"
    BY <1>1 DEF AdminStep, AddMember, RemoveMember, RemoveGroup, DisableUser, OnboardUser,
       AddGroupMember, RemoveGroupMember, DeleteGroup, storeVars, At
  <2>2. envs' = envs \/ \E u \in Users : envs' = EnvelopesRevoked(envs, {u}, Versions)
    BY <1>1 DEF AdminStep, AddMember, RemoveMember, RemoveGroup, DisableUser, OnboardUser,
       AddGroupMember, RemoveGroupMember, DeleteGroup, storeVars
  <2>3. ASSUME NEW u \in Users, NEW k \in Versions, Live(u, k)'
        PROVE  Live(u, k) /\ envs'[<<u, k>>] = envs[<<u, k>>]
    <3>1. envs \in EnvelopeTable
      BY DEF TypeOK, StoreTypeOK, EnvelopeTable
    <3> QED
      BY <2>2, <2>3, <3>1 DEF EnvelopesRevoked, Live, EnvelopeTable, EnvelopeRow
  <2>4. Agree'
    BY <2>1, <2>3 DEF Agree, OldVersionsInvalid, EnvelopesOpen
  <2> QED
    BY <2>1, <2>4 DEF Found
<1>2. CASE ClientBegins(p)
  <2>1. PICK r : Become(p, r) /\ Begun(r)
    BY <1>2, BeginsAs
  <2>2. UNCHANGED <<meta, blob, envs>>
    BY <1>2, BeginsAs DEF storeVars
  <2>3. Found(r)
    BY <2>1 DEF Begun, Found, Wraps
  <2> QED
    BY <2>1, <2>2, <2>3, KeyFrame
<1> QED
  BY <1>1, <1>2

\* One request at a time: every live envelope is of the ciphertext's version.
LEMMA NextKey ==
  ASSUME NEW p, Procs = {p}, TypeOK, CreatedOnce, Agree, Found(req[p]), [Next]_vars
  PROVE  Agree' /\ Found(req[p])'
<1>0. p \in Procs
  OBVIOUS
<1>1. CASE ClientBegins(p) \/ AdminStep(p)
  BY <1>0, <1>1, OtherKey
<1>2. CASE Abort(p)
  BY <1>0, <1>2, HandlerKey
<1>3. CASE RequestStep(p)
  BY <1>0, <1>3, ClientKey, HandlerKey, CommitKey DEF RequestStep
<1>4. CASE UNCHANGED vars
  BY <1>4 DEF vars, Agree, OldVersionsInvalid, EnvelopesOpen, Live, Found
<1> QED
  BY <1>1, <1>2, <1>3, <1>4 DEF Next

\* The envelopes of one request at a time are all of the ciphertext's version:
\* a rotation revokes exactly what it supersedes.
THEOREM OldVersionsGone ==
  ASSUME NEW p, Procs = {p}
  PROVE  Spec => []OldVersionsInvalid
<1> DEFINE A == Agree /\ Found(req[p])
<1>1. Init => A
  BY DEF Init, StoreInit, Agree, OldVersionsInvalid, EnvelopesOpen, Live, NoEnvelope, Found, Idle,
     Wraps
<1>2. TypeOK /\ CreatedOnce /\ A /\ [Next]_vars => A'
  BY NextKey
<1>3. A => OldVersionsInvalid
  BY DEF Agree
<1>4. TypeOK /\ CreatedOnce /\ [Next]_vars => CreatedOnce'
  BY NextCreatedOnce
<1> HIDE DEF A
<1> QED
  BY <1>1, <1>2, <1>3, <1>4, InitCreatedOnce, TypeCorrect, PTL DEF Spec

\* And each opens the payload and the title that are stored.
THEOREM EnvelopesKeepOpening ==
  ASSUME NEW p, Procs = {p}
  PROVE  Spec => []EnvelopesOpen
<1> DEFINE A == Agree /\ Found(req[p])
<1>1. Init => A
  BY DEF Init, StoreInit, Agree, OldVersionsInvalid, EnvelopesOpen, Live, NoEnvelope, Found, Idle,
     Wraps
<1>2. TypeOK /\ CreatedOnce /\ A /\ [Next]_vars => A'
  BY NextKey
<1>3. A => EnvelopesOpen
  BY DEF Agree
<1>4. TypeOK /\ CreatedOnce /\ [Next]_vars => CreatedOnce'
  BY NextCreatedOnce
<1> HIDE DEF A
<1> QED
  BY <1>1, <1>2, <1>3, <1>4, InitCreatedOnce, TypeCorrect, PTL DEF Spec

-----------------------------------------------------------------------------
(* Where a request goes from each of its reads.                            *)

ReadStep(p) ==
  \/ GetSecretMeta(p) \/ GetSecretCiphertext(p) \/ OpenEnvelope(p) \/ ReadAccess(p)
  \/ ReadGapEnvelopes(p) \/ ReadGapVersions(p)
  \/ Authorize(p) \/ (\E g \in Groups : KeepCap(p, g)) \/ LoseCap(p)
  \/ ReadBlob(p) \/ ReadMeta(p) \/ SyncRead(p)

Goes(q, r) ==
  /\ r.op = q.op /\ r.u = q.u /\ r.users = q.users /\ r.groups = q.groups
  /\ r.batch = q.batch
  /\ CASE q.pc = "get" -> r.pc = "getblob" /\ r.to = q.to /\ r.cap = q.cap
       [] q.pc = "getblob" -> r.pc = "open" /\ r.to = q.to /\ r.cap = q.cap
       [] q.pc = "open" ->
            /\ r.pc = IF q.op \in {"rotate", "sharegroup"} THEN "access" ELSE "auth"
            /\ r.to = (IF q.batch THEN Holders ELSE q.to) /\ r.cap = q.cap
       [] q.pc = "access" -> /\ r.pc = "auth" /\ r.cap = q.cap
                             /\ q.op # "sharegroup" => r.to = Recipients(q) /\ r.kv \in Versions
       [] q.pc = "gapenvs" -> r.pc = "gapversions" /\ r.cap = q.cap
       [] q.pc = "gapversions" -> r.pc = "auth" /\ r.cap = q.cap
       [] q.pc = "auth" -> /\ Authorized(q) /\ r.to = q.to /\ r.kv = q.kv
                           /\ r.cap = IF q.op = "reseal" THEN "write" ELSE q.cap
                           /\ r.pc = CASE q.op = "delete" -> "commit"
                                       [] q.op = "reseal" /\ \E g \in q.groups : gshares[g] # "none" -> "cap"
                                       [] OTHER -> "blob"
       [] q.pc = "cap" -> /\ r.pc = "blob" /\ r.to = q.to
                          /\ \/ "dberror" \in Ops /\ r.cap = "write"
                             \/ \E g \in q.groups :
                                  r.cap = IF gshares[g] = "none" THEN "write" ELSE gshares[g]
       [] q.pc = "blob" -> /\ BlobExists /\ r.to = q.to /\ r.cap = q.cap /\ r.kv = q.kv
                           /\ q.op = "rotate" => q.kv > blob.kv
                           /\ q.op \in {"sharegroup", "reseal"} => q.to \subseteq MembersOf(q.groups)
                           /\ r.pc = IF q.op \in {"update", "rotate"} THEN "meta" ELSE "commit"
       [] q.pc = "meta" -> /\ MetaExists /\ r.to = q.to /\ r.cap = q.cap /\ r.kv = q.kv
                           /\ r.vis = meta.vis
                           /\ r.pc = IF q.op = "update" THEN "putmeta" ELSE "commit"
       [] q.pc = "sync" -> /\ MetaExists /\ r.pc = "putmeta" /\ r.to = q.to /\ r.cap = q.cap
                           /\ r.vis = IF SharedAfter(q) THEN "shared" ELSE "private"
       [] OTHER -> FALSE

LEMMA ReadsGo ==
  ASSUME TypeOK, NEW p \in Procs, ReadStep(p)
  PROVE  /\ UNCHANGED <<storeVars, status, keys>>
         /\ Finish(p) \/ \E r : Become(p, r) /\ Goes(req[p], r)
<1> DEFINE q == req[p]
           G == Finish(p) \/ \E r : Become(p, r) /\ Goes(q, r)
<1>0. q \in Request /\ blob.kv \in 0 .. MaxVersion /\ MaxVersion \in Nat
  BY VersionAssumption DEF TypeOK, StoreTypeOK, BlobRow
<1>1. UNCHANGED <<storeVars, status, keys>>
  BY DEF ReadStep, GetSecretMeta, GetSecretCiphertext, OpenEnvelope, ReadAccess, ReadGapEnvelopes,
         ReadGapVersions, Authorize, KeepCap, LoseCap, ReadBlob, ReadMeta, SyncRead
<1> HIDE DEF q
<1>2. ASSUME GetSecretMeta(p), ~Finish(p) PROVE G
  <2> DEFINE r == [q EXCEPT !.title = meta.title, !.pc = "getblob"]
  <2>1. Become(p, r) /\ q.pc = "get"
    BY <1>0, <1>2 DEF GetSecretMeta, At, q
  <2>2. /\ r.op = q.op /\ r.u = q.u /\ r.users = q.users /\ r.groups = q.groups /\ r.batch = q.batch
        /\ r.pc = "getblob" /\ r.to = q.to /\ r.cap = q.cap
    BY <1>0 DEF Request
  <2> HIDE DEF r
  <2>3. Goes(q, r)
    BY <1>0, <2>1, <2>2 DEF Goes, Versions
  <2> QED
    BY <2>1, <2>3
<1>3. ASSUME GetSecretCiphertext(p), ~Finish(p) PROVE G
  <2> DEFINE r == [q EXCEPT !.kv = blob.kv, !.pdk = blob.dk, !.pc = "open"]
  <2>1. Become(p, r) /\ q.pc = "getblob"
    BY <1>0, <1>3 DEF GetSecretCiphertext, At, q
  <2>2. /\ r.op = q.op /\ r.u = q.u /\ r.users = q.users /\ r.groups = q.groups /\ r.batch = q.batch
        /\ r.pc = "open" /\ r.to = q.to /\ r.cap = q.cap
    BY <1>0 DEF Request
  <2> HIDE DEF r
  <2>3. Goes(q, r)
    BY <1>0, <2>1, <2>2 DEF Goes, Versions
  <2> QED
    BY <2>1, <2>3
<1>4. ASSUME OpenEnvelope(p), ~Finish(p) PROVE G
  <2>1. PICK d :
          Become(p, [q EXCEPT !.pdk = 0, !.title = 0, !.dk = IF q.op = "rotate" THEN q.dk ELSE d,
                              !.to = IF q.batch THEN Holders ELSE q.to,
                              !.pc = IF q.op \in {"rotate", "sharegroup"} THEN "access" ELSE "auth"])
    BY <1>0, <1>4 DEF OpenEnvelope, q
  <2> DEFINE dk == IF q.op = "rotate" THEN q.dk ELSE d
             to == IF q.batch THEN Holders ELSE q.to
             pc == IF q.op \in {"rotate", "sharegroup"} THEN "access" ELSE "auth"
  <2> DEFINE r == [q EXCEPT !.pdk = 0, !.title = 0, !.dk = dk, !.to = to, !.pc = pc]
  <2>2. Become(p, r) /\ q.pc = "open"
    BY <1>0, <1>4, <2>1 DEF OpenEnvelope, At, q
  <2> HIDE DEF dk, to, pc
  <2>3. /\ r.op = q.op /\ r.u = q.u /\ r.users = q.users /\ r.groups = q.groups /\ r.batch = q.batch
        /\ r.pc = pc /\ r.to = to /\ r.cap = q.cap
    BY <1>0 DEF Request
  <2> HIDE DEF r
  <2>4. Goes(q, r)
    BY <1>0, <2>1, <2>2, <2>3 DEF Goes, Versions, dk, to, pc
  <2> QED
    BY <2>2, <2>4
<1>5. ASSUME ReadAccess(p), ~Finish(p) PROVE G
  <2>1. q.pc = "access"
    BY <1>5 DEF ReadAccess, At, q
  <2>2. CASE q.op = "sharegroup"
    <3>1. PICK to : Become(p, [q EXCEPT !.to = to, !.pc = "auth"])
      BY <1>5, <2>2 DEF ReadAccess, q
    <3> DEFINE r == [q EXCEPT !.to = to, !.pc = "auth"]
    <3>2. r.op = q.op /\ r.u = q.u /\ r.users = q.users /\ r.groups = q.groups /\ r.batch = q.batch /\ r.pc = "auth" /\ r.cap = q.cap
      BY <1>0 DEF Request
    <3>3. Become(p, r)
      BY <3>1
    <3> HIDE DEF r
    <3> QED
      BY <2>1, <2>2, <3>2, <3>3 DEF Goes
  <2>3. CASE q.op # "sharegroup"
    <3> DEFINE r == [q EXCEPT !.to = Recipients(q), !.kv = q.kv + 1, !.pc = "auth"]
    <3>1. Become(p, r) /\ q.kv < MaxVersion
      BY <1>0, <1>5, <2>3 DEF ReadAccess, Request, q
    <3>2. /\ r.op = q.op /\ r.u = q.u /\ r.users = q.users /\ r.groups = q.groups /\ r.batch = q.batch
          /\ r.pc = "auth" /\ r.cap = q.cap /\ r.to = Recipients(q) /\ r.kv = q.kv + 1
      BY <1>0 DEF Request
    <3>3. q.kv + 1 \in Versions
      BY <1>0, <3>1 DEF Request, Versions
    <3> HIDE DEF r
    <3> QED
      BY <2>1, <3>1, <3>2, <3>3 DEF Goes
  <2> QED
    BY <2>2, <2>3
<1>6. ASSUME ReadGapEnvelopes(p), ~Finish(p) PROVE G
  <2>1. PICK d : Become(p, [q EXCEPT !.dk = d, !.to = WithoutEnvelope, !.pc = "gapversions"])
    BY <1>0, <1>6 DEF ReadGapEnvelopes, q
  <2> DEFINE r == [q EXCEPT !.dk = d, !.to = WithoutEnvelope, !.pc = "gapversions"]
  <2>2. Become(p, r) /\ q.pc = "gapenvs"
    BY <1>0, <1>6, <2>1 DEF ReadGapEnvelopes, At, q
  <2>3. /\ r.op = q.op /\ r.u = q.u /\ r.users = q.users /\ r.groups = q.groups /\ r.batch = q.batch
        /\ r.pc = "gapversions" /\ r.cap = q.cap
    BY <1>0 DEF Request
  <2> HIDE DEF r
  <2>4. Goes(q, r)
    BY <1>0, <2>1, <2>2, <2>3 DEF Goes, Versions
  <2> QED
    BY <2>2, <2>4
<1>7. ASSUME ReadGapVersions(p), ~Finish(p) PROVE G
  <2>1. PICK to : Become(p, [q EXCEPT !.to = to, !.kv = blob.kv, !.pc = "auth"])
    BY <1>0, <1>7 DEF ReadGapVersions, q
  <2> DEFINE r == [q EXCEPT !.to = to, !.kv = blob.kv, !.pc = "auth"]
  <2>2. Become(p, r) /\ q.pc = "gapversions"
    BY <1>0, <1>7, <2>1 DEF ReadGapVersions, At, q
  <2>3. /\ r.op = q.op /\ r.u = q.u /\ r.users = q.users /\ r.groups = q.groups /\ r.batch = q.batch
        /\ r.pc = "auth" /\ r.cap = q.cap
    BY <1>0 DEF Request
  <2> HIDE DEF r
  <2>4. Goes(q, r)
    BY <1>0, <2>1, <2>2, <2>3 DEF Goes, Versions
  <2> QED
    BY <2>2, <2>4
<1>8. ASSUME Authorize(p), ~Finish(p) PROVE G
  <2> DEFINE cap == IF q.op = "reseal" THEN "write" ELSE q.cap
             pc == CASE q.op = "delete" -> "commit"
                     [] q.op = "reseal" /\ \E g \in q.groups : gshares[g] # "none" -> "cap"
                     [] OTHER -> "blob"
  <2> DEFINE r == [q EXCEPT !.cap = cap, !.pc = pc]
  <2>1. Become(p, r) /\ q.pc = "auth" /\ Authorized(q)
    BY <1>0, <1>8 DEF Authorize, At, q
  <2> HIDE DEF cap, pc
  <2>2. /\ r.op = q.op /\ r.u = q.u /\ r.users = q.users /\ r.groups = q.groups /\ r.batch = q.batch
        /\ r.pc = pc /\ r.cap = cap /\ r.to = q.to /\ r.kv = q.kv
    BY <1>0 DEF Request
  <2> HIDE DEF r
  <2>3. Goes(q, r)
    BY <1>0, <2>1, <2>2 DEF Goes, Versions, cap, pc
  <2> QED
    BY <2>1, <2>3
<1>9. ASSUME (\E g \in Groups : KeepCap(p, g)) \/ LoseCap(p), ~Finish(p) PROVE G
  <2>1. PICK cap :
          /\ Become(p, [q EXCEPT !.pc = "blob", !.cap = cap])
          /\ \/ "dberror" \in Ops /\ cap = "write"
             \/ \E g \in q.groups : cap = IF gshares[g] = "none" THEN "write" ELSE gshares[g]
    BY <1>0, <1>9 DEF KeepCap, LoseCap, q
  <2> DEFINE r == [q EXCEPT !.pc = "blob", !.cap = cap]
  <2>2. Become(p, r) /\ q.pc = "cap"
    BY <1>0, <1>9, <2>1 DEF KeepCap, LoseCap, At, q
  <2>3. /\ r.op = q.op /\ r.u = q.u /\ r.users = q.users /\ r.groups = q.groups /\ r.batch = q.batch
        /\ r.pc = "blob" /\ r.to = q.to /\ r.cap = cap
    BY <1>0 DEF Request
  <2> HIDE DEF r
  <2>4. Goes(q, r)
    BY <1>0, <2>1, <2>2, <2>3 DEF Goes, Versions
  <2> QED
    BY <2>2, <2>4
<1>10. ASSUME ReadBlob(p), ~Finish(p) PROVE G
  <2> DEFINE old == IF q.op = "rotate" THEN blob.kv ELSE 0
             pc == IF q.op \in {"update", "rotate"} THEN "meta" ELSE "commit"
  <2> DEFINE r == [q EXCEPT !.old = old, !.pc = pc]
  <2>1. Become(p, r) /\ q.pc = "blob" /\ BlobExists /\ (q.op = "rotate" => q.kv > blob.kv)
        /\ (q.op \in {"sharegroup", "reseal"} => q.to \subseteq MembersOf(q.groups))
    BY <1>0, <1>10 DEF ReadBlob, At, q
  <2> HIDE DEF old, pc
  <2>2. /\ r.op = q.op /\ r.u = q.u /\ r.users = q.users /\ r.groups = q.groups /\ r.batch = q.batch
        /\ r.pc = pc /\ r.to = q.to /\ r.cap = q.cap /\ r.kv = q.kv
    BY <1>0 DEF Request
  <2> HIDE DEF r
  <2>3. Goes(q, r)
    BY <1>0, <2>1, <2>2 DEF Goes, Versions, old, pc
  <2> QED
    BY <2>1, <2>3
<1>11. ASSUME ReadMeta(p), ~Finish(p) PROVE G
  <2> DEFINE pc == IF q.op = "update" THEN "putmeta" ELSE "commit"
  <2> DEFINE r == [q EXCEPT !.vis = meta.vis, !.title = q.dk, !.pc = pc]
  <2>1. Become(p, r) /\ q.pc = "meta" /\ MetaExists
    BY <1>0, <1>11 DEF ReadMeta, At, q
  <2> HIDE DEF pc
  <2>2. /\ r.op = q.op /\ r.u = q.u /\ r.users = q.users /\ r.groups = q.groups /\ r.batch = q.batch
        /\ r.pc = pc /\ r.to = q.to /\ r.cap = q.cap /\ r.kv = q.kv /\ r.vis = meta.vis
    BY <1>0 DEF Request
  <2> HIDE DEF r
  <2>3. Goes(q, r)
    BY <1>0, <2>1, <2>2 DEF Goes, Versions, pc
  <2> QED
    BY <2>1, <2>3
<1>12. ASSUME SyncRead(p), ~Finish(p) PROVE G
  <2> DEFINE vis == IF SharedAfter(q) THEN "shared" ELSE "private"
  <2> DEFINE r == [q EXCEPT !.vis = vis, !.title = meta.title, !.pc = "putmeta"]
  <2>1. Become(p, r) /\ q.pc = "sync" /\ MetaExists
    BY <1>0, <1>12 DEF SyncRead, At, q
  <2> HIDE DEF vis
  <2>2. /\ r.op = q.op /\ r.u = q.u /\ r.users = q.users /\ r.groups = q.groups /\ r.batch = q.batch
        /\ r.pc = "putmeta" /\ r.to = q.to /\ r.cap = q.cap /\ r.vis = vis
    BY <1>0 DEF Request
  <2> HIDE DEF r
  <2>3. Goes(q, r)
    BY <1>0, <2>1, <2>2 DEF Goes, Versions, vis
  <2> QED
    BY <2>1, <2>3
<1> QED
  BY <1>1, <1>2, <1>3, <1>4, <1>5, <1>6, <1>7, <1>8, <1>9, <1>10, <1>11, <1>12 DEF ReadStep, q

-----------------------------------------------------------------------------
(* A rotation leaves its recipients.                                       *)

Sealed(r) ==
  /\ r.op = "rotate" /\ r.pc \in {"meta", "commit"} => r.kv \in Versions
  /\ r.pc = "drop" => Holders = r.to

LEMMA SealedFrame ==
  ASSUME TypeOK, NEW p \in Procs, NEW r, Become(p, r), UNCHANGED envs, Sealed(r)
  PROVE  Sealed(req[p])'
<1>1. req'[p] = r
  BY Became
<1> QED
  BY <1>1 DEF Sealed, Holders, HasEnvelope, LiveVersions, Live

\* A step that ends the request.
LEMMA SealedFinish ==
  ASSUME TypeOK, NEW p \in Procs, Finish(p)
  PROVE  Sealed(req[p])'
<1>1. req'[p] = Idle
  BY Became DEF Finish
<1> QED
  BY <1>1 DEF Sealed, Idle

\* A step that moves the request on to another part of the handler.
LEMMA SealedGoto ==
  ASSUME TypeOK, NEW p \in Procs, NEW label \in {"users", "groups", "sync", "putblob"}, Goto(p, label)
  PROVE  Sealed(req[p])'
<1> DEFINE r == [req[p] EXCEPT !.pc = label]
<1>1. r.pc = label
  BY DEF TypeOK, Request
<1>2. req'[p] = r
  BY Became DEF Goto
<1> QED
  BY <1>1, <1>2 DEF Sealed

LEMMA NextSealed ==
  ASSUME NEW p, Procs = {p}, TypeOK, Agree, Found(req[p]), Sealed(req[p]), [Next]_vars
  PROVE  Sealed(req[p])'
<1> DEFINE q == req[p]
<1>0. p \in Procs /\ q \in Request /\ envs \in EnvelopeTable
  BY DEF TypeOK, StoreTypeOK, EnvelopeTable
<1>q. Sealed(q) /\ Found(q)
  OBVIOUS
<1> HIDE DEF q
<1>1. CASE ClientBegins(p)
  <2>1. PICK r : Become(p, r) /\ Begun(r)
    BY <1>0, <1>1, BeginsAs
  <2>2. Sealed(r)
    BY <2>1 DEF Begun, Sealed
  <2> QED
    BY <1>0, <1>1, <2>1, <2>2, BeginsAs, SealedFrame DEF storeVars
<1>2. CASE AdminStep(p)
  BY <1>2 DEF AdminStep, AddMember, RemoveMember, RemoveGroup, DisableUser, OnboardUser, At, Sealed
<1>3. CASE ReadStep(p) /\ ~Finish(p)
  <2>1. PICK r : Become(p, r) /\ Goes(q, r)
    BY <1>0, <1>3, ReadsGo DEF q
  <2>2. Sealed(r)
    <3>1. blob.kv \in 0 .. MaxVersion /\ q.kv \in 0 .. MaxVersion /\ q.pc \in Labels
      BY <1>0 DEF TypeOK, StoreTypeOK, BlobRow, Request
    <3> QED
      BY <1>q, <2>1, <3>1 DEF Goes, Sealed, Versions
  <2> QED
    BY <1>0, <1>3, <2>1, <2>2, ReadsGo, SealedFrame DEF storeVars
<1>4. ASSUME NEW r, Become(p, r), UNCHANGED envs, r.pc = q.pc, r.op = q.op, r.kv = q.kv, r.to = q.to
      PROVE  Sealed(req[p])'
  <2>1. Sealed(r)
    BY <1>q, <1>4 DEF Sealed
  <2> QED
    BY <1>0, <1>4, <2>1, SealedFrame
<1>5. CASE DropUser(p) \/ DropGroup(p) \/ DropFails(p) \/ PutCreateUser(p) \/ PutCreateGroup(p)
  <2>1. UNCHANGED envs
    BY <1>5 DEF DropUser, DropGroup, DropFails, PutCreateUser, PutCreateGroup, storeVars,
       PutSecretDirectShare, PutSecretGroupShare, DeleteSecretDirectShare, DeleteSecretGroupShare
  <2>2. ASSUME NEW us, Become(p, [q EXCEPT !.users = us]) \/ Become(p, [q EXCEPT !.groups = us])
        PROVE  Sealed(req[p])'
    <3>1. PICK r : Become(p, r) /\ (r = [q EXCEPT !.users = us] \/ r = [q EXCEPT !.groups = us])
      BY <2>2
    <3>2. r.pc = q.pc /\ r.op = q.op /\ r.kv = q.kv /\ r.to = q.to
      BY <1>0, <3>1 DEF Request
    <3> QED
      BY <1>4, <2>1, <3>1, <3>2
  <2> QED
    BY <1>0, <1>5, <2>2, SealedFinish, SealedGoto DEF DropUser, DropGroup, DropFails, PutCreateUser,
       PutCreateGroup, q
<1>6. CASE CommitRotate(p)
  <2>1. RotateSecret(q.old, q.vis, q.kv, q.dk, q.to) /\ Goto(p, "drop") /\ q.op = "rotate" /\ q.pc = "commit"
    BY <1>6 DEF CommitRotate, At, q
  <2>2. q.old = blob.kv /\ q.kv \in Versions /\ q.to \subseteq Users
    BY <1>0, <1>q, <2>1 DEF Found, Sealed, Request
  <2>3. envs' = EnvelopesPut(EnvelopesRevoked(envs, Users, {blob.kv}), q.to, q.kv, q.dk)
    BY <2>1, <2>2 DEF RotateSecret
  <2>4. ASSUME NEW u \in Users, NEW k \in Versions
        PROVE  Live(u, k)' <=> u \in q.to /\ k = q.kv
    <3>1. Live(u, k) => k = blob.kv
      BY DEF Agree, OldVersionsInvalid
    <3>2. EnvelopesRevoked(envs, Users, {blob.kv})[<<u, k>>].state # "live"
      BY <1>0, <3>1 DEF EnvelopesRevoked, EnvelopeTable, EnvelopeRow, Live
    <3> QED
      BY <2>3, <3>2 DEF EnvelopesPut, Live
  <2>5. Holders' = q.to
    BY <2>2, <2>4 DEF Holders, HasEnvelope, LiveVersions
  <2> DEFINE r == [q EXCEPT !.pc = "drop"]
  <2>6. r.to = q.to /\ r.pc = "drop"
    BY <1>0 DEF Request
  <2>7. req'[p] = r
    BY <1>0, <2>1, Became DEF Goto, q
  <2> QED
    BY <2>5, <2>6, <2>7 DEF Sealed
<1>7. CASE \/ CommitCreate(p) \/ CommitShare(p) \/ (\E g \in Groups : CommitShareGroup(p, g))
           \/ CommitDelete(p) \/ PutMeta(p) \/ PutBlob(p) \/ RefuseRevoked(p) \/ Abort(p)
  BY <1>0, <1>7, SealedFinish, SealedGoto DEF CommitCreate, CommitShare, CommitShareGroup,
     CommitDelete,
     PutMeta, PutBlob, RefuseRevoked, Abort
<1>8. CASE UNCHANGED vars
  BY <1>8 DEF vars, Sealed, Holders, HasEnvelope, LiveVersions, Live
<1> QED
  BY <1>0, <1>1, <1>2, <1>3, <1>5, <1>6, <1>7, <1>8, SealedFinish DEF Next, RequestStep, ReadStep

\* Of requests that do not overlap, a rotation that gets to the removal of the
\* dropped shares leaves exactly the users it sealed to with an envelope.
THEOREM RotationsLeaveTheirRecipients ==
  ASSUME NEW c, Procs = {c}
  PROVE  Spec => RotationLeavesItsRecipients
<1> DEFINE A == Agree /\ Found(req[c]) /\ Sealed(req[c])
           Step == \A p \in Procs : At(p, "drop") /\ At(p, "sync")' =>
                                      {u \in Users : HasEnvelope(u)'} = req[p].to
<1>1. Init => A
  BY DEF Init, StoreInit, Agree, OldVersionsInvalid, EnvelopesOpen, Live, NoEnvelope, Found, Idle,
     Wraps, Sealed
<1>2. TypeOK /\ CreatedOnce /\ A /\ [Next]_vars => A'
  BY NextKey, NextSealed
<1>3. TypeOK /\ A /\ [Next]_vars => Step
  <2> SUFFICES ASSUME TypeOK, A, [Next]_vars, At(c, "drop"), At(c, "sync")'
               PROVE  {u \in Users : HasEnvelope(u)'} = req[c].to
    BY Zenon
  <2>1. Holders = req[c].to
    BY DEF Sealed, At
  <2>2. c \in Procs /\ req[c].pc = "drop" /\ req'[c].pc = "sync"
    BY DEF At
  <2>3. ~Finish(c)
    BY <2>2, Became DEF Finish, Idle
  <2>4. ~ClientBegins(c) /\ ~AdminStep(c)
    BY <2>2, BeginsAs DEF AdminStep, At
  <2>5. ~ReadStep(c)
    BY <2>2, <2>3, ReadsGo DEF Goes
  <2>6. ASSUME DropUser(c) \/ DropGroup(c) \/ DropFails(c)
        PROVE  UNCHANGED envs
    BY <2>6 DEF DropUser, DropGroup, DropFails, DeleteSecretDirectShare, DeleteSecretGroupShare,
       PutSecretDirectShare, PutSecretGroupShare, storeVars
  <2>7. ~(CommitCreate(c) \/ PutCreateUser(c) \/ PutCreateGroup(c) \/ RefuseRevoked(c) \/ CommitShare(c)
          \/ CommitRotate(c) \/ (\E g \in Groups : CommitShareGroup(c, g)) \/ CommitDelete(c)
          \/ PutMeta(c) \/ PutBlob(c) \/ Abort(c))
    BY <2>2, <2>3 DEF CommitCreate, PutCreateUser, PutCreateGroup, RefuseRevoked, CommitShare,
       CommitRotate, CommitShareGroup, CommitDelete, PutMeta, PutBlob, Abort, At
  <2>8. UNCHANGED envs
    BY <2>2, <2>4, <2>5, <2>6, <2>7 DEF Next, RequestStep, ReadStep, vars
  <2> QED
    BY <2>1, <2>8 DEF Holders, HasEnvelope, LiveVersions, Live
<1>4. TypeOK /\ CreatedOnce /\ [Next]_vars => CreatedOnce'
  BY NextCreatedOnce
<1> HIDE DEF A
<1>5. Spec => []A
  BY <1>1, <1>2, <1>4, InitCreatedOnce, TypeCorrect, PTL DEF Spec
<1> QED
  BY <1>3, <1>5, TypeCorrect, PTL DEF Spec, RotationLeavesItsRecipients

-----------------------------------------------------------------------------
(* Steps of a handler, by what they leave of the request.                  *)

Same(q, r) ==
  /\ r.op = q.op /\ r.u = q.u /\ r.kv = q.kv /\ r.to = q.to /\ r.batch = q.batch
  /\ r.cap = q.cap /\ r.vis = q.vis /\ r.title = q.title

LEMMA GotoAs ==
  ASSUME TypeOK, NEW p \in Procs, NEW label, Goto(p, label)
  PROVE  /\ Same(req[p], req'[p]) /\ req'[p].pc = label
         /\ req'[p].users = req[p].users /\ req'[p].groups = req[p].groups
<1> DEFINE r == [req[p] EXCEPT !.pc = label]
<1>1. r.users = req[p].users /\ r.groups = req[p].groups /\ r.pc = label /\ Same(req[p], r)
  BY DEF TypeOK, Request, Same
<1>2. req'[p] = r
  BY Became DEF Goto
<1> QED
  BY <1>1, <1>2

LEMMA LessUsers ==
  ASSUME TypeOK, NEW p \in Procs, NEW us, Become(p, [req[p] EXCEPT !.users = us])
  PROVE  /\ Same(req[p], req'[p]) /\ req'[p].pc = req[p].pc
         /\ req'[p].users = us /\ req'[p].groups = req[p].groups
<1> DEFINE r == [req[p] EXCEPT !.users = us]
<1>1. r.users = us /\ r.groups = req[p].groups /\ r.pc = req[p].pc /\ Same(req[p], r)
  BY DEF TypeOK, Request, Same
<1>2. req'[p] = r
  BY Became
<1> QED
  BY <1>1, <1>2

LEMMA LessGroups ==
  ASSUME TypeOK, NEW p \in Procs, NEW gs, Become(p, [req[p] EXCEPT !.groups = gs])
  PROVE  /\ Same(req[p], req'[p]) /\ req'[p].pc = req[p].pc
         /\ req'[p].users = req[p].users /\ req'[p].groups = gs
<1> DEFINE r == [req[p] EXCEPT !.groups = gs]
<1>1. r.users = req[p].users /\ r.groups = gs /\ r.pc = req[p].pc /\ Same(req[p], r)
  BY DEF TypeOK, Request, Same
<1>2. req'[p] = r
  BY Became
<1> QED
  BY <1>1, <1>2

LEMMA FinishAs ==
  ASSUME TypeOK, NEW p \in Procs, Finish(p)
  PROVE  req'[p] = Idle
BY Became DEF Finish

-----------------------------------------------------------------------------
(* What a request brings along for the shares it writes.                   *)

Brings(r) ==
  /\ r.op \in {"create", "share", "sharegroup"} => r.cap \in Capabilities
  /\ r.op = "reseal" /\ r.pc \in {"blob", "commit"} => r.cap \in Capabilities
  /\ r.op = "share" => r.u \notin r.to /\ r.to # {}
  /\ r.op \in {"sharegroup", "reseal"} => \E g \in Groups : r.groups = {g}
  /\ r.op \in {"sharegroup", "reseal"} /\ r.pc = "commit" => r.to \subseteq MembersOf(r.groups)
  /\ r.batch => r.op = "rotate"
  /\ r.op = "create" => r.users \subseteq Shareable
  /\ r.op = "create" /\ r.pc = "commit" =>
       /\ r.to \subseteq {Owner} \cup r.users \cup MembersOf(r.groups)
       /\ r.vis = "shared" <=> r.users # {} \/ r.groups # {}
  /\ r.op = "update" /\ r.pc = "putmeta" => MetaExists /\ r.vis = meta.vis
  /\ r.pc = "groups" => r.users = {}
  /\ r.pc \in {"users", "groups"} => r.op = "create"
  /\ r.pc \in {"gapenvs", "gapversions"} => r.op = "reseal"
  /\ r.pc = "cap" => r.op = "reseal"
  /\ r.pc = "meta" => r.op \in {"update", "rotate"}
  /\ r.pc = "sync" => r.op # "update"

LEMMA ReadBrings ==
  ASSUME TypeOK, NEW p \in Procs, NEW r, Brings(req[p]), CreatedOnce, Found(req[p]),
         UNCHANGED <<storeVars, status>>, Become(p, r), Goes(req[p], r)
  PROVE  Brings(req[p])'
<1> DEFINE q == req[p]
<1>0. q \in Request /\ gshares \in [Groups -> Capabilities \cup {"none"}]
  BY DEF TypeOK, StoreTypeOK
<1>1. q.op = "create" => q.pc \in {"commit", "users", "groups"}
  BY DEF CreatedOnce
<1>2. Brings(q) /\ Goes(q, r) /\ (q.pc = "access" => q.op \in {"sharegroup", "rotate"})
  BY DEF Found
<1> HIDE DEF q
<1>a. r.op = q.op /\ r.u = q.u /\ r.users = q.users /\ r.groups = q.groups /\ r.batch = q.batch
  BY <1>2 DEF Goes
<1>b. q.op # "reseal" => r.cap = q.cap
  <2>1. q.op # "reseal" => q.pc # "cap"
    BY <1>2 DEF Brings
  <2> QED
    BY <1>2, <2>1 DEF Goes
<1>c. ~q.batch /\ q.pc \notin {"access", "gapenvs", "gapversions"} => r.to = q.to
  BY <1>2 DEF Goes
<1>d. /\ r.pc = "cap" => q.op = "reseal"
      /\ r.pc \notin {"users", "groups", "gapenvs"}
      /\ r.pc = "gapversions" => q.pc = "gapenvs"
      /\ r.pc = "meta" => q.op \in {"update", "rotate"}
      /\ r.pc # "sync"
  BY <1>2 DEF Goes
<1>5. q.op \in {"sharegroup", "reseal"} => Brings(r)
  <2> SUFFICES ASSUME q.op \in {"sharegroup", "reseal"} PROVE Brings(r)
    OBVIOUS
  <2>1. q.pc = "cap" => r.cap \in Capabilities
    BY <1>0, <1>2 DEF Goes, Brings, Capabilities
  <2>2. \E g \in Groups : r.groups = {g}
    BY <1>2, <1>a DEF Brings
  <2>3. q.op = "sharegroup" => r.cap \in Capabilities
    BY <1>2, <1>b DEF Brings
  <2>4. q.op = "reseal" /\ r.pc \in {"blob", "commit"} => r.cap \in Capabilities
    <3>1. CASE q.pc = "auth"
      BY <1>2, <3>1 DEF Goes, Capabilities
    <3>2. CASE q.pc = "blob"
      BY <1>2, <3>2 DEF Goes, Brings
    <3>3. CASE q.pc = "meta"
      BY <1>2, <3>3 DEF Brings
    <3>4. r.pc \in {"blob", "commit"} => q.pc \in {"auth", "cap", "blob", "meta"}
      BY <1>2 DEF Goes
    <3> QED
      BY <2>1, <3>1, <3>2, <3>3, <3>4
  <2>5. r.pc = "commit" => r.to \subseteq MembersOf(r.groups)
    <3>1. q.pc # "meta"
      BY <1>2 DEF Brings
    <3> QED
      BY <1>2, <1>a, <3>1 DEF Goes
  <2>6. q.pc = "gapenvs" => q.op = "reseal"
    BY <1>2 DEF Brings
  <2>7. ~r.batch
    BY <1>2, <1>a DEF Brings
  <2> QED
    BY <1>a, <1>d, <2>2, <2>3, <2>4, <2>5, <2>6, <2>7 DEF Brings
<1>6. q.op = "create" => Brings(r)
  BY <1>1, <1>2 DEF Goes
<1>7. q.op = "rotate" => Brings(r)
  BY <1>0, <1>2 DEF Goes, Brings, Request
<1>8. q.op = "share" => Brings(r)
  <2>1. q.op = "share" => ~q.batch /\ q.pc \notin {"access", "gapenvs", "gapversions"}
    BY <1>2 DEF Brings
  <2>2. q.op = "share" => r.cap \in Capabilities /\ r.u \notin r.to /\ r.to # {}
    BY <1>2, <1>a, <1>b, <1>c, <2>1 DEF Brings
  <2> QED
    BY <1>a, <1>d, <2>1, <2>2 DEF Brings
<1>9. q.op \in {"update", "delete", "none"} => Brings(r)
  <2>1. q.op \in {"update", "delete", "none"} => q.pc \notin {"gapenvs", "gapversions"}
    BY <1>2 DEF Brings
  <2>2. q.op = "update" /\ r.pc = "putmeta" => q.pc \in {"meta", "sync"}
    BY <1>2 DEF Goes
  <2>4. q.op = "update" => q.pc # "sync"
    BY <1>2 DEF Brings
  <2>3. q.op = "update" /\ r.pc = "putmeta" => MetaExists /\ r.vis = meta.vis
    BY <1>2, <2>2, <2>4 DEF Goes
  <2>5. q.op \in {"update", "delete", "none"} => ~r.batch
    BY <1>2, <1>a DEF Brings
  <2> QED
    BY <1>a, <1>d, <2>1, <2>3, <2>5 DEF Brings
<1>10. Brings(r)
  BY <1>0, <1>5, <1>6, <1>7, <1>8, <1>9 DEF Request, RequestOps
<1>11. req'[p] = r
  BY Became
<1> QED
  BY <1>10, <1>11 DEF Brings, MembersOf, Shareable, MetaExists, storeVars

LEMMA NextBrings ==
  ASSUME NEW p, Procs = {p}, TypeOK, CreatedOnce, Found(req[p]), Brings(req[p]), [Next]_vars
  PROVE  Brings(req[p])'
<1> DEFINE q == req[p]
<1>0. p \in Procs /\ q \in Request
  BY DEF TypeOK
<1>q. Brings(q) /\ Found(q)
  OBVIOUS
<1>c. q.op = "create" => q.pc \in {"commit", "users", "groups"}
  BY <1>0 DEF CreatedOnce
<1>f. Finish(p) => Brings(req[p])'
  <2> SUFFICES ASSUME Finish(p) PROVE Brings(req[p])'
    OBVIOUS
  <2>1. req'[p] = Idle
    BY <1>0, FinishAs
  <2> QED
    BY <2>1 DEF Brings, Idle
<1> HIDE DEF q
<1>1. CASE ClientBegins(p)
  <2>1. PICK r : Become(p, r) /\ Begun(r)
    BY <1>0, <1>1, BeginsAs
  <2>2. req'[p] = r /\ UNCHANGED <<storeVars, status>>
    BY <1>0, <1>1, <2>1, Became, BeginsAs
  <2>3. r.op # "create" => Brings(r)
    BY <2>1, CapsAssumption DEF Begun, Brings, AskedCaps
  <2>4. r.op = "create" => Brings(r)
    BY <2>1, CapsAssumption DEF Begun, Brings
  <2> QED
    BY <2>2, <2>3, <2>4 DEF Brings, MembersOf, Shareable, MetaExists, storeVars
<1>2. CASE AdminStep(p)
  <2>1. UNCHANGED req /\ q.pc = "idle"
    BY <1>2 DEF AdminStep, AddMember, RemoveMember, RemoveGroup, DisableUser, OnboardUser, At, q
  <2>2. q.op # "create"
    BY <1>c, <2>1
  <2> QED
    BY <1>q, <2>1, <2>2 DEF Brings, q
<1>3. CASE ReadStep(p) /\ ~Finish(p)
  <2>1. PICK r : Become(p, r) /\ Goes(q, r)
    BY <1>0, <1>3, ReadsGo DEF q
  <2> QED
    BY <1>0, <1>3, <2>1, ReadsGo, ReadBrings DEF q
<1>4. ASSUME status' = status, Same(q, req'[p]), req'[p].groups = q.groups \/ q.op \in {"create", "rotate"},
             req'[p].users \subseteq q.users, req'[p].pc = "groups" => req'[p].users = {},
             req'[p].pc \in {"users", "groups", "sync", "drop", "putblob"},
             req'[p].pc \in {"users", "groups"} => q.op = "create",
             req'[p].pc = "sync" => q.op # "update",
             q.op = "reseal" => q.pc = "commit"
      PROVE  Brings(req[p])'
  <2> DEFINE r == req'[p]
  <2>1. r.pc \in {"users", "groups", "sync", "drop", "putblob"}
    BY <1>4
  <2>2. r.op = q.op /\ r.u = q.u /\ r.to = q.to /\ r.cap = q.cap /\ r.batch = q.batch
    BY <1>4 DEF Same
  <2>3. Shareable' = Shareable
    BY <1>4 DEF Shareable
  <2> HIDE DEF r
  <2> QED
    BY <1>4, <1>q, <2>1, <2>2, <2>3 DEF Brings, r
<1>5. CASE CommitCreate(p) \/ CommitShare(p) \/ (\E g \in Groups : CommitShareGroup(p, g)) \/ CommitRotate(p)
  <2>1. /\ \/ q.op = "create" /\ Goto(p, "users")
           \/ q.op \in {"share", "sharegroup", "reseal"} /\ Goto(p, "sync")
           \/ q.op = "rotate" /\ Goto(p, "drop")
        /\ q.pc = "commit" /\ status' = status
    BY <1>5 DEF CommitCreate, CommitShare, CommitShareGroup, CommitRotate, At, q
  <2> QED
    BY <1>0, <1>4, <2>1, GotoAs DEF q
<1>6. CASE PutCreateUser(p) \/ PutCreateGroup(p)
  <2>1. /\ \/ Finish(p)
           \/ Goto(p, "groups") /\ q.users = {}
           \/ \E u : Become(p, [q EXCEPT !.users = @ \ {u}]) /\ q.pc = "users"
           \/ \E g : Become(p, [q EXCEPT !.groups = @ \ {g}])
        /\ q.pc \in {"users", "groups"} /\ status' = status
    BY <1>6 DEF PutCreateUser, PutCreateGroup, At, q
  <2>2. q.op = "create" /\ (q.pc = "groups" => q.users = {})
    BY <1>q, <2>1 DEF Brings
  <2>3. ASSUME NEW u, Become(p, [q EXCEPT !.users = @ \ {u}]), q.pc = "users"
        PROVE  Brings(req[p])'
    <3>1. /\ Same(q, req'[p]) /\ req'[p].pc = q.pc
          /\ req'[p].users = q.users \ {u} /\ req'[p].groups = q.groups
      BY <1>0, <2>3, LessUsers, LessGroups DEF q
    <3> QED
      BY <1>4, <2>1, <2>2, <2>3, <3>1
  <2>4. ASSUME NEW g, Become(p, [q EXCEPT !.groups = @ \ {g}])
        PROVE  Brings(req[p])'
    <3>1. /\ Same(q, req'[p]) /\ req'[p].pc = q.pc
          /\ req'[p].users = q.users /\ req'[p].groups = q.groups \ {g}
      BY <1>0, <2>4, LessUsers, LessGroups DEF q
    <3> QED
      BY <1>4, <2>1, <2>2, <2>4, <3>1
  <2>5. CASE Goto(p, "groups") /\ q.users = {}
    BY <1>0, <1>4, <2>1, <2>2, <2>5, GotoAs DEF q
  <2> QED
    BY <1>f, <2>1, <2>3, <2>4, <2>5
<1>7. CASE DropUser(p) \/ DropGroup(p) \/ DropFails(p)
  <2>1. /\ \/ Goto(p, "sync")
           \/ \E u : Become(p, [q EXCEPT !.users = @ \ {u}])
           \/ \E g : Become(p, [q EXCEPT !.groups = @ \ {g}])
        /\ q.pc = "drop" /\ status' = status
    BY <1>7 DEF DropUser, DropGroup, DropFails, At, q
  <2>2. q.op = "rotate"
    BY <1>q, <2>1 DEF Found
  <2>3. ASSUME NEW u, Become(p, [q EXCEPT !.users = @ \ {u}])
        PROVE  Brings(req[p])'
    <3>1. /\ Same(q, req'[p]) /\ req'[p].pc = q.pc
          /\ req'[p].users = q.users \ {u} /\ req'[p].groups = q.groups
      BY <1>0, <2>3, LessUsers, LessGroups DEF q
    <3> QED
      BY <1>4, <2>1, <2>2, <2>3, <3>1
  <2>4. ASSUME NEW g, Become(p, [q EXCEPT !.groups = @ \ {g}])
        PROVE  Brings(req[p])'
    <3>1. /\ Same(q, req'[p]) /\ req'[p].pc = q.pc
          /\ req'[p].users = q.users /\ req'[p].groups = q.groups \ {g}
      BY <1>0, <2>4, LessUsers, LessGroups DEF q
    <3> QED
      BY <1>4, <2>1, <2>2, <2>4, <3>1
  <2>5. CASE Goto(p, "sync")
    BY <1>0, <1>4, <2>1, <2>2, <2>5, GotoAs DEF q
  <2> QED
    BY <2>1, <2>3, <2>4, <2>5
<1>8. CASE CommitDelete(p) \/ PutMeta(p) \/ PutBlob(p) \/ RefuseRevoked(p) \/ Abort(p)
  <2>1. /\ Finish(p) \/ (Goto(p, "putblob") /\ q.op = "update")
        /\ status' = status
    BY <1>8 DEF CommitDelete, PutMeta, PutBlob, RefuseRevoked, Abort, q
  <2> QED
    BY <1>0, <1>4, <1>f, <2>1, GotoAs DEF q
<1>9. CASE UNCHANGED vars
  BY <1>q, <1>9 DEF vars, Brings, MembersOf, Shareable, MetaExists, q
<1> QED
  BY <1>0, <1>1, <1>2, <1>3, <1>5, <1>6, <1>7, <1>8, <1>9, <1>f DEF Next, RequestStep, ReadStep

-----------------------------------------------------------------------------
(* Until the secret exists nothing is shared.                              *)

LEMMA NextNoneShared ==
  ASSUME NEW p, Procs = {p}, TypeOK, CreatedOnce, "deletegroup" \notin Ops, NoneShared, [Next]_vars
  PROVE  NoneShared'
<1>0. p \in Procs
  OBVIOUS
<1>1. CASE ClientBegins(p)
  <2>1. PICK r : Become(p, r) /\ Begun(r)
    BY <1>0, <1>1, BeginsAs
  <2>2. req'[p] = r /\ UNCHANGED storeVars /\ req[p].pc = "idle"
    BY <1>0, <1>1, <2>1, Became, BeginsAs
  <2>3. NotYetCreated' => keys = 0
    <3>1. keys' = 0 => keys = 0
      <4>1. keys' = keys \/ keys = 0 \/ (keys \in 1 .. MaxVersion - 1 /\ keys' = keys + 1)
        BY <1>1 DEF ClientBegins, BeginCreate, BeginShare, BeginShareGroup, BeginReseal,
           BeginUpdate,
           BeginRotate, BeginBatchUnshare, BeginRotation, BeginDelete
      <4> QED
        BY <4>1, VersionAssumption
    <3>2. Creating(p)' => keys = 0
      BY <2>1, <2>2 DEF Creating, Begun
    <3> QED
      BY <3>1, <3>2 DEF NotYetCreated
  <2> QED
    BY <2>2, <2>3 DEF NoneShared, NotYetCreated, Shared, storeVars
<1>2. CASE AdminStep(p)
  BY <1>2 DEF AdminStep, AddMember, RemoveMember, RemoveGroup, DisableUser, OnboardUser,
     AddGroupMember,
     RemoveGroupMember, storeVars, NoneShared, NotYetCreated, Creating, Shared
<1>3. CASE RequestStep(p) \/ Abort(p)
  <2>1. keys' = keys /\ \E r : req'[p] = r /\ (r.op = "create" => r.pc \in {"users", "groups"})
    BY <1>0, <1>3, StepKeepsOp, Became DEF Progress
  <2>2. NotYetCreated' => keys = 0
    BY <2>1 DEF NotYetCreated, Creating
  <2> SUFFICES ASSUME keys = 0 PROVE ~Shared'
    BY <2>2 DEF NoneShared
  <2>3. ~Shared /\ (req[p].pc \in {"idle", "get", "gapenvs", "auth"} \/ Creating(p))
    BY DEF NoneShared, NotYetCreated, CreatedOnce
  <2>4. req[p].pc \in {"idle", "get", "gapenvs", "auth"}
    BY <1>0, <2>3 DEF CreatedOnce, Creating
  <2>5. UNCHANGED <<directs, gshares>>
    <3>1. CASE ReadStep(p)
      BY <1>0, <3>1, ReadsGo DEF storeVars
    <3>2. ~(CommitCreate(p) \/ PutCreateUser(p) \/ PutCreateGroup(p) \/ RefuseRevoked(p) \/ CommitShare(p)
            \/ CommitRotate(p) \/ (\E g \in Groups : CommitShareGroup(p, g)) \/ CommitDelete(p)
            \/ DropUser(p) \/ DropGroup(p) \/ DropFails(p) \/ PutMeta(p) \/ PutBlob(p))
      BY <2>4 DEF CommitCreate, PutCreateUser, PutCreateGroup, RefuseRevoked, CommitShare,
         CommitRotate, CommitShareGroup, CommitDelete, DropUser, DropGroup, DropFails, PutMeta,
         PutBlob, At
    <3>3. CASE Abort(p)
      BY <3>3 DEF Abort, storeVars
    <3> QED
      BY <1>3, <3>1, <3>2, <3>3 DEF RequestStep, ReadStep
  <2> QED
    BY <2>3, <2>5 DEF Shared
<1>4. CASE UNCHANGED vars
  BY <1>4 DEF vars, NoneShared, NotYetCreated, Creating, Shared
<1> QED
  BY <1>0, <1>1, <1>2, <1>3, <1>4 DEF Next

-----------------------------------------------------------------------------
(* The visibility agrees with the shares.                                  *)

\* Where a request is when the visibility has to be right.
Settled(r) ==
  /\ r.pc \notin {"users", "groups", "drop", "sync"}
  /\ r.pc = "putmeta" => r.op = "update"

VisibleAsShared == MetaExists => (meta.vis = "shared" <=> Shared)

LEMMA SettledVisibility ==
  ASSUME NEW r, Settled(r)
  PROVE  VisibilityRight(r) <=> VisibleAsShared
BY DEF Settled, VisibilityRight, VisibleAsShared

\* A step between two such places that leaves title rows and shares alone.
LEMMA VisibilityFrame ==
  ASSUME NEW p \in Procs, VisibilityRight(req[p]), Settled(req[p]), Settled(req'[p]),
         UNCHANGED <<meta, directs, gshares>>
  PROVE  VisibilityRight(req[p])'
<1>1. VisibleAsShared
  BY SettledVisibility
<1>2. VisibleAsShared'
  BY <1>1 DEF VisibleAsShared, MetaExists, Shared
<1> QED
  BY <1>2 DEF Settled, VisibilityRight, VisibleAsShared

LEMMA ReadVisibility ==
  ASSUME TypeOK, NEW p \in Procs, Brings(req[p]), VisibilityRight(req[p]), ReadStep(p)
  PROVE  VisibilityRight(req[p])'
<1> DEFINE q == req[p]
<1>q. Brings(q) /\ VisibilityRight(q)
  OBVIOUS
<1>1. UNCHANGED <<meta, directs, gshares>> /\ (Finish(p) \/ \E r : Become(p, r) /\ Goes(q, r))
  BY ReadsGo DEF storeVars
<1> HIDE DEF q
<1>2. CASE SyncRead(p)
  <2>1. q.pc = "sync"
    BY <1>2 DEF SyncRead, At, q
  <2>2. SharedAfter(q) <=> Shared
    BY <1>q, <2>1 DEF VisibilityRight, SharedAfter, Shared
  <2>3. CASE Finish(p)
    <3>1. req'[p] = Idle
      BY <2>3, FinishAs
    <3>2. MetaExists => meta.vis = IF SharedAfter(q) THEN "shared" ELSE "private"
      <4>1. SUFFICES ASSUME MetaExists, meta.vis # IF SharedAfter(q) THEN "shared" ELSE "private"
                     PROVE  FALSE
        OBVIOUS
      <4> DEFINE vis == IF SharedAfter(q) THEN "shared" ELSE "private"
                 r == [q EXCEPT !.vis = vis, !.title = meta.title, !.pc = "putmeta"]
      <4>2. Become(p, r)
        BY <1>2, <4>1 DEF SyncRead, q
      <4> HIDE DEF vis
      <4>3. r.pc = "putmeta"
        BY DEF TypeOK, Request, q
      <4> HIDE DEF r
      <4>4. req'[p] = r
        BY <4>2, Became
      <4> QED
        BY <3>1, <4>3, <4>4 DEF Idle
    <3>3. VisibleAsShared
      BY <2>2, <3>2 DEF VisibleAsShared
    <3>4. VisibleAsShared'
      BY <1>1, <3>3 DEF VisibleAsShared, MetaExists, Shared
    <3> QED
      BY <3>1, <3>4 DEF VisibilityRight, VisibleAsShared, Idle
  <2>4. CASE \E r : Become(p, r) /\ Goes(q, r)
    <3>1. PICK r : Become(p, r) /\ Goes(q, r)
      BY <2>4
    <3>2. /\ req'[p] = r /\ r.pc = "putmeta" /\ r.op = q.op
          /\ r.vis = IF SharedAfter(q) THEN "shared" ELSE "private"
      BY <2>1, <3>1, Became DEF Goes
    <3>3. q.op # "update"
      BY <1>q, <2>1 DEF Brings
    <3>4. r.vis = "shared" <=> Shared
      BY <2>2, <3>2
    <3> QED
      BY <1>1, <3>2, <3>3, <3>4 DEF VisibilityRight, Shared
  <2> QED
    BY <1>1, <2>3, <2>4
<1>3. CASE ReadStep(p) /\ ~SyncRead(p)
  <2>1. q.pc \notin {"users", "groups", "drop", "sync", "putmeta"}
    BY <1>3 DEF ReadStep, GetSecretMeta, GetSecretCiphertext, OpenEnvelope, ReadAccess,
       ReadGapEnvelopes,
       ReadGapVersions, Authorize, KeepCap, LoseCap, ReadBlob, ReadMeta, At, q
  <2>2. Settled(req'[p])
    <3>1. CASE Finish(p)
      BY <3>1, FinishAs DEF Idle, Settled
    <3>2. CASE \E r : Become(p, r) /\ Goes(q, r)
      <4>1. PICK r : Become(p, r) /\ Goes(q, r)
        BY <3>2
      <4>2. req'[p] = r
        BY <4>1, Became
      <4>3. r.pc \notin {"users", "groups", "drop", "sync"} /\ (r.pc = "putmeta" => q.op = "update")
        BY <2>1, <4>1 DEF Goes
      <4> QED
        BY <4>1, <4>2, <4>3 DEF Goes, Settled
    <3> QED
      BY <1>1, <3>1, <3>2
  <2>3. Settled(q)
    BY <2>1 DEF Settled
  <2> QED
    BY <1>1, <1>q, <2>2, <2>3, VisibilityFrame DEF q
<1> QED
  BY <1>2, <1>3

LEMMA CreateVisibility ==
  ASSUME TypeOK, CreatedOnce, NoneShared, NEW p \in Procs, Brings(req[p]), VisibilityRight(req[p]),
         CommitCreate(p) \/ PutCreateUser(p) \/ PutCreateGroup(p)
  PROVE  VisibilityRight(req[p])'
<1> DEFINE q == req[p]
<1>0. /\ q \in Request
      /\ directs \in [Users -> Markers] /\ gshares \in [Groups -> Markers] /\ q.groups \subseteq Groups
  BY DEF TypeOK, StoreTypeOK, Markers, Request
<1>q. Brings(q) /\ VisibilityRight(q)
  OBVIOUS
<1> HIDE DEF q
<1>1. CASE CommitCreate(p)
  <2>1. /\ meta' = [vis |-> q.vis, title |-> q.dk] /\ UNCHANGED <<directs, gshares>>
        /\ Goto(p, "users") /\ q.op = "create" /\ q.pc = "commit"
    BY <1>1 DEF CommitCreate, CreateSecret, At, q
  <2>2. ~Shared'
    BY <2>1 DEF NoneShared, NotYetCreated, Creating, Shared, q
  <2>3. req'[p].pc = "users" /\ req'[p].users = q.users /\ req'[p].groups = q.groups
    BY <2>1, GotoAs DEF q
  <2>4. q.vis = "shared" <=> q.users # {} \/ q.groups # {}
    BY <1>q, <2>1 DEF Brings
  <2> QED
    BY <2>1, <2>2, <2>3, <2>4 DEF VisibilityRight
<1>2. CASE PutCreateUser(p)
  <2>1. /\ q.pc = "users" /\ q.op = "create" /\ q.users \subseteq Shareable /\ q.cap \in Capabilities
        /\ meta.vis = "shared" <=> Shared \/ q.users # {} \/ q.groups # {}
    BY <1>q, <1>2 DEF PutCreateUser, At, Brings, VisibilityRight, q
  <2>2. CASE q.users = {} /\ Goto(p, "groups") /\ UNCHANGED storeVars
    <3>1. req'[p].pc = "groups" /\ req'[p].users = {} /\ req'[p].groups = q.groups
      BY <2>2, GotoAs DEF q
    <3> QED
      BY <2>1, <2>2, <3>1 DEF VisibilityRight, Shared, storeVars
  <2>3. ASSUME NEW u \in q.users, PutSecretDirectShare(u, q.cap),
               Become(p, [q EXCEPT !.users = @ \ {u}])
        PROVE  VisibilityRight(req[p])'
    <3>1. /\ req'[p].pc = "users"
      BY <1>0, <2>1, <2>3, LessUsers DEF q
    <3>2. directs' = [directs EXCEPT ![u] = q.cap] /\ UNCHANGED <<meta, gshares>> /\ u \in Users
      BY <2>1, <2>3 DEF PutSecretDirectShare, Shareable
    <3>3. directs'[u] # "none"
      BY <1>0, <2>1, <3>2 DEF Capabilities
    <3>4. Shared' /\ meta.vis = "shared"
      BY <2>1, <2>3, <3>2, <3>3 DEF Shared
    <3> QED
      BY <3>1, <3>2, <3>4 DEF VisibilityRight
  <2> QED
    BY <1>2, <2>1, <2>2, <2>3 DEF PutCreateUser, q
<1>3. CASE PutCreateGroup(p)
  <2>1. /\ q.pc = "groups" /\ q.op = "create" /\ q.users = {} /\ q.cap \in Capabilities
        /\ meta.vis = "shared" <=> Shared \/ q.users # {} \/ q.groups # {}
    BY <1>q, <1>3 DEF PutCreateGroup, At, Brings, VisibilityRight, q
  <2>2. CASE q.groups = {} /\ Finish(p) /\ UNCHANGED storeVars
    <3>1. req'[p].pc = "idle"
      BY <2>2, FinishAs DEF Idle
    <3> QED
      BY <2>1, <2>2, <3>1 DEF VisibilityRight, Shared, storeVars
  <2>3. ASSUME NEW g \in q.groups, PutSecretGroupShare(g, q.cap),
               Become(p, [q EXCEPT !.groups = @ \ {g}])
        PROVE  VisibilityRight(req[p])'
    <3>1. /\ req'[p].pc = "groups"
      BY <1>0, <2>1, <2>3, LessGroups DEF q
    <3>2. gshares' = [gshares EXCEPT ![g] = q.cap] /\ UNCHANGED <<meta, directs>> /\ g \in Groups
      BY <1>0, <2>1, <2>3 DEF PutSecretGroupShare
    <3>3. gshares'[g] # "none"
      BY <1>0, <2>1, <3>2 DEF Capabilities
    <3>4. Shared' /\ meta.vis = "shared"
      BY <2>1, <2>3, <3>2, <3>3 DEF Shared
    <3> QED
      BY <3>1, <3>2, <3>4 DEF VisibilityRight
  <2> QED
    BY <1>3, <2>1, <2>2, <2>3 DEF PutCreateGroup, q
<1> QED
  BY <1>1, <1>2, <1>3

LEMMA NextVisibility ==
  ASSUME NEW p, Procs = {p}, {"abort", "deletegroup"} \cap Ops = {}, TypeOK, CreatedOnce, NoneShared,
         Found(req[p]), Brings(req[p]), VisibilityRight(req[p]), [Next]_vars
  PROVE  VisibilityRight(req[p])'
<1> DEFINE q == req[p]
<1>0. /\ p \in Procs /\ q \in Request
      /\ directs \in [Users -> Markers] /\ gshares \in [Groups -> Markers]
  BY DEF TypeOK, StoreTypeOK, Markers
<1>q. Brings(q) /\ VisibilityRight(q) /\ Found(q)
  OBVIOUS
<1> HIDE DEF q
<1>1. CASE ClientBegins(p)
  <2>1. PICK r : Become(p, r) /\ Begun(r)
    BY <1>0, <1>1, BeginsAs
  <2>2. Settled(req'[p])
    BY <1>0, <2>1, Became DEF Begun, Settled
  <2>3. Settled(q)
    BY <1>0, <1>1, BeginsAs DEF Settled, q
  <2> QED
    BY <1>0, <1>1, <1>q, <2>2, <2>3, BeginsAs, VisibilityFrame DEF storeVars, q
<1>2. CASE AdminStep(p)
  <2>1. UNCHANGED <<req, meta, directs, gshares>> /\ q.pc = "idle"
    BY <1>2 DEF AdminStep, AddMember, RemoveMember, RemoveGroup, DisableUser, OnboardUser,
       AddGroupMember,
       RemoveGroupMember, storeVars, At, q
  <2> QED
    BY <1>0, <1>q, <2>1, VisibilityFrame DEF Settled, q
<1>3. CASE ReadStep(p)
  BY <1>0, <1>3, ReadVisibility
<1>4. CASE CommitCreate(p) \/ PutCreateUser(p) \/ PutCreateGroup(p)
  BY <1>0, <1>4, CreateVisibility
<1>5. CASE DropUser(p) \/ DropGroup(p) \/ DropFails(p)
  <2>1. /\ \/ Goto(p, "sync")
           \/ \E u : Become(p, [q EXCEPT !.users = @ \ {u}])
           \/ \E g : Become(p, [q EXCEPT !.groups = @ \ {g}])
        /\ q.pc = "drop"
    BY <1>5 DEF DropUser, DropGroup, DropFails, At, q
  <2>2. q.op = "rotate"
    BY <1>q, <2>1 DEF Found
  <2>3. req'[p].pc = "drop" \/ (req'[p].pc = "sync" /\ req'[p].op = q.op)
    BY <1>0, <2>1, GotoAs, LessUsers, LessGroups DEF Same, q
  <2> QED
    BY <2>2, <2>3 DEF VisibilityRight
<1>6. CASE CommitShare(p)
  <2>1. /\ ShareSecret(q.to, q.kv, q.dk, q.to \ {q.u}, q.cap) /\ Goto(p, "sync")
        /\ q.pc = "commit" /\ q.op = "share"
    BY <1>6 DEF CommitShare, At, q
  <2>2. q.cap # "none" /\ q.u \notin q.to /\ q.to # {} /\ q.to \subseteq Users
    BY <1>0, <1>q, <2>1 DEF Brings, Capabilities, Request
  <2>3. req'[p].pc = "sync"
    BY <1>0, <2>1, GotoAs
  <2>4. directs' = [u \in Users |-> IF u \in q.to THEN q.cap ELSE directs[u]]
    BY <2>1, <2>2 DEF ShareSecret
  <2>5. Shared'
    BY <2>2, <2>4 DEF Shared
  <2> QED
    BY <2>3, <2>5 DEF VisibilityRight
<1>7. ASSUME NEW g \in Groups, CommitShareGroup(p, g) PROVE VisibilityRight(req[p])'
  <2>1. /\ ShareSecretGroup(q.to, q.kv, q.dk, g, q.cap) /\ Goto(p, "sync")
        /\ q.pc = "commit" /\ q.op \in {"sharegroup", "reseal"}
    BY <1>7 DEF CommitShareGroup, At, q
  <2>2. q.cap # "none"
    BY <1>q, <2>1 DEF Brings, Capabilities
  <2>3. req'[p].pc = "sync"
    BY <1>0, <2>1, GotoAs
  <2>4. gshares' = [gshares EXCEPT ![g] = q.cap]
    BY <2>1 DEF ShareSecretGroup
  <2>5. Shared'
    BY <1>0, <2>2, <2>4 DEF Shared
  <2> QED
    BY <2>3, <2>5 DEF VisibilityRight
<1>8. CASE CommitRotate(p)
  <2>1. req'[p].pc = "drop"
    BY <1>0, <1>8, GotoAs DEF CommitRotate
  <2> QED
    BY <2>1 DEF VisibilityRight
<1>9. CASE CommitDelete(p)
  <2>1. req'[p] = Idle /\ ~MetaExists'
    BY <1>0, <1>9, FinishAs DEF CommitDelete, DeleteSecret, MetaExists
  <2> QED
    BY <2>1 DEF VisibilityRight, Idle
<1>10. CASE PutMeta(p)
  <2>1. /\ meta' = [vis |-> q.vis, title |-> q.title] /\ UNCHANGED <<directs, gshares>> /\ q.pc = "putmeta"
        /\ IF q.op = "update" THEN Goto(p, "putblob") ELSE Finish(p)
    BY <1>10 DEF PutMeta, PutSecretMeta, At, q
  <2>2. q.vis = "shared" <=> Shared
    BY <1>q, <2>1 DEF VisibilityRight, Brings
  <2>3. VisibleAsShared'
    BY <2>1, <2>2 DEF VisibleAsShared, Shared
  <2>4. req'[p].pc \in {"idle", "putblob"}
    BY <1>0, <2>1, FinishAs, GotoAs DEF Idle
  <2> QED
    BY <2>3, <2>4 DEF VisibilityRight, VisibleAsShared
<1>11. CASE PutBlob(p) \/ RefuseRevoked(p)
  <2>1. UNCHANGED <<meta, directs, gshares>> /\ q.pc \in {"putblob", "commit"} /\ Finish(p)
    BY <1>11 DEF PutBlob, RefuseRevoked, PutSecretCiphertext, storeVars, At, q
  <2>2. Settled(req'[p])
    BY <1>0, <2>1, FinishAs DEF Idle, Settled
  <2> QED
    BY <1>0, <1>q, <2>1, <2>2, VisibilityFrame DEF Settled, q
<1>12. CASE UNCHANGED vars
  BY <1>q, <1>12 DEF vars, VisibilityRight, MetaExists, Shared, q
<1>13. ~Abort(p)
  BY DEF Abort
<1> QED
  BY <1>0, <1>1, <1>2, <1>3, <1>4, <1>5, <1>6, <1>7, <1>8, <1>9, <1>10, <1>11, <1>12, <1>13
     DEF Next, RequestStep, ReadStep

-----------------------------------------------------------------------------
(* Who comes to hold an envelope without a share.                           *)

Sealing == {"get", "getblob", "open", "access", "auth", "blob", "meta", "commit"}

\* Who keeps a share when the rest of a rotation is dropped.
Stays(u, r) ==
  \/ u = Owner
  \/ u \notin r.users /\ directs[u] # "none"
  \/ \E g \in Groups \ r.groups : gshares[g] # "none" /\ u \in members[g]

\* A rotation seals to users that keep a share, to its caller and, for the
\* batch panel, to those that hold an envelope already.
Seals(r) ==
  /\ r.op = "rotate" /\ r.pc \in Sealing =>
       \A v \in r.to : v \in Keepers(r) \/ (r.batch /\ HasEnvelope(v))
  /\ r.op = "rotate" /\ r.pc \in {"blob", "meta", "commit"} => HasEnvelope(r.u)
  /\ r.pc = "drop" /\ ~r.batch => \A v \in Holders : v = r.u \/ Stays(v, r)

LEMMA SealsElsewhere ==
  ASSUME NEW r, r.pc # "drop", r.op # "rotate" \/ r.pc \notin Sealing
  PROVE  Seals(r)
BY DEF Seals, Sealing

LEMMA StrayFrame ==
  ASSUME NEW u \in Users, UNCHANGED <<envs, directs, gshares, members>>
  PROVE  /\ HasEnvelope(u)' <=> HasEnvelope(u)
         /\ Granted(u)' = Granted(u)
         /\ Stray(u)' <=> Stray(u)
BY DEF Stray, HasEnvelope, LiveVersions, Live, Granted

\* A step of the reads before the rotation's transaction.
LEMMA ReadSeals ==
  ASSUME TypeOK, NEW p \in Procs, NEW r, Brings(req[p]), Found(req[p]), Seals(req[p]),
         UNCHANGED <<storeVars, status>>, Become(p, r), Goes(req[p], r)
  PROVE  Seals(req[p])'
<1> DEFINE q == req[p]
<1>0. q \in Request /\ q.pc \in Labels /\ q.u \in Users
  BY DEF TypeOK, Request
<1>1. Brings(q) /\ Seals(q) /\ Goes(q, r) /\ (q.pc = "access" => q.op \in {"sharegroup", "rotate"})
  BY DEF Found
<1>2. req'[p] = r
  BY Became
<1> HIDE DEF q
<1>3. Seals(r)
  <2>1. r.pc # "drop" /\ r.op = q.op /\ r.batch = q.batch /\ r.u = q.u
    BY <1>1 DEF Goes
  <2>2. CASE q.op # "rotate"
    BY <2>1, <2>2 DEF Seals
  <2>3. CASE q.op = "rotate"
    <3>1. q.pc \notin {"gapenvs", "gapversions", "cap"}
      BY <1>1, <2>3 DEF Brings
    <3>2. Keepers(r) = Keepers(q)
      BY <1>1 DEF Goes, Keepers
    <3>3. ASSUME r.pc \in Sealing, NEW v \in r.to
          PROVE  v \in Keepers(r) \/ (r.batch /\ HasEnvelope(v))
      <4>1. q.pc \in Sealing
        BY <1>0, <1>1, <3>1, <3>3 DEF Goes, Sealing
      <4>2. CASE q.pc = "open"
        <5>1. r.to = IF q.batch THEN Holders ELSE q.to
          BY <1>1, <4>2 DEF Goes
        <5> QED
          BY <1>1, <2>1, <2>3, <3>2, <3>3, <4>1, <5>1 DEF Seals, Holders
      <4>3. CASE q.pc = "access"
        <5>1. r.to = Keepers(q) \cup (q.to \cap Shareable)
          BY <1>1, <2>3, <4>3 DEF Goes, Recipients
        <5> QED
          BY <1>1, <2>1, <2>3, <3>2, <3>3, <4>1, <5>1 DEF Seals
      <4>4. CASE q.pc \notin {"open", "access"}
        <5>1. r.to = q.to
          BY <1>1, <3>1, <4>4 DEF Goes
        <5> QED
          BY <1>1, <2>1, <2>3, <3>2, <3>3, <4>1, <5>1 DEF Seals
      <4> QED
        BY <4>2, <4>3, <4>4
    <3>4. ASSUME r.pc \in {"blob", "meta", "commit"}
          PROVE  HasEnvelope(r.u)
      <4>1. q.pc \in {"auth", "blob", "meta"}
        BY <1>1, <3>1, <3>4 DEF Goes
      <4>2. CASE q.pc = "auth"
        <5>1. Authorized(q)
          BY <1>1, <4>2 DEF Goes
        <5> QED
          BY <2>1, <2>3, <5>1 DEF Authorized, MaySign
      <4> QED
        BY <1>1, <2>1, <2>3, <4>1, <4>2 DEF Seals
    <3> QED
      BY <2>1, <3>3, <3>4 DEF Seals
  <2> QED
    BY <2>2, <2>3
<1>4. r.pc # "drop"
  BY <1>1 DEF Goes
<1> QED
  BY <1>2, <1>3, <1>4 DEF Seals, Keepers, MembersOf, Shareable, HasEnvelope, LiveVersions, Live, storeVars

\* A step of the removal of the dropped shares.
LEMMA DropStays ==
  ASSUME TypeOK, NEW p \in Procs, DropUser(p) \/ DropGroup(p) \/ DropFails(p)
  PROVE  /\ UNCHANGED <<envs, members>> /\ req[p].pc = "drop"
         /\ req'[p].pc = "drop" \/ (req'[p].pc = "sync" /\ req[p].users = {} /\ req[p].groups = {})
         /\ req'[p] # req[p] /\ req'[p].u = req[p].u /\ req'[p].batch = req[p].batch
         /\ req'[p].users \subseteq req[p].users /\ req'[p].groups \subseteq req[p].groups
         /\ \A v \in Users : directs'[v] = directs[v] \/ v \in req[p].users
         /\ \A g \in Groups : gshares'[g] = gshares[g] \/ g \in req[p].groups
<1> DEFINE q == req[p]
<1>0. /\ directs \in [Users -> Markers] /\ gshares \in [Groups -> Markers]
      /\ q.users \subseteq Users /\ q.groups \subseteq Groups
  BY DEF TypeOK, StoreTypeOK, Markers, Request
<1>1. UNCHANGED <<envs, members>> /\ q.pc = "drop"
  BY DEF DropUser, DropGroup, DropFails, DeleteSecretDirectShare, DeleteSecretGroupShare,
     PutSecretDirectShare, PutSecretGroupShare, storeVars, At
<1>2. ASSUME NEW u \in q.users, Become(p, [req[p] EXCEPT !.users = @ \ {u}]),
             UNCHANGED gshares, \A v \in Users : directs'[v] = directs[v] \/ v = u
      PROVE  /\ Same(q, req'[p]) /\ req'[p].pc = q.pc /\ req'[p].groups = q.groups
             /\ req'[p].users = q.users \ {u}
  BY <1>2, LessUsers
<1>3. ASSUME NEW g \in q.groups, Become(p, [req[p] EXCEPT !.groups = @ \ {g}])
      PROVE  /\ Same(q, req'[p]) /\ req'[p].pc = q.pc /\ req'[p].users = q.users
             /\ req'[p].groups = q.groups \ {g}
  BY <1>3, LessGroups
<1>4. ASSUME Goto(p, "sync")
      PROVE  /\ Same(q, req'[p]) /\ req'[p].pc = "sync"
             /\ req'[p].users = q.users /\ req'[p].groups = q.groups
  BY <1>4, GotoAs
<1>5. \/ \E u \in q.users : /\ Become(p, [req[p] EXCEPT !.users = @ \ {u}])
                            /\ UNCHANGED gshares
                            /\ \A v \in Users : directs'[v] = directs[v] \/ v = u
      \/ \E g \in q.groups : /\ Become(p, [req[p] EXCEPT !.groups = @ \ {g}])
                             /\ UNCHANGED directs
                             /\ \A h \in Groups : gshares'[h] = gshares[h] \/ h = g
      \/ Goto(p, "sync") /\ UNCHANGED <<directs, gshares>> /\ q.users = {} /\ q.groups = {}
  BY <1>0 DEF DropUser, DropGroup, DropFails, DeleteSecretDirectShare, DeleteSecretGroupShare,
     PutSecretDirectShare, PutSecretGroupShare, storeVars
<1> HIDE DEF q
<1>6. CASE \E u \in q.users : /\ Become(p, [req[p] EXCEPT !.users = @ \ {u}])
                              /\ UNCHANGED gshares
                              /\ \A v \in Users : directs'[v] = directs[v] \/ v = u
  <2>1. PICK u \in q.users : /\ Become(p, [req[p] EXCEPT !.users = @ \ {u}])
                             /\ UNCHANGED gshares
                             /\ \A v \in Users : directs'[v] = directs[v] \/ v = u
    BY <1>6
  <2>2. /\ Same(q, req'[p]) /\ req'[p].pc = q.pc /\ req'[p].groups = q.groups
        /\ req'[p].users = q.users \ {u}
    BY <1>2, <2>1
  <2> QED
    BY <1>1, <2>1, <2>2 DEF Same, q
<1>7. CASE \E g \in q.groups : /\ Become(p, [req[p] EXCEPT !.groups = @ \ {g}])
                               /\ UNCHANGED directs
                               /\ \A h \in Groups : gshares'[h] = gshares[h] \/ h = g
  <2>1. PICK g \in q.groups : /\ Become(p, [req[p] EXCEPT !.groups = @ \ {g}])
                              /\ UNCHANGED directs
                              /\ \A h \in Groups : gshares'[h] = gshares[h] \/ h = g
    BY <1>7
  <2>2. /\ Same(q, req'[p]) /\ req'[p].pc = q.pc /\ req'[p].users = q.users
        /\ req'[p].groups = q.groups \ {g}
    BY <1>3, <2>1
  <2> QED
    BY <1>1, <2>1, <2>2 DEF Same, q
<1>8. CASE Goto(p, "sync") /\ UNCHANGED <<directs, gshares>> /\ q.users = {} /\ q.groups = {}
  BY <1>1, <1>4, <1>8 DEF Same, q
<1> QED
  BY <1>5, <1>6, <1>7, <1>8

LEMMA NextSeals ==
  ASSUME NEW p, Procs = {p}, TypeOK, CreatedOnce, Agree, Found(req[p]), Sealed(req[p]),
         Brings(req[p]), Seals(req[p]), [Next]_vars
  PROVE  Seals(req[p])'
<1> DEFINE q == req[p]
<1>0. p \in Procs /\ q \in Request
  BY DEF TypeOK
<1>q. Brings(q) /\ Found(q) /\ Seals(q)
  OBVIOUS
<1>s. Sealed(req[p])'
  BY NextSealed
<1>e. ASSUME req'[p].pc # "drop", req'[p].pc \notin Sealing \/ req'[p].op # "rotate"
      PROVE  Seals(req[p])'
  BY <1>e DEF Seals, Sealing
<1>f. ASSUME Finish(p) PROVE Seals(req[p])'
  <2>1. req'[p] = Idle
    BY <1>0, <1>f, FinishAs
  <2> QED
    BY <1>e, <2>1 DEF Idle
<1>g. ASSUME NEW label \in {"users", "groups", "sync", "putblob"}, Goto(p, label)
      PROVE  Seals(req[p])'
  BY <1>0, <1>e, <1>g, GotoAs DEF Sealing
<1> HIDE DEF q
<1>1. CASE ClientBegins(p)
  <2>1. PICK r : Become(p, r) /\ Begun(r)
    BY <1>0, <1>1, BeginsAs
  <2>2. req'[p] = r
    BY <1>0, <2>1, Became
  <2> QED
    BY <2>1, <2>2 DEF Begun, Seals, Sealing
<1>2. CASE AdminStep(p)
  <2>1. UNCHANGED req /\ req[p].pc = "idle"
    BY <1>2 DEF AdminStep, AddMember, RemoveMember, RemoveGroup, DisableUser, OnboardUser, At
  <2> QED
    BY <1>e, <2>1 DEF Sealing
<1>3. CASE ReadStep(p) /\ ~Finish(p)
  <2>1. PICK r : Become(p, r) /\ Goes(q, r)
    BY <1>0, <1>3, ReadsGo DEF q
  <2> QED
    BY <1>0, <1>3, <2>1, ReadsGo, ReadSeals DEF q
<1>4. CASE CommitRotate(p)
  <2>1. /\ UNCHANGED <<directs, gshares, members>> /\ Goto(p, "drop")
        /\ q.op = "rotate" /\ q.pc = "commit"
    BY <1>4 DEF CommitRotate, RotateSecret, At, q
  <2>2. /\ req'[p].pc = "drop" /\ req'[p].to = q.to /\ req'[p].u = q.u /\ req'[p].batch = q.batch
        /\ req'[p].users = q.users /\ req'[p].groups = q.groups
    BY <1>0, <2>1, GotoAs DEF Same, q
  <2>3. Holders' = q.to
    BY <1>s, <2>2 DEF Sealed
  <2>4. ~q.batch => q.to \subseteq Keepers(q)
    BY <1>q, <2>1 DEF Seals, Sealing
  <2>5. \A v \in Keepers(q) : v = q.u \/ Stays(v, req[p])'
    BY <2>1, <2>2 DEF Stays, Keepers, MembersOf
  <2> QED
    BY <2>2, <2>3, <2>4, <2>5 DEF Seals, Sealing
<1>5. CASE DropUser(p) \/ DropGroup(p) \/ DropFails(p)
  <2> SUFFICES ASSUME req'[p].pc = "drop", ~req'[p].batch, NEW v \in Holders'
               PROVE  v = req'[p].u \/ Stays(v, req[p])'
    BY <1>0, <1>5, <1>e, DropStays DEF Seals, Sealing
  <2>1. v \in Holders /\ v \in Users
    BY <1>0, <1>5, DropStays DEF Holders, HasEnvelope, LiveVersions, Live
  <2>2. v = q.u \/ Stays(v, q)
    BY <1>0, <1>5, <1>q, <2>1, DropStays DEF Seals, q
  <2> QED
    BY <1>0, <1>5, <2>1, <2>2, DropStays DEF Stays, q
<1>6. CASE PutCreateUser(p) \/ PutCreateGroup(p)
  <2>1. \/ Finish(p) \/ Goto(p, "groups")
        \/ \E us : Become(p, [req[p] EXCEPT !.users = us]) \/ Become(p, [req[p] EXCEPT !.groups = us])
    BY <1>6 DEF PutCreateUser, PutCreateGroup
  <2>2. q.pc \in {"users", "groups"}
    BY <1>6 DEF PutCreateUser, PutCreateGroup, At, q
  <2>3. ASSUME NEW us, Become(p, [req[p] EXCEPT !.users = us]) \/ Become(p, [req[p] EXCEPT !.groups = us])
        PROVE  req'[p].pc = q.pc
    BY <1>0, <2>3, LessUsers, LessGroups DEF q
  <2> QED
    BY <1>e, <1>f, <1>g, <2>1, <2>2, <2>3 DEF Sealing
<1>7. CASE \/ CommitCreate(p) \/ CommitShare(p) \/ (\E g \in Groups : CommitShareGroup(p, g))
           \/ CommitDelete(p) \/ PutMeta(p) \/ PutBlob(p) \/ RefuseRevoked(p) \/ Abort(p)
  BY <1>7, <1>f, <1>g DEF CommitCreate, CommitShare, CommitShareGroup, CommitDelete, PutMeta,
     PutBlob, RefuseRevoked, Abort
<1>8. CASE UNCHANGED vars
  <2>1. req'[p] = q /\ Holders' = Holders /\ \A v : HasEnvelope(v)' <=> HasEnvelope(v)
    BY <1>8 DEF vars, Holders, HasEnvelope, LiveVersions, Live, q
  <2>2. Keepers(req[p])' = Keepers(q) /\ \A v : Stays(v, req[p])' <=> Stays(v, q)
    BY <1>8 DEF vars, Keepers, MembersOf, Shareable, Stays, q
  <2> QED
    BY <1>q, <2>1, <2>2 DEF Seals
<1> QED
  BY <1>0, <1>1, <1>2, <1>3, <1>4, <1>5, <1>6, <1>7, <1>8, <1>f DEF Next, RequestStep, ReadStep

-----------------------------------------------------------------------------
(* Between requests.                                                       *)

LEMMA InitSteady ==
  ASSUME NEW p \in Procs, Init
  PROVE  /\ Agree /\ Found(req[p]) /\ Sealed(req[p]) /\ NoneShared /\ Brings(req[p])
         /\ VisibilityRight(req[p])
<1>1. req[p] = Idle /\ ~MetaExists /\ Holders = {} /\ ~Shared
  BY DEF Init, StoreInit, MetaExists, Holders, HasEnvelope, LiveVersions, Live, NoEnvelope, Shared
<1>2. Agree
  BY DEF Init, StoreInit, Agree, OldVersionsInvalid, EnvelopesOpen, Live, NoEnvelope
<1> QED
  BY <1>1, <1>2 DEF Found, Sealed, NoneShared, Brings, VisibilityRight,
     Idle, Wraps

\* When requests neither overlap nor break off and no group is deleted, the
\* visibility that is shown says, between requests, whether the secret is shared.
THEOREM VisibilityIsTrue ==
  ASSUME NEW p, Procs = {p}, {"abort", "deletegroup"} \cap Ops = {}
  PROVE  Spec => []VisibilityMatchesShares
<1> DEFINE S == /\ Agree /\ Found(req[p]) /\ NoneShared /\ Brings(req[p]) /\ VisibilityRight(req[p])
<1>1. Init => S
  BY InitSteady
<1>2. TypeOK /\ CreatedOnce /\ S /\ [Next]_vars => S'
  BY NextKey, NextNoneShared, NextBrings, NextVisibility
<1>3. TypeOK /\ CreatedOnce /\ [Next]_vars => CreatedOnce'
  BY NextCreatedOnce
<1>4. S => VisibilityMatchesShares
  BY DEF VisibilityRight, VisibilityMatchesShares, Quiescent, At, Shared
<1> HIDE DEF S
<1> QED
  BY <1>1, <1>2, <1>3, <1>4, InitCreatedOnce, TypeCorrect, PTL DEF Spec

\* With one request at a time, whatever operations occur and wherever they break
\* off, a user comes to hold an envelope without a share in four ways only: the
\* creation whose share rows follow, the batch panel that drops a share, the
\* caller of a rotation that drops its own, and the deletion of a group.
THEOREM StraysAreExplained ==
  ASSUME NEW c, Procs = {c}
  PROVE  Spec => StraysExplained
<1> DEFINE S == /\ Agree /\ Found(req[c]) /\ Sealed(req[c]) /\ Brings(req[c]) /\ Seals(req[c])
           Ways(u) == \/ \E p \in Procs :
                           /\ req'[p] # req[p]
                           /\ \/ At(p, "commit") /\ req[p].op = "create"
                              \/ At(p, "drop") /\ (req[p].batch \/ req[p].u = u)
                      \/ \E g \in Groups : u \in members[g] /\ RemoveGroup(g)
           Step == \A u \in Users \ {Owner} : Stray(u)' /\ ~Stray(u) => Ways(u)
<1>1. Init => S
  <2> SUFFICES ASSUME Init PROVE S
    OBVIOUS
  <2>1. Holders = {} /\ req[c] = Idle
    BY DEF Init, StoreInit, Holders, HasEnvelope, LiveVersions, Live, NoEnvelope
  <2>2. Agree
    BY DEF Init, StoreInit, Agree, OldVersionsInvalid, EnvelopesOpen, Live, NoEnvelope
  <2> QED
    BY <2>1, <2>2 DEF Found, Sealed, Brings, Seals, Sealing, Idle, Wraps
<1>2. TypeOK /\ CreatedOnce /\ S /\ [Next]_vars => S'
  BY NextKey, NextSealed, NextBrings, NextSeals
<1>3. TypeOK /\ CreatedOnce /\ [Next]_vars => CreatedOnce'
  BY NextCreatedOnce
<1>4. TypeOK /\ CreatedOnce /\ S /\ [Next]_vars => Step
  <2> SUFFICES ASSUME TypeOK, CreatedOnce, S, [Next]_vars,
                      NEW u \in Users \ {Owner}, Stray(u)', ~Stray(u)
               PROVE  Ways(u)
    OBVIOUS
  <2> DEFINE q == req[c]
  <2>0. /\ c \in Procs /\ q \in Request /\ u \in Users /\ u # Owner
        /\ directs \in [Users -> Markers] /\ gshares \in [Groups -> Markers]
        /\ members \in [Groups -> SUBSET Users] /\ envs \in EnvelopeTable
    BY DEF TypeOK, StoreTypeOK, Markers, EnvelopeTable
  <2>q. Brings(q) /\ Seals(q)
    OBVIOUS
  <2>s. Sealed(req[c])'
    BY NextSealed
  <2>a. HasEnvelope(u)' /\ Granted(u)' = {}
    BY DEF Stray
  <2>b. Granted(u) = {} => ~HasEnvelope(u)
    BY DEF Stray
  <2>c. directs'[u] = "none" /\ \A g \in Groups : u \in members'[g] => gshares'[g] = "none"
    BY <2>a DEF Granted
  <2>f. ~UNCHANGED <<envs, directs, gshares, members>>
    BY StrayFrame
  <2> HIDE DEF Ways, q
  <2>1. CASE AdminStep(c)
    <3>1. CASE \E g \in Groups, v \in Users : AddMember(g, v)
      <4>1. UNCHANGED <<envs, directs, gshares>> /\ \A g \in Groups : members[g] \subseteq members'[g]
        BY <2>0, <3>1 DEF AddMember, AddGroupMember
      <4>2. Granted(u) \subseteq Granted(u)'
        BY <4>1 DEF Granted
      <4> QED
        BY <2>a, <2>b, <4>1, <4>2 DEF HasEnvelope, LiveVersions, Live
    <3>2. CASE \E g \in Groups, v \in Users : RemoveMember(g, v)
      <4>1. PICK g \in Groups, v \in Users : RemoveMember(g, v)
        BY <3>2
      <4>2. /\ members' = [members EXCEPT ![g] = @ \ {v}] /\ UNCHANGED <<directs, gshares>>
            /\ envs' = IF gshares[g] # "none" /\ directs[v] = "none"
                       THEN EnvelopesRevoked(envs, {v}, Versions) ELSE envs
        BY <4>1 DEF RemoveMember, RemoveGroupMember
      <4>3. directs[u] = "none"
        BY <2>c, <4>2
      <4>4. CASE u = v /\ gshares[g] # "none"
        <5>1. ASSUME NEW k \in Versions PROVE ~Live(u, k)'
          BY <2>0, <4>2, <4>3, <4>4 DEF Live, EnvelopesRevoked, EnvelopeTable, EnvelopeRow
        <5> QED
          BY <2>a, <5>1 DEF HasEnvelope, LiveVersions
      <4>5. CASE ~(u = v /\ gshares[g] # "none")
        <5>1. Granted(u) = Granted(u)'
          BY <2>0, <4>2, <4>5 DEF Granted
        <5>2. ASSUME NEW k \in Versions, Live(u, k)' PROVE Live(u, k)
          BY <2>0, <4>2, <5>2 DEF Live, EnvelopesRevoked, EnvelopeTable, EnvelopeRow
        <5> QED
          BY <2>a, <2>b, <5>1, <5>2 DEF HasEnvelope, LiveVersions
      <4> QED
        BY <4>4, <4>5
    <3>3. CASE \E g \in Groups : RemoveGroup(g)
      <4>1. PICK g \in Groups : RemoveGroup(g)
        BY <3>3
      <4>2. CASE u \in members[g]
        BY <4>1, <4>2 DEF Ways
      <4>3. CASE u \notin members[g]
        <5>1. /\ members' = [members EXCEPT ![g] = {}] /\ gshares' = [gshares EXCEPT ![g] = "none"]
              /\ UNCHANGED <<envs, directs>>
          BY <4>1 DEF RemoveGroup, DeleteGroup
        <5>2. Granted(u)' = Granted(u)
          BY <2>0, <4>3, <5>1 DEF Granted
        <5> QED
          BY <2>a, <2>b, <5>1, <5>2 DEF HasEnvelope, LiveVersions, Live
      <4> QED
        BY <4>2, <4>3
    <3>4. CASE \E v \in Users : DisableUser(v) \/ OnboardUser(v)
      BY <2>f, <3>4 DEF DisableUser, OnboardUser, storeVars
    <3> QED
      BY <2>1, <3>1, <3>2, <3>3, <3>4 DEF AdminStep
  <2>2. ASSUME CommitCreate(c) PROVE Ways(u)
    <3>1. At(c, "commit") /\ q.op = "create" /\ req'[c].pc = "users"
      BY <2>0, <2>2, GotoAs DEF CommitCreate, q
    <3> QED
      BY <2>0, <3>1 DEF Ways, At, q
  <2>3. ASSUME PutCreateUser(c) \/ PutCreateGroup(c) PROVE FALSE
    <3>1. q.pc \in {"users", "groups"}
      BY <2>3 DEF PutCreateUser, PutCreateGroup, At, q
    <3>2. q.cap # "none"
      BY <2>q, <3>1 DEF Brings, Capabilities
    <3>3. /\ UNCHANGED <<envs, members>>
          /\ \A v \in Users : directs'[v] = directs[v] \/ directs'[v] = q.cap
          /\ \A g \in Groups : gshares'[g] = gshares[g] \/ gshares'[g] = q.cap
      BY <2>0, <2>3 DEF PutCreateUser, PutCreateGroup, PutSecretDirectShare, PutSecretGroupShare,
         storeVars, q
    <3>4. Granted(u) = {}
      BY <2>0, <2>c, <3>2, <3>3 DEF Granted
    <3> QED
      BY <2>a, <2>b, <3>3, <3>4 DEF HasEnvelope, LiveVersions, Live
  <2>4. ASSUME CommitShare(c) PROVE FALSE
    <3>1. /\ ShareSecret(q.to, q.kv, q.dk, q.to \ {q.u}, q.cap)
          /\ q.op = "share"
      BY <2>4 DEF CommitShare, q
    <3>2. q.cap # "none" /\ q.u \notin q.to
      BY <2>q, <3>1 DEF Brings, Capabilities
    <3>3. /\ envs' = EnvelopesPut(envs, q.to, q.kv, q.dk) /\ UNCHANGED <<gshares, members>>
          /\ directs' = [v \in Users |-> IF v \in q.to THEN q.cap ELSE directs[v]]
      BY <3>1, <3>2 DEF ShareSecret
    <3>4. u \notin q.to /\ directs[u] = "none"
      BY <2>0, <2>c, <3>2, <3>3
    <3>5. Granted(u) = {}
      BY <2>c, <3>3, <3>4 DEF Granted
    <3>6. HasEnvelope(u)
      BY <2>0, <2>a, <3>3, <3>4 DEF HasEnvelope, LiveVersions, Live, EnvelopesPut
    <3> QED
      BY <2>b, <3>5, <3>6
  <2>5. ASSUME NEW g \in Groups, CommitShareGroup(c, g) PROVE FALSE
    <3>1. /\ ShareSecretGroup(q.to, q.kv, q.dk, g, q.cap)
          /\ q.pc = "commit" /\ q.op \in {"sharegroup", "reseal"} /\ g \in q.groups
      BY <2>5 DEF CommitShareGroup, At, q
    <3>2. q.cap # "none" /\ q.to \subseteq members[g]
      BY <2>q, <3>1 DEF Brings, Capabilities, MembersOf
    <3>3. /\ envs' = EnvelopesPut(envs, q.to, q.kv, q.dk) /\ UNCHANGED <<directs, members>>
          /\ gshares' = [gshares EXCEPT ![g] = q.cap]
      BY <3>1 DEF ShareSecretGroup
    <3>4. u \notin members[g] /\ \A h \in Groups \ {g} : gshares'[h] = gshares[h]
      BY <2>0, <2>c, <3>2, <3>3
    <3>5. Granted(u) = {}
      BY <2>c, <3>3, <3>4 DEF Granted
    <3>6. HasEnvelope(u)
      BY <2>0, <2>a, <3>2, <3>3, <3>4 DEF HasEnvelope, LiveVersions, Live, EnvelopesPut
    <3> QED
      BY <2>b, <3>5, <3>6
  <2>6. ASSUME CommitRotate(c) PROVE FALSE
    <3>1. /\ UNCHANGED <<directs, gshares, members>> /\ Goto(c, "drop")
          /\ q.op = "rotate" /\ q.pc = "commit"
      BY <2>6 DEF CommitRotate, RotateSecret, At, q
    <3>2. req'[c].pc = "drop" /\ req'[c].to = q.to
      BY <2>0, <3>1, GotoAs DEF Same, q
    <3>3. u \in q.to
      BY <2>0, <2>a, <2>s, <3>2 DEF Sealed, Holders
    <3>4. Granted(u) = {} /\ ~HasEnvelope(u)
      BY <2>a, <2>b, <3>1 DEF Granted
    <3>5. u \in Keepers(q)
      BY <2>q, <3>1, <3>3, <3>4 DEF Seals, Sealing
    <3>6. u = q.u
      BY <2>0, <3>4, <3>5 DEF Keepers, Granted, MembersOf
    <3> QED
      BY <2>q, <3>1, <3>4, <3>6 DEF Seals
  <2>7. ASSUME DropUser(c) \/ DropGroup(c) \/ DropFails(c) PROVE Ways(u)
    <3>1. CASE q.batch \/ q.u = u
      BY <2>0, <2>7, <3>1, DropStays DEF Ways, At, q
    <3>2. CASE ~q.batch /\ q.u # u
      <4>1. /\ UNCHANGED <<envs, members>> /\ q.pc = "drop"
            /\ \A v \in Users : directs'[v] = directs[v] \/ v \in q.users
            /\ \A g \in Groups : gshares'[g] = gshares[g] \/ g \in q.groups
        BY <2>0, <2>7, DropStays DEF q
      <4>2. u \in Holders
        BY <2>0, <2>a, <4>1 DEF Holders, HasEnvelope, LiveVersions, Live
      <4>3. Stays(u, q)
        BY <2>q, <3>2, <4>1, <4>2 DEF Seals
      <4> QED
        BY <2>0, <2>c, <4>1, <4>3 DEF Stays
    <3> QED
      BY <3>1, <3>2
  <2>8. ~CommitDelete(c)
    <3> SUFFICES ASSUME CommitDelete(c) PROVE FALSE
      OBVIOUS
    <3>1. Holders' = {}
      BY DEF CommitDelete, DeleteSecret, NoEnvelope, Holders, HasEnvelope, LiveVersions, Live
    <3> QED
      BY <2>0, <2>a, <3>1 DEF Holders
  <2>9. ~(ClientBegins(c) \/ ReadStep(c) \/ PutMeta(c) \/ PutBlob(c) \/ RefuseRevoked(c) \/ Abort(c)
          \/ UNCHANGED vars)
    <3>1. ClientBegins(c) => UNCHANGED <<envs, directs, gshares, members>>
      BY <2>0, BeginsAs DEF storeVars
    <3>2. ReadStep(c) => UNCHANGED <<envs, directs, gshares, members>>
      BY <2>0, ReadsGo DEF storeVars
    <3>3. PutMeta(c) \/ PutBlob(c) \/ RefuseRevoked(c) \/ Abort(c) \/ UNCHANGED vars
            => UNCHANGED <<envs, directs, gshares, members>>
      BY DEF PutMeta, PutBlob, RefuseRevoked, Abort, PutSecretMeta, PutSecretCiphertext, storeVars, vars
    <3> QED
      BY <2>f, <3>1, <3>2, <3>3
  <2> QED
    BY <2>0, <2>1, <2>2, <2>3, <2>4, <2>5, <2>6, <2>7, <2>8, <2>9 DEF Next, RequestStep, ReadStep
<1> HIDE DEF S
<1>5. Spec => [](TypeOK /\ CreatedOnce /\ S)
  BY <1>1, <1>2, <1>3, InitCreatedOnce, TypeCorrect, PTL DEF Spec
<1> QED
  BY <1>4, <1>5, PTL DEF Spec, StraysExplained

-----------------------------------------------------------------------------
(* Nobody grants more than they have.                                      *)

\* The requester may grant what its request is about to write.
Entitled(r) ==
  /\ r.op \in {"share", "sharegroup", "reseal"} /\ r.pc \in {"blob", "commit"} =>
       \/ MayGrant(r.u, r.cap)
       \/ r.op = "reseal" /\ \A g \in r.groups : gshares[g] = r.cap
  /\ r.op = "reseal" => r.pc \in {"gapenvs", "gapversions", "auth", "cap", "blob", "commit", "sync", "putmeta"}
  /\ r.op = "reseal" /\ r.pc \in {"gapenvs", "gapversions", "auth"} => r.cap = "none"
  /\ r.pc = "cap" => \A g \in r.groups : gshares[g] # "none"
  /\ r.op = "create" => r.u = Owner /\ r.vis \in Visibilities
  /\ r.pc \in {"users", "groups"} => MetaExists

\* What callerEffectiveCapability looks for among the granted capabilities.
Best(caps) == CHOOSE c \in caps : \A d \in caps : CapAtLeast(c, d)
Better(u) == {c \in Granted(u) : CapRank(c) > CapRank("none")}

LEMMA EffectiveIsBest ==
  ASSUME NEW u \in Users
  PROVE  EffectiveCap(u) = IF MetaExists /\ u = Owner THEN "admin"
                           ELSE IF Better(u) # {} THEN Best(Better(u))
                           ELSE IF HasEnvelope(u) THEN "read" ELSE "none"
BY DEF EffectiveCap, Best, Better

\* A step that leaves the store alone leaves everyone's capability alone.
LEMMA EffectiveFrame ==
  ASSUME UNCHANGED storeVars, NEW u \in Users
  PROVE  EffectiveCap(u)' = EffectiveCap(u)
<1>1. Better(u)' = Better(u)
  BY DEF Better, Granted, storeVars
<1>2. (MetaExists' <=> MetaExists) /\ (HasEnvelope(u)' <=> HasEnvelope(u))
  BY DEF MetaExists, HasEnvelope, LiveVersions, Live, storeVars
<1>3. EffectiveCap(u)' = (IF MetaExists /\ u = Owner THEN "admin"
                          ELSE IF Better(u) # {} THEN Best(Better(u))
                          ELSE IF HasEnvelope(u) THEN "read" ELSE "none")'
  BY DEF EffectiveCap, Best, Better
<1>4. Best(Better(u))' = Best(Better(u))
  BY <1>1 DEF Best
<1> QED
  BY <1>1, <1>2, <1>3, <1>4, EffectiveIsBest

\* A request that reads on, or that goes on after it wrote.
LEMMA ReadEntitled ==
  ASSUME TypeOK, "dberror" \notin Ops, NEW p \in Procs, NEW r, CreatedOnce, Brings(req[p]), Entitled(req[p]),
         UNCHANGED storeVars, Become(p, r), Goes(req[p], r)
  PROVE  Entitled(req[p])'
<1> DEFINE q == req[p]
<1>0. q \in Request /\ q.u \in Users
  BY DEF TypeOK, Request
<1>q. Brings(q) /\ Entitled(q) /\ Goes(q, r) /\ (q.op = "create" => q.pc \in {"commit", "users", "groups"})
  BY DEF CreatedOnce
<1> HIDE DEF q
<1>a. r.op = q.op /\ r.u = q.u /\ r.groups = q.groups /\ q.op # "create"
  BY <1>q DEF Goes
<1>1. \A cap : MayGrant(r.u, cap)' <=> MayGrant(r.u, cap)
  BY <1>0, <1>a, EffectiveFrame DEF MayGrant
<1>2. r.op \in {"share", "sharegroup", "reseal"} /\ r.pc \in {"blob", "commit"} =>
        \/ MayGrant(r.u, r.cap)
        \/ r.op = "reseal" /\ \A g \in r.groups : gshares[g] = r.cap
  <2> SUFFICES ASSUME r.op \in {"share", "sharegroup", "reseal"}, r.pc \in {"blob", "commit"}
               PROVE  \/ MayGrant(r.u, r.cap)
                      \/ r.op = "reseal" /\ \A g \in r.groups : gshares[g] = r.cap
    OBVIOUS
  <2>1. q.pc \in {"auth", "cap", "blob"}
    BY <1>q, <1>a DEF Goes, Brings
  <2>2. CASE q.pc = "auth" /\ q.op = "share"
    BY <1>q, <1>a, <2>2 DEF Goes, Authorized
  <2>3. CASE q.pc = "auth" /\ q.op = "sharegroup"
    <3>1. PICK g \in Groups : q.groups = {g}
      BY <1>q, <2>3 DEF Brings
    <3>2. MayGrant(q.u, q.cap)
      BY <1>q, <2>3, <3>1 DEF Goes, Authorized
    <3> QED
      BY <1>q, <1>a, <2>3, <3>2 DEF Goes
  <2>4. CASE q.pc = "auth" /\ q.op = "reseal"
    <3>1. PICK g \in Groups : q.groups = {g}
      BY <1>q, <2>4 DEF Brings
    <3>2. gshares[g] = "none" /\ r.cap = "write" /\ q.cap = "none"
      BY <1>q, <2>4, <3>1 DEF Goes, Entitled
    <3>3. MayGrant(q.u, "none")
      BY <1>q, <2>4, <3>1, <3>2 DEF Goes, Authorized
    <3> QED
      BY <1>a, <3>2, <3>3 DEF MayGrant, CapAtLeast, CapRank
  <2>5. CASE q.pc = "cap"
    <3>1. PICK g \in Groups : q.groups = {g}
      BY <1>q, <2>5 DEF Brings
    <3>2. r.cap = gshares[g] /\ q.op = "reseal"
      BY <1>q, <2>5, <3>1 DEF Goes, Entitled, Brings
    <3> QED
      BY <1>a, <3>1, <3>2
  <2>6. CASE q.pc = "blob"
    BY <1>q, <1>a, <2>6 DEF Goes, Entitled
  <2> QED
    BY <1>a, <2>1, <2>2, <2>3, <2>4, <2>5, <2>6
<1>3. r.op = "reseal" =>
        /\ r.pc \in {"gapenvs", "gapversions", "auth", "cap", "blob", "commit", "sync", "putmeta"}
        /\ r.pc \in {"gapenvs", "gapversions", "auth"} => r.cap = "none"
  <2> SUFFICES ASSUME q.op = "reseal"
               PROVE  /\ r.pc \in {"gapenvs", "gapversions", "auth", "cap", "blob", "commit", "sync", "putmeta"}
                      /\ r.pc \in {"gapenvs", "gapversions", "auth"} => r.cap = "none"
    BY <1>a
  <2>1. q.pc \in {"gapenvs", "gapversions", "auth", "cap", "blob", "sync"}
    BY <1>q DEF Goes, Entitled
  <2> QED
    BY <1>q, <2>1 DEF Goes, Entitled
<1>4. r.pc \notin {"users", "groups"} /\ (r.pc = "cap" => \A g \in r.groups : gshares[g] # "none")
  <2>1. r.pc = "cap" => q.pc = "auth" /\ q.op = "reseal" /\ \E g \in q.groups : gshares[g] # "none"
    BY <1>q DEF Goes
  <2>2. q.op = "reseal" => \E g \in Groups : q.groups = {g}
    BY <1>q DEF Brings
  <2> QED
    BY <1>q, <1>a, <2>1, <2>2 DEF Goes
<1>5. req'[p] = r
  BY Became
<1>6. gshares' = gshares
  BY DEF storeVars
<1> QED
  BY <1>a, <1>1, <1>2, <1>3, <1>4, <1>5, <1>6 DEF Entitled

LEMMA NextEntitled ==
  ASSUME NEW p, Procs = {p}, "dberror" \notin Ops, TypeOK, CreatedOnce, Found(req[p]), Brings(req[p]),
         Entitled(req[p]), [Next]_vars
  PROVE  Entitled(req[p])'
<1> DEFINE q == req[p]
<1>0. p \in Procs /\ q \in Request
  BY DEF TypeOK
<1>q. Brings(q) /\ Entitled(q) /\ Found(q)
  OBVIOUS
<1>c. q.op = "create" => q.pc \in {"commit", "users", "groups"}
  BY <1>0 DEF CreatedOnce
<1>f. Finish(p) => Entitled(req[p])'
  <2> SUFFICES ASSUME Finish(p) PROVE Entitled(req[p])'
    OBVIOUS
  <2>1. req'[p] = Idle
    BY <1>0, FinishAs
  <2> QED
    BY <2>1 DEF Entitled, Idle
<1> HIDE DEF q
<1>1. CASE ClientBegins(p)
  <2>1. PICK r : Become(p, r) /\ Begun(r)
    BY <1>0, <1>1, BeginsAs
  <2>2. req'[p] = r
    BY <1>0, <2>1, Became
  <2> QED
    BY <2>1, <2>2 DEF Begun, Entitled, Visibilities
<1>2. CASE AdminStep(p)
  <2>1. UNCHANGED req /\ q.pc = "idle"
    BY <1>2 DEF AdminStep, AddMember, RemoveMember, RemoveGroup, DisableUser, OnboardUser, At, q
  <2> QED
    BY <1>q, <2>1 DEF Entitled, q
<1>3. CASE ReadStep(p) /\ ~Finish(p)
  <2>1. PICK r : Become(p, r) /\ Goes(q, r)
    BY <1>0, <1>3, ReadsGo DEF q
  <2> QED
    BY <1>0, <1>3, <2>1, ReadsGo, ReadEntitled DEF q
<1>4. ASSUME Same(q, req'[p]), req'[p].pc \in {"users", "groups", "sync", "drop", "putblob"},
             req'[p].pc \in {"users", "groups"} => q.op = "create" /\ MetaExists',
             q.op = "reseal" => req'[p].pc = "sync"
      PROVE  Entitled(req[p])'
  BY <1>q, <1>4 DEF Same, Entitled
<1>5. CASE CommitShare(p) \/ (\E g \in Groups : CommitShareGroup(p, g)) \/ CommitRotate(p)
  <2>1. /\ \/ q.op \in {"share", "sharegroup", "reseal"} /\ Goto(p, "sync")
           \/ q.op = "rotate" /\ Goto(p, "drop")
    BY <1>5 DEF CommitShare, CommitShareGroup, CommitRotate, q
  <2> QED
    BY <1>0, <1>4, <2>1, GotoAs DEF q
<1>6. CASE CommitCreate(p)
  <2>1. q.op = "create" /\ Goto(p, "users") /\ meta' = [vis |-> q.vis, title |-> q.dk]
    BY <1>6 DEF CommitCreate, CreateSecret, q
  <2>2. q.vis \in Visibilities
    BY <1>q, <2>1 DEF Entitled
  <2>3. MetaExists'
    BY <2>1, <2>2 DEF MetaExists, NoMeta, Visibilities
  <2> QED
    BY <1>0, <1>4, <2>1, <2>3, GotoAs DEF q
<1>7. CASE PutCreateUser(p) \/ PutCreateGroup(p)
  <2>1. /\ \/ Finish(p)
           \/ Goto(p, "groups")
           \/ \E u : Become(p, [q EXCEPT !.users = @ \ {u}])
           \/ \E g : Become(p, [q EXCEPT !.groups = @ \ {g}])
        /\ q.pc \in {"users", "groups"} /\ UNCHANGED meta
    BY <1>7 DEF PutCreateUser, PutCreateGroup, PutSecretDirectShare, PutSecretGroupShare,
       storeVars, At, q
  <2>2. q.op = "create" /\ MetaExists'
    BY <1>q, <2>1 DEF Brings, Entitled, MetaExists
  <2>3. ASSUME ~Finish(p) PROVE Same(q, req'[p]) /\ req'[p].pc \in {"users", "groups"}
    BY <1>0, <2>1, <2>3, GotoAs, LessUsers, LessGroups DEF q
  <2> QED
    BY <1>4, <1>f, <2>2, <2>3
<1>8. CASE DropUser(p) \/ DropGroup(p) \/ DropFails(p)
  <2>1. /\ \/ Goto(p, "sync")
           \/ \E u : Become(p, [q EXCEPT !.users = @ \ {u}])
           \/ \E g : Become(p, [q EXCEPT !.groups = @ \ {g}])
        /\ q.pc = "drop"
    BY <1>8 DEF DropUser, DropGroup, DropFails, At, q
  <2>2. q.op = "rotate"
    BY <1>q, <2>1 DEF Found
  <2>3. Same(q, req'[p]) /\ req'[p].pc \in {"sync", "drop"}
    BY <1>0, <2>1, GotoAs, LessUsers, LessGroups DEF q
  <2> QED
    BY <1>4, <2>2, <2>3
<1>9. CASE CommitDelete(p) \/ PutMeta(p) \/ PutBlob(p) \/ RefuseRevoked(p) \/ Abort(p)
  <2>1. Finish(p) \/ (Goto(p, "putblob") /\ q.op = "update")
    BY <1>9 DEF CommitDelete, PutMeta, PutBlob, RefuseRevoked, Abort, q
  <2> QED
    BY <1>0, <1>4, <1>f, <2>1, GotoAs DEF q
<1>10. CASE UNCHANGED vars
  <2>1. UNCHANGED req /\ UNCHANGED storeVars
    BY <1>10 DEF vars, storeVars
  <2>2. \A cap : MayGrant(q.u, cap)' <=> MayGrant(q.u, cap)
    BY <1>0, <2>1, EffectiveFrame DEF MayGrant, Request, q
  <2> QED
    BY <1>q, <2>1, <2>2 DEF Entitled, MetaExists, storeVars, q
<1> QED
  BY <1>0, <1>1, <1>2, <1>3, <1>5, <1>6, <1>7, <1>8, <1>9, <1>10, <1>f
     DEF Next, RequestStep, ReadStep

LEMMA GrantEntitled ==
  ASSUME NEW c, Procs = {c}, TypeOK, Brings(req[c]), Entitled(req[c]), [Next]_vars,
         NEW u \in Users, NEW g \in Groups,
         NEW new \in ({directs'[u]} \ {directs[u]}) \cup ({gshares'[g]} \ {gshares[g]}),
         new # "none"
  PROVE  req'[c] # req[c] /\ CapAtLeast(EffectiveCap(req[c].u), new)
<1> DEFINE q == req[c]
<1>0. /\ c \in Procs /\ q \in Request
      /\ directs \in [Users -> Markers] /\ gshares \in [Groups -> Markers]
  BY DEF TypeOK, StoreTypeOK, Markers
<1>q. Brings(q) /\ Entitled(q)
  OBVIOUS
<1>n. \/ new = directs'[u] /\ new # directs[u]
      \/ new = gshares'[g] /\ new # gshares[g]
  OBVIOUS
<1>a. CapAtLeast("admin", new)
  BY Ranks DEF CapAtLeast
<1> HIDE DEF q
<1>1. ASSUME q.pc \in {"users", "groups"} PROVE EffectiveCap(q.u) = "admin"
  BY <1>q, <1>1 DEF Brings, Entitled, EffectiveCap
<1>2. CASE PutCreateUser(c)
  <2>1. PICK v \in q.users : directs' = [directs EXCEPT ![v] = q.cap] /\ UNCHANGED gshares
                             /\ Become(c, [q EXCEPT !.users = @ \ {v}])
    BY <1>n, <1>2 DEF PutCreateUser, PutSecretDirectShare, storeVars, q
  <2>2. req'[c].users = q.users \ {v} /\ q.pc = "users"
    BY <1>0, <1>2, <2>1, LessUsers DEF PutCreateUser, At, q
  <2>3. q.users \ {v} # q.users
    OBVIOUS
  <2> QED
    BY <1>a, <1>1, <2>2, <2>3 DEF q
<1>3. CASE PutCreateGroup(c)
  <2>1. PICK h \in q.groups : Become(c, [q EXCEPT !.groups = @ \ {h}])
    BY <1>n, <1>3 DEF PutCreateGroup, PutSecretGroupShare, storeVars, q
  <2>2. req'[c].groups = q.groups \ {h} /\ q.pc = "groups"
    BY <1>0, <1>3, <2>1, LessGroups DEF PutCreateGroup, At, q
  <2>3. q.groups \ {h} # q.groups
    OBVIOUS
  <2> QED
    BY <1>a, <1>1, <2>2, <2>3 DEF q
<1>4. CASE CommitShare(c)
  <2>1. /\ ShareSecret(q.to, q.kv, q.dk, q.to \ {q.u}, q.cap) /\ Goto(c, "sync")
        /\ q.pc = "commit" /\ q.op = "share"
    BY <1>4 DEF CommitShare, At, q
  <2>2. new = q.cap
    BY <1>n, <2>1 DEF ShareSecret
  <2>3. MayGrant(q.u, q.cap)
    BY <1>q, <2>1 DEF Entitled
  <2>4. req'[c].pc = "sync"
    BY <1>0, <2>1, GotoAs
  <2> QED
    BY <2>1, <2>2, <2>3, <2>4 DEF MayGrant, q
<1>5. CASE \E h \in Groups : CommitShareGroup(c, h)
  <2>1. PICK h \in Groups : /\ ShareSecretGroup(q.to, q.kv, q.dk, h, q.cap) /\ Goto(c, "sync")
                            /\ q.pc = "commit" /\ q.op \in {"sharegroup", "reseal"} /\ h \in q.groups
    BY <1>5 DEF CommitShareGroup, At, q
  <2>2. new = q.cap /\ gshares[h] # q.cap
    BY <1>0, <1>n, <2>1 DEF ShareSecretGroup
  <2>3. MayGrant(q.u, q.cap)
    BY <1>q, <2>1, <2>2 DEF Entitled
  <2>4. req'[c].pc = "sync"
    BY <1>0, <2>1, GotoAs
  <2> QED
    BY <2>1, <2>2, <2>3, <2>4 DEF MayGrant, q
<1>6. CASE DropUser(c) \/ DropGroup(c) \/ DropFails(c)
  <2>1. \/ UNCHANGED <<directs, gshares>>
        \/ \E v : directs' = [directs EXCEPT ![v] = "none"] /\ UNCHANGED gshares
        \/ \E h : gshares' = [gshares EXCEPT ![h] = "none"] /\ UNCHANGED directs
    BY <1>6 DEF DropUser, DropGroup, DropFails, DeleteSecretDirectShare, DeleteSecretGroupShare,
       PutSecretDirectShare, PutSecretGroupShare, storeVars
  <2> QED
    BY <1>0, <1>n, <2>1
<1>7. CASE CommitDelete(c)
  BY <1>n, <1>7 DEF CommitDelete, DeleteSecret
<1>8. CASE AdminStep(c)
  <2>1. UNCHANGED directs /\ (UNCHANGED gshares \/ \E h : gshares' = [gshares EXCEPT ![h] = "none"])
    BY <1>8 DEF AdminStep, AddMember, RemoveMember, RemoveGroup, DisableUser, OnboardUser,
       AddGroupMember,
       RemoveGroupMember, DeleteGroup, storeVars
  <2> QED
    BY <1>0, <1>n, <2>1
<1>9. CASE UNCHANGED <<directs, gshares>>
  BY <1>n, <1>9
<1>10. CASE ClientBegins(c) \/ ReadStep(c)
  BY <1>0, <1>9, <1>10, BeginsAs, ReadsGo DEF storeVars
<1>11. CASE \/ CommitCreate(c) \/ CommitRotate(c) \/ PutMeta(c) \/ PutBlob(c) \/ RefuseRevoked(c) \/ Abort(c)
            \/ UNCHANGED vars
  BY <1>9, <1>11 DEF CommitCreate, CreateSecret, CommitRotate, RotateSecret, PutMeta,
     PutSecretMeta, PutBlob,
     PutSecretCiphertext, RefuseRevoked, Abort, storeVars, vars
<1> QED
  BY <1>0, <1>2, <1>3, <1>4, <1>5, <1>6, <1>7, <1>8, <1>10, <1>11 DEF Next, RequestStep, ReadStep

\* Of requests that do not overlap, and as long as no read of the database
\* fails, none writes a capability that its user does not have at that moment:
\* a catch-up too gives a group what it already had.
THEOREM GrantsStayWithinOwn ==
  ASSUME NEW c, Procs = {c}, "dberror" \notin Ops
  PROVE  Spec => GrantsWithinOwn
<1> DEFINE A == Agree /\ Found(req[c]) /\ Brings(req[c]) /\ Entitled(req[c])
           Step == \A u \in Users, g \in Groups :
                     \A new \in ({directs'[u]} \ {directs[u]})
                                  \cup ({gshares'[g]} \ {gshares[g]}) :
                       \/ new = "none"
                       \/ \E p \in Procs :
                            req'[p] # req[p] /\ CapAtLeast(EffectiveCap(req[p].u), new)
<1>1. Init => A
  <2>1. Init => req[c] = Idle
    BY DEF Init
  <2>2. Entitled(Idle)
    BY DEF Entitled, Idle
  <2> QED
    BY <2>1, <2>2, InitSteady
<1>2. TypeOK /\ CreatedOnce /\ A /\ [Next]_vars => A'
  BY NextKey, NextBrings, NextEntitled
<1>3. TypeOK /\ A /\ [Next]_vars => Step
  BY GrantEntitled
<1>4. TypeOK /\ CreatedOnce /\ [Next]_vars => CreatedOnce'
  BY NextCreatedOnce
<1> HIDE DEF A
<1>5. Spec => []A
  BY <1>1, <1>2, <1>4, InitCreatedOnce, TypeCorrect, PTL DEF Spec
<1> QED
  BY <1>3, <1>5, TypeCorrect, PTL DEF Spec, GrantsWithinOwn
=============================================================================
