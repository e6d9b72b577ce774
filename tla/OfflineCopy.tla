---------------------------- MODULE OfflineCopy ----------------------------
(***************************************************************************)
(* The offline copy of a vault in one browser: the tabs of one user, the   *)
(* record they share in IndexedDB, the administrator's policy on the       *)
(* server and the secrets there.                                           *)
(*                                                                         *)
(* A tab works between two awaits without interruption, so each action is  *)
(* the code from one await to the next.  Key material is a number, 0 for   *)
(* none and for a buffer that was filled with zeros.                       *)
(***************************************************************************)
EXTENDS Naturals, FiniteSets

CONSTANTS
  Tabs, Secrets, HwKeys,
  Profiles,   \* the protection profiles a user chooses from
  EarlierProfiles, \* the profiles of copies that were there before
  Policies,   \* the policies the administrator sets
  FirstPolicy,
  MaxSw,      \* software keys 1 .. MaxSw
  MaxKeysets, \* bound: sets of hardware keys ever made
  MaxPuts,    \* bound: copies ever stored
  MaxEdits,   \* bound: revisions of a secret
  MaxEvents,  \* bound: locks, reloads, refreshes, edits, expiries, changes of the policy
  MaxOps,     \* bound: what the users begin
  MaxBoth     \* bound: the last two together

ASSUME OfflineAssumption ==
  /\ MaxSw \in Nat \ {0} /\ MaxKeysets \in Nat \ {0} /\ MaxPuts \in Nat \ {0}
  /\ MaxEdits \in Nat /\ MaxEvents \in Nat /\ MaxOps \in Nat
  /\ MaxBoth \in Nat
  /\ Profiles \subseteq {"STANDARD", "HARDWARE", "COMBINED"}
  /\ EarlierProfiles \subseteq Profiles
  /\ HwKeys # {}

VARIABLES
  store,    \* the record in IndexedDB
  expired,  \* the syncs whose 30 days are over
  spent,    \* history: keysets that a stored copy had and that were given up
  ids,      \* number of keyset identities drawn, a root key with each
  puts,     \* number of copies stored
  server,   \* per secret the revisions of its list row and of its body
  policy,
  events, begun,  \* counted for the bounds
  tabs      \* per tab what its page holds

vars == <<store, expired, spent, ids, puts, server, policy, events, begun, tabs>>
outside == <<ids, server, policy>>

AllProfiles  == {"STANDARD", "HARDWARE", "COMBINED"}
Requirements == {"ANY", "SOFTWARE", "HARDWARE", "COMBINED"}
Policy == [allowed : BOOLEAN, req : Requirements]

ASSUME PolicyAssumption == Policies \cup {FirstPolicy} \subseteq Policy

\* A secret's list row (title, key version, envelope) and its body; all 0 is
\* a secret that is not there.
Revision == [list : 0 .. MaxEdits + 1, body : 0 .. MaxEdits + 1]
Rows == [Secrets -> Revision]
NoRows    == [s \in Secrets |-> [list |-> 0, body |-> 0]]
FirstRows == [s \in Secrets |-> [list |-> 1, body |-> 1]]

SwKeys == 0 .. MaxSw
Roots  == 0 .. MaxKeysets

\* A hardware key's slot: the root key, wrapped under that key and in the
\* profile COMBINED under a software key as well.
Slot == [hw : HwKeys, sw : SwKeys, root : Roots]

\* A copy, or with rev = 0 a set of hardware keys that no copy uses yet.
Copy == [rev : 0 .. MaxPuts, born : 0 .. MaxPuts, profile : AllProfiles,
         id : 0 .. MaxKeysets, slots : SUBSET Slot,
         seal : 0 .. (MaxSw + MaxKeysets), req : Requirements, rows : Rows]

NoCopy == [rev |-> 0, born |-> 0, profile |-> "STANDARD", id |-> 0, slots |-> {},
           seal |-> 0, req |-> "ANY", rows |-> NoRows]

Kinds == {"sync", "register", "remove", "test"}
Steps == {"idle", "policy1", "list", "read", "root", "device", "fetch", "seal",
          "policy2", "put"}

\* A running operation.  "live": the vault.sk it began with is still the tab's.
Op == [kind : Kinds, pc : Steps, live : BOOLEAN, profile : AllProfiles, key : SwKeys,
       req : Requirements, list : Rows, prev : Copy, base : Copy, drop : SUBSET HwKeys,
       root : Roots, draft : Copy, late : BOOLEAN]

NoOp == [kind |-> "sync", pc |-> "idle", live |-> FALSE, profile |-> "STANDARD", key |-> 0,
         req |-> "ANY", list |-> NoRows, prev |-> NoCopy, base |-> NoCopy, drop |-> {},
         root |-> 0, draft |-> NoCopy, late |-> FALSE]

Tab == [mode : {"closed", "picker", "online", "offline"}, loading : BOOLEAN, sk : BOOLEAN, key : SwKeys, root : Roots,
        keyset : Copy, env : Copy, profile : AllProfiles, changed : BOOLEAN,
        seen : Policy, list : Rows, shown : BOOLEAN, op : Op]

NoPolicy == [allowed |-> FALSE, req |-> "ANY"]

Page == [mode |-> "closed", loading |-> FALSE, sk |-> FALSE, key |-> 0, root |-> 0, keyset |-> NoCopy,
         env |-> NoCopy, profile |-> "STANDARD", changed |-> FALSE, seen |-> NoPolicy, list |-> NoRows,
         shown |-> FALSE, op |-> NoOp]

TypeOK ==
  /\ store \in Copy /\ expired \subseteq 1 .. MaxPuts
  /\ spent \subseteq 1 .. MaxKeysets /\ ids \in 0 .. MaxKeysets /\ puts \in 0 .. MaxPuts
  /\ server \in Rows /\ policy \in Policy
  /\ events \in 0 .. MaxEvents /\ begun \in 0 .. MaxOps
  /\ tabs \in [Tabs -> Tab]

\* Copies that an earlier visit may have left in the browser.
Earlier ==
  {[NoCopy EXCEPT !.rev = 1, !.born = 1, !.rows = FirstRows, !.profile = p,
                  !.id = IF p = "STANDARD" THEN 0 ELSE 1, !.seal = 1,
                  !.slots = IF p = "STANDARD" THEN {}
                            ELSE {[hw |-> hw, sw |-> IF p = "COMBINED" THEN 1 ELSE 0,
                                   root |-> 1] : hw \in HwKeys}] : p \in EarlierProfiles}

Init ==
  /\ store \in {NoCopy} \cup Earlier
  /\ puts = store.rev /\ ids = store.id /\ expired = {} /\ spent = {}
  /\ server = FirstRows
  /\ policy = FirstPolicy /\ events = 0 /\ begun = 0
  /\ tabs = [t \in Tabs |-> Page]

-----------------------------------------------------------------------------
(* The policy and the profiles.                                            *)

ProfilesFor(req) ==
  CASE req = "ANY"      -> AllProfiles
    [] req = "SOFTWARE" -> {"STANDARD", "COMBINED"}
    [] req = "HARDWARE" -> {"HARDWARE", "COMBINED"}
    [] req = "COMBINED" -> {"COMBINED"}

ProfileAllowed(p, profile) == p.allowed /\ profile \in ProfilesFor(p.req)

FirstOption(p) == IF "STANDARD" \in ProfilesFor(p.req) THEN "STANDARD"
                  ELSE IF "HARDWARE" \in ProfilesFor(p.req) THEN "HARDWARE" ELSE "COMBINED"

\* clearOfflineHardwareRoot
ForgetRoot(tab) == [tab EXCEPT !.root = 0, !.keyset = NoCopy]

\* updateOfflineAccountUI: the panel follows the copy and the policy, and a
\* profile that changes this way costs the tab its root key.
Repaint(tab) ==
  LET ofCopy == IF /\ ~tab.changed /\ tab.env.rev # 0
                   /\ ProfileAllowed(tab.seen, tab.env.profile)
                THEN tab.env.profile ELSE tab.profile
      chosen == IF ProfileAllowed(tab.seen, ofCopy) THEN ofCopy ELSE FirstOption(tab.seen)
  IN  IF tab.mode # "online" \/ ~tab.seen.allowed \/ chosen = tab.profile THEN tab
      ELSE [ForgetRoot(tab) EXCEPT !.profile = chosen]

-----------------------------------------------------------------------------
(* Copies and keysets.                                                     *)

Hardware(c) == c.profile # "STANDARD"
Expired(c) == c.born \in expired

\* Fault: any copy will do as the one expected.
SameOwner(c, d) == (c.rev = 0) = (d.rev = 0)

SameSnapshot(c, d) == c.rev = d.rev

\* The software key a slot is wrapped under in addition to its hardware key.
SlotKey(profile, key) == IF profile = "COMBINED" THEN key ELSE 0

\* unlockRoot: the slot opens with its hardware key and the software key.
Unlocks(c, slot, key) == slot \in c.slots /\ slot.sw = SlotKey(c.profile, key)

\* verifyRoot, for a keyset that already protects a copy.
RootFits(c, root) == c.rev # 0 => root = c.seal

\* openSnapshot, with a software key and with a root key.
Opens(c, key) == c.rev # 0 /\ ~Expired(c) /\ key = c.seal
OpensWithRoot(c, root) == c.rev # 0 /\ ~Expired(c) /\ RootFits(c, root)

\* sealSnapshot, under a software key and under a root key.
SoftwareCopy(key, req, rows) == [NoCopy EXCEPT !.seal = key, !.req = req, !.rows = rows]
HardwareCopy(keyset, root, req, rows) ==
  [keyset EXCEPT !.rev = 0, !.seal = root, !.req = req, !.rows = rows]

\* createKeyset
NewKeys(profile, id) == [NoCopy EXCEPT !.profile = profile, !.id = id]

\* registerKey: a further slot for the root key.
Registered(c, hw, key, root) ==
  [c EXCEPT !.slots = @ \cup {[hw |-> hw, sw |-> SlotKey(c.profile, key), root |-> root]}]

\* Fault: a rotation keeps the slots of the keys that stay.
RotatedKeepingSlots(c, drop, key, id) ==
  [c EXCEPT !.id = id, !.slots = {s \in c.slots : s.hw \notin drop}]

\* rotateKeyset: new identity, new root key, and a slot for each key kept.
Rotated(c, drop, key, id) ==
  [c EXCEPT !.id = id,
            !.slots = {[hw |-> s.hw, sw |-> SlotKey(c.profile, key), root |-> id] :
                         s \in {s \in c.slots : s.hw \notin drop}}]

CurrentKeyset(tab) ==
  IF tab.keyset.id # 0 /\ tab.keyset.profile = tab.profile THEN tab.keyset
  ELSE IF tab.env.rev # 0 /\ Hardware(tab.env) /\ tab.env.profile = tab.profile THEN tab.env
  ELSE NoCopy

\* Fault: a row that is there is kept.
AssembleKeepingRows(list, prev) ==
  [s \in Secrets |-> IF list[s].list = 0 THEN list[s]
                     ELSE IF prev.rev # 0 THEN prev.rows[s] ELSE server[s]]

\* planSync, needsDetailFetch and assembleSecrets: a row of the previous copy
\* is kept when the revision of its list row is the listed one.
Assemble(list, prev) ==
  [s \in Secrets |-> IF list[s].list = 0 THEN list[s]
                     ELSE IF prev.rev # 0 /\ prev.rows[s].list = list[s].list
                     THEN prev.rows[s] ELSE server[s]]

-----------------------------------------------------------------------------
(* Steps of a tab.                                                         *)

At(t, pc) == tabs[t].op.pc = pc
Idle(t)   == At(t, "idle")
Becomes(t, tab) == tabs' = [tabs EXCEPT ![t] = tab]

\* The end of an operation, in success and in failure: it no longer runs.
Ended(tab) == Repaint([tab EXCEPT !.op = NoOp])

Fails(t) == Becomes(t, Ended(tabs[t]))

\* What an operation still finds in a buffer it shares with the tab.
Held(op, key) == IF op.live THEN key ELSE 0

\* Fault: the lock goes unnoticed.
SessionOkWhenLocked(tab) ==
  tab.mode = "online" /\ ProfileAllowed(tab.seen, tab.op.profile)

\* assertOfflineSession
SessionOk(tab) ==
  /\ tab.op.live /\ tab.mode = "online"
  /\ ProfileAllowed(tab.seen, tab.op.profile)
  /\ tab.key = tab.op.key /\ tab.profile = tab.op.profile

\* refreshOfflinePolicy: what a tab has when the answer comes.
Answered(t) == [tabs[t] EXCEPT !.seen = policy]

\* The answer is lost, or the check after it ends the operation.
RefusedByPolicy(t) ==
  /\ \/ Becomes(t, Ended(IF tabs[t].op.live THEN [tabs[t] EXCEPT !.seen = NoPolicy] ELSE tabs[t]))
     \/ tabs[t].op.live /\ ~SessionOk(Answered(t)) /\ Becomes(t, Ended(Answered(t)))
  /\ UNCHANGED <<store, spent, puts>> /\ UNCHANGED outside

Ready(t) == tabs[t].mode = "online" /\ tabs[t].sk /\ Idle(t)

BeginSync(t) ==
  LET tab == Repaint(tabs[t]) IN
  /\ Ready(t) /\ tab.seen.allowed /\ puts < MaxPuts
  /\ Becomes(t, [tab EXCEPT !.op = [NoOp EXCEPT !.pc = "policy1", !.live = TRUE,
                   !.profile = tab.profile, !.key = tab.key]])
  /\ UNCHANGED <<store, spent, puts>> /\ UNCHANGED outside

BeginRegister(t) ==
  LET tab == tabs[t] IN
  /\ Ready(t) /\ ProfileAllowed(tab.seen, tab.profile)
  /\ tab.profile # "STANDARD" /\ (tab.profile = "COMBINED" => tab.key # 0)
  /\ Becomes(t, [Repaint(tab) EXCEPT !.op = [NoOp EXCEPT !.kind = "register", !.pc = "policy1",
                   !.live = TRUE, !.profile = tab.profile, !.key = tab.key]])
  /\ UNCHANGED <<store, spent, puts>> /\ UNCHANGED outside

BeginRemove(t, hw) ==
  LET tab == tabs[t]
      keyset == CurrentKeyset(tab)
  IN
  /\ Ready(t) /\ ProfileAllowed(tab.seen, tab.profile) /\ tab.profile # "STANDARD"
  /\ \E s \in keyset.slots : s.hw = hw
  /\ \E s \in keyset.slots : s.hw # hw
  /\ Becomes(t, [Repaint(tab) EXCEPT !.op = [NoOp EXCEPT !.kind = "remove", !.pc = "policy1",
                   !.live = TRUE, !.profile = tab.profile, !.key = tab.key,
                   !.base = keyset, !.drop = {hw}]])
  /\ UNCHANGED <<store, spent, puts>> /\ UNCHANGED outside

\* A key is tried: one touch, and the tab has the root key.
BeginTest(t) ==
  LET tab == tabs[t]
      keyset == CurrentKeyset(tab)
  IN
  /\ Ready(t) /\ ProfileAllowed(tab.seen, tab.profile) /\ keyset.id # 0
  /\ Becomes(t, [Repaint(tab) EXCEPT !.op = [NoOp EXCEPT !.kind = "test", !.pc = "root",
                   !.live = TRUE, !.profile = tab.profile, !.key = tab.key, !.base = keyset]])
  /\ UNCHANGED <<store, spent, puts>> /\ UNCHANGED outside

\* The policy is asked for the first time.
Policy1(t) ==
  LET tab == Answered(t)
      op == [tab.op EXCEPT !.req = policy.req]
      keyset == CurrentKeyset(tab)
  IN
  /\ At(t, "policy1")
  /\ \/ RefusedByPolicy(t)
     \/ /\ SessionOk(tab)
        /\ UNCHANGED <<store, spent, puts, server, policy>>
        /\ \/ /\ op.kind = "sync" /\ (op.profile = "HARDWARE" \/ op.key # 0)
              /\ Becomes(t, [tab EXCEPT !.op = [op EXCEPT !.pc = "list"]])
              /\ UNCHANGED ids
           \/ /\ op.kind = "sync" /\ op.profile # "HARDWARE" /\ op.key = 0
              /\ Becomes(t, Ended(tab))
              /\ UNCHANGED ids
           \/ /\ op.kind = "register" /\ keyset.id = 0 /\ ids < MaxKeysets
              /\ ids' = ids + 1
              /\ Becomes(t, [tab EXCEPT !.op = [op EXCEPT !.pc = "device", !.root = ids + 1,
                               !.base = NewKeys(op.profile, ids + 1)]])
           \/ /\ op.kind = "register" /\ keyset.id # 0
              /\ Becomes(t, [tab EXCEPT !.op =
                   IF tab.root # 0 /\ tab.keyset.id = keyset.id
                   THEN [op EXCEPT !.pc = "device", !.base = keyset, !.root = tab.root]
                   ELSE [op EXCEPT !.pc = "root", !.base = keyset]])
              /\ UNCHANGED ids
           \/ /\ op.kind = "remove"
              /\ Becomes(t, [tab EXCEPT !.op = [op EXCEPT !.pc = "device"]])
              /\ UNCHANGED ids

\* The keys of the account and the rest of the list are loaded: a list that
\* the tab already has stays as it is.
List(t) ==
  /\ At(t, "list")
  /\ \/ Fails(t)
     \/ Becomes(t, [tabs[t] EXCEPT !.op.pc = "read",
                      !.list = IF @ = NoRows /\ ~tabs[t].loading THEN server ELSE @])
  /\ UNCHANGED <<store, spent, puts>> /\ UNCHANGED outside

\* A sync goes on with the root key: it opens the previous copy of the same
\* keyset, if it may.
WithRoot(tab, root, keyset, prev) ==
  LET previous == IF Hardware(prev) /\ prev.id = keyset.id /\ ~Expired(prev)
                  THEN prev ELSE NoCopy
  IN  IF previous.rev # 0 /\ ~OpensWithRoot(previous, root) THEN Ended(tab)
      ELSE [tab EXCEPT !.op.pc = "fetch", !.op.prev = prev, !.op.base = keyset,
                       !.op.list = tab.list, !.op.root = root, !.op.draft = previous]

\* The record in the browser is read.
Read(t) ==
  LET tab == tabs[t]
      keyset == CurrentKeyset(tab)
      usable == store.rev # 0 /\ ~Hardware(store) /\ ~Expired(store)
  IN
  /\ At(t, "read")
  /\ \/ ~SessionOk(tab) /\ Fails(t)
     \/ /\ SessionOk(tab) /\ tab.op.profile = "STANDARD"
        /\ Becomes(t, IF usable /\ ~Opens(store, tab.op.key) THEN Ended(tab)
                      ELSE [tab EXCEPT !.op.pc = "fetch", !.op.prev = store, !.op.list = tab.list,
                              !.op.draft = IF usable THEN store ELSE NoCopy])
     \/ /\ SessionOk(tab) /\ tab.op.profile # "STANDARD"
        /\ Becomes(t, IF keyset.id = 0 \/ (keyset.rev # 0 /\ ~SameSnapshot(store, keyset))
                      THEN Ended(tab)
                      ELSE IF tab.root # 0 /\ tab.keyset.id = keyset.id
                      THEN WithRoot(tab, tab.root, keyset, store)
                      ELSE [tab EXCEPT !.op.pc = "root", !.op.prev = store, !.op.base = keyset])
  /\ UNCHANGED <<store, spent, puts>> /\ UNCHANGED outside

\* ensureHardwareRoot: the user touches a key, or does not.
Root(t) ==
  LET tab == tabs[t]
      op  == tab.op
  IN
  /\ At(t, "root")
  /\ \/ Fails(t)
     \/ \E slot \in op.base.slots :
          LET open == [tab EXCEPT !.root = slot.root, !.keyset = op.base] IN
          /\ Unlocks(op.base, slot, op.key) /\ RootFits(op.base, slot.root) /\ SessionOk(tab)
          /\ (op.kind = "test" /\ op.base.rev = 0) => slot.root = tab.root
          /\ Becomes(t, IF op.kind = "sync" THEN WithRoot(open, slot.root, op.base, op.prev)
                        ELSE IF op.kind = "test" THEN Ended(open)
                        ELSE [open EXCEPT !.op.pc = "device", !.op.root = slot.root])
  /\ UNCHANGED <<store, spent, puts>> /\ UNCHANGED outside

\* The bodies of changed secrets are fetched, the copy is put together and
\* sealed; the sealing reads its key in the same turn as the check.
Fetch(t) ==
  LET tab == tabs[t]
      op  == tab.op
      rows == Assemble(op.list, op.draft)
      draft == IF op.profile = "STANDARD" THEN SoftwareCopy(op.key, op.req, rows)
               ELSE HardwareCopy(op.base, op.root, op.req, rows)
  IN
  /\ At(t, "fetch")
  /\ \/ Fails(t)
     \/ /\ SessionOk(tab)
        /\ Becomes(t, [tab EXCEPT !.op.pc = "policy2", !.op.draft = draft])
  /\ UNCHANGED <<store, spent, puts>> /\ UNCHANGED outside

\* A new set of keys is ready: it goes into the copy it protects, or waits
\* in the tab for the first sync.
NewKeyset(tab, keyset, root, protects) ==
  IF ~SessionOk(tab) THEN Ended(tab)
  ELSE IF protects
  THEN IF OpensWithRoot(tab.op.base, tab.op.base.seal)
       THEN [tab EXCEPT !.op.pc = "seal", !.op.draft = keyset, !.op.root = root]
       ELSE Ended(tab)
  ELSE Ended([tab EXCEPT !.root = root, !.keyset = keyset])

\* The user confirms a new key, or each of the keys that stay.
Device(t) ==
  LET tab == tabs[t]
      op  == tab.op
      key == Held(op, op.key)
      new == ids + 1
  IN
  /\ At(t, "device")
  /\ \/ Fails(t) /\ UNCHANGED ids
     \/ \E hw \in HwKeys \ {s.hw : s \in op.base.slots} :
          /\ op.kind = "register"
          /\ Becomes(t, NewKeyset(tab, Registered(op.base, hw, key, Held(op, op.root)), op.root,
                                  tab.env.rev # 0 /\ tab.env.id = op.base.id))
          /\ UNCHANGED ids
     \/ /\ op.kind = "remove" /\ ids < MaxKeysets
        /\ \A s \in op.base.slots : s.hw \notin op.drop => Unlocks(op.base, s, key) /\ RootFits(op.base, s.root)
        /\ ids' = new
        /\ Becomes(t, NewKeyset(tab, Rotated(op.base, op.drop, key, new), new, op.base.rev # 0))
  /\ UNCHANGED <<store, spent, puts, server, policy>>

\* The copy is sealed again, under the tab's root key or the rotated one.
Seal(t) ==
  LET tab == tabs[t]
      op  == tab.op
      with == IF op.kind = "remove" THEN op.root ELSE Held(op, op.root)
  IN
  /\ At(t, "seal")
  /\ Becomes(t, [tab EXCEPT !.op.pc = "policy2",
                   !.op.draft = HardwareCopy(op.draft, with, op.req, op.draft.rows)])
  /\ UNCHANGED <<store, spent, puts>> /\ UNCHANGED outside

\* Fault: the policy is not asked again.
Policy2Trusting(t) ==
  /\ At(t, "policy2")
  /\ Becomes(t, [tabs[t] EXCEPT !.op.pc = "put", !.op.late = FALSE])
  /\ UNCHANGED <<store, spent, puts>> /\ UNCHANGED outside

\* The policy is asked again, right before the copy is stored.
Policy2(t) ==
  /\ At(t, "policy2")
  /\ \/ RefusedByPolicy(t)
     \/ /\ SessionOk(Answered(t))
        /\ Becomes(t, IF policy.req = tabs[t].op.req
                      THEN [Answered(t) EXCEPT !.op.pc = "put", !.op.late = FALSE]
                      ELSE Ended(Answered(t)))
        /\ UNCHANGED <<store, spent, puts>> /\ UNCHANGED outside

Expected(op) == IF op.kind = "sync" THEN op.prev ELSE op.base

\* putSnapshot: the record is replaced if it is still the one known.
Put(t) ==
  LET tab == tabs[t]
      op  == tab.op
      new == puts + 1
      stored == [op.draft EXCEPT !.rev = new, !.born = IF op.kind = "sync" THEN new ELSE @]
      kept == [tab EXCEPT !.env = stored]
  IN
  /\ At(t, "put")
  /\ \/ Fails(t) /\ UNCHANGED <<store, spent, puts>>
     \/ /\ SameSnapshot(store, Expected(op)) /\ (op.kind = "sync" \/ ~Expired(op.draft))
        /\ puts < MaxPuts
        /\ store' = stored /\ puts' = new
        /\ spent' = spent \cup ({store.id} \ {0, stored.id})
        /\ Becomes(t, Ended(
             IF ~SessionOk(tab) THEN kept
             ELSE IF op.kind = "sync"
             THEN [kept EXCEPT !.changed = FALSE,
                               !.keyset = IF Hardware(stored) THEN stored ELSE @]
             ELSE [kept EXCEPT !.root = op.root, !.keyset = stored]))
  /\ UNCHANGED outside

-----------------------------------------------------------------------------
(* The tab outside an operation.                                           *)

Elsewhere == UNCHANGED <<store, spent, puts>> /\ UNCHANGED outside

\* The first unlock of a page, online: the policy is loaded if it can be.
Start(t) ==
  /\ tabs[t].mode = "closed"
  /\ \E seen \in {policy, NoPolicy} :
       Becomes(t, [Page EXCEPT !.mode = "online", !.loading = TRUE, !.sk = TRUE, !.seen = seen])
  /\ Elsewhere

\* Much later, with the secrets loaded, the record is read.
NoticeCopy(t) ==
  /\ tabs[t].loading
  /\ Becomes(t, Repaint([tabs[t] EXCEPT !.loading = FALSE, !.list = server, !.env = store]))
  /\ Elsewhere

\* A new load of the list, as the window gets the focus back for example,
\* begins with an empty one.
BeginRefresh(t) ==
  /\ tabs[t].mode = "online" /\ tabs[t].sk /\ ~tabs[t].loading
  /\ Becomes(t, [tabs[t] EXCEPT !.list = NoRows])
  /\ Elsewhere

EndRefresh(t) ==
  /\ tabs[t].mode = "online" /\ ~tabs[t].loading /\ tabs[t].list = NoRows
  /\ Becomes(t, [tabs[t] EXCEPT !.list = server])
  /\ Elsewhere

\* listSnapshots: what the user may open without the server.
Valid == IF store.rev # 0 /\ ~Expired(store) THEN {store} ELSE {}

\* A page without the server offers the copy.
Pick(t) ==
  /\ tabs[t].mode = "closed"
  /\ \E copy \in Valid : Becomes(t, [Page EXCEPT !.mode = "picker", !.env = copy])
  /\ Elsewhere

Opened(copy, key) ==
  [Page EXCEPT !.mode = "offline", !.sk = TRUE, !.key = key, !.env = copy, !.shown = TRUE]

\* The copy that the page remembers is opened with the keys at hand.
Opening(t) ==
  LET copy == tabs[t].env IN
  /\ \E key \in SwKeys :
       /\ key = 0 <=> copy.profile = "HARDWARE"
       /\ IF Hardware(copy)
          THEN \E slot \in copy.slots : Unlocks(copy, slot, key) /\ OpensWithRoot(copy, slot.root)
          ELSE Opens(copy, key)
       /\ Becomes(t, Opened(copy, key))
  /\ Elsewhere

OpenOffline(t)   == tabs[t].mode = "picker" /\ Opening(t)
ReopenOffline(t) == tabs[t].mode = "offline" /\ ~tabs[t].sk /\ Opening(t)

\* clearVaultKey: the buffers are filled with zeros, also for an operation
\* that still has them.
Locked(tab) ==
  [ForgetRoot(tab) EXCEPT !.sk = FALSE, !.key = 0, !.shown = FALSE, !.op.live = FALSE]

\* The lock button, or no activity for the set time.
Lock(t) ==
  /\ tabs[t].sk
  /\ Becomes(t, Locked(tabs[t]))
  /\ Elsewhere

Unlock(t) ==
  /\ tabs[t].mode = "online" /\ ~tabs[t].sk
  /\ Becomes(t, [tabs[t] EXCEPT !.sk = TRUE])
  /\ Elsewhere

\* The page is reloaded or the browser ends; a running operation is lost.
Reload(t) ==
  /\ tabs[t].mode # "closed"
  /\ Becomes(t, Page)
  /\ Elsewhere

\* setOfflineSoftwareKey
WithKey(tab, key) == [ForgetRoot(tab) EXCEPT !.key = key]

\* A software key is made or read from its file.
LoadKey(t, key) ==
  /\ Ready(t) /\ ProfileAllowed(tabs[t].seen, tabs[t].profile)
  /\ Becomes(t, Repaint(WithKey(tabs[t], key)))
  /\ Elsewhere

ChooseProfile(t, profile) ==
  /\ Ready(t) /\ ProfileAllowed(tabs[t].seen, profile) /\ profile # tabs[t].profile
  /\ Becomes(t, [ForgetRoot(tabs[t]) EXCEPT !.profile = profile, !.changed = TRUE])
  /\ Elsewhere

\* The user deletes the copy of this browser.
Wipe(t) ==
  LET tab == [ForgetRoot(tabs[t]) EXCEPT !.env = NoCopy, !.profile = "STANDARD",
                                         !.changed = FALSE]
  IN
  /\ tabs[t].sk /\ Idle(t)
  /\ store' = NoCopy
  /\ spent' = spent \cup ({store.id} \ {0})
  /\ Becomes(t, IF tab.mode = "offline" THEN Page ELSE Repaint(tab))
  /\ UNCHANGED puts /\ UNCHANGED outside

-----------------------------------------------------------------------------
(* The world around the tabs.                                              *)

\* The administrator changes the policy; operations past their last question
\* are late.
SetPolicy ==
  /\ policy' \in Policies \ {policy}
  /\ tabs' = [t \in Tabs |-> [tabs[t] EXCEPT !.op.late = (@ \/ tabs[t].op.pc = "put")]]
  /\ UNCHANGED <<store, spent, ids, puts, server, expired>>

\* A secret is saved: the form seals title and body anew, a batch the body.
Edit(s) ==
  /\ server[s].body <= MaxEdits
  /\ \E new \in {[list |-> server[s].list + 1, body |-> server[s].body + 1]} \cup
                {[server[s] EXCEPT !.body = @ + 1]} :
       server' = [server EXCEPT ![s] = new]
  /\ UNCHANGED <<store, spent, ids, puts, policy, expired, tabs>>

\* 30 days pass since a sync.
Expire ==
  /\ \E born \in 1 .. puts : expired' = 1 .. born
  /\ UNCHANGED <<store, spent, puts, tabs>> /\ UNCHANGED outside

Begin(t) ==
  \/ BeginSync(t) \/ BeginRegister(t) \/ BeginTest(t) \/ \E hw \in HwKeys : BeginRemove(t, hw)
  \/ Wipe(t) \/ \E key \in 1 .. MaxSw : LoadKey(t, key)
  \/ \E profile \in Profiles : ChooseProfile(t, profile)

Operation(t) ==
  \/ Policy1(t) \/ List(t) \/ Read(t) \/ Root(t) \/ Fetch(t) \/ Device(t) \/ Seal(t)
  \/ Policy2(t) \/ Put(t)

Event ==
  \/ \E t \in Tabs : (Lock(t) \/ Reload(t) \/ BeginRefresh(t)) /\ UNCHANGED expired
  \/ SetPolicy \/ (\E s \in Secrets : Edit(s)) \/ Expire

Other(t) == Start(t) \/ NoticeCopy(t) \/ EndRefresh(t) \/ Pick(t) \/ OpenOffline(t) \/ ReopenOffline(t) \/ Unlock(t)

\* Whatever is counted stays below the bounds.
Within == /\ begun' <= MaxOps /\ events' <= MaxEvents /\ begun' + events' <= MaxBoth

Next ==
  \/ \E t \in Tabs : (Operation(t) \/ Other(t)) /\ UNCHANGED <<expired, events, begun>>
  \/ \E t \in Tabs : /\ begun' = begun + 1 /\ UNCHANGED <<expired, events>> /\ Within
                     /\ Begin(t)
  \/ events' = events + 1 /\ UNCHANGED begun /\ Within /\ Event

Spec == Init /\ [][Next]_vars

-----------------------------------------------------------------------------
(* Properties.                                                             *)

\* What is stored opens: the copy is sealed under a key that exists, every
\* registered hardware key leads to that key, and COMBINED needs one and the
\* same software key everywhere.  Buffers are filled with zeros by a lock
\* while sealSnapshot, registerKey and rotateKeyset still work with them.
CopyOpens ==
  store.rev # 0 =>
    /\ store.seal # 0
    /\ Hardware(store) => store.slots # {}
    /\ \A s \in store.slots : /\ s.root = store.seal
                              /\ store.profile = "COMBINED" <=> s.sw # 0
    /\ \A s1, s2 \in store.slots : s1.sw = s2.sw

\* A locked tab holds no key and shows nothing, whatever an operation that the
\* lock overtook does when its await returns.
LockedHoldsNoKeys ==
  \A t \in Tabs : ~tabs[t].sk =>
    tabs[t].key = 0 /\ tabs[t].root = 0 /\ tabs[t].keyset = NoCopy /\ ~tabs[t].shown

Synced(t) == Put(t) /\ store' # store /\ tabs[t].op.kind = "sync"

\* A sync never keeps a row whose title, envelope or key version differs from
\* the list it worked with: a secret whose key was rotated is fetched anew.
SyncFollowsList ==
  [][\A t \in Tabs : Synced(t) =>
       \A s \in Secrets : store'.rows[s].list >= tabs[t].op.list[s].list]_vars

\* A sync never replaces a copy by one that lacks a secret the user has.
SyncKeepsSecrets ==
  [][\A t \in Tabs : Synced(t) => \A s \in Secrets : store'.rows[s].list # 0]_vars

\* A copy is stored under a profile that the administrator's policy allows,
\* unless the policy changed after the tab asked for the last time.
PolicyAskedLast ==
  [][\A t \in Tabs : Put(t) /\ store' # store =>
       ProfileAllowed(policy, store'.profile) \/ tabs[t].op.late]_vars

\* The record implements the shelf: one copy that opens, and never a set of
\* hardware keys that was given up.
Shelf == INSTANCE CopyShelf WITH
  Keysets <- 1 .. MaxKeysets,
  copy    <- [there |-> store.rev # 0, keyset |-> store.id, opens |-> CopyOpens]

ShelfSpec == Shelf!Spec
=============================================================================
