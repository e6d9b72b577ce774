------------------------ MODULE OfflineCopy_proofs ------------------------
(***************************************************************************)
(* Proofs about OfflineCopy for any number of tabs, secrets, hardware keys *)
(* and policies: its types, that a locked tab holds no key, that the last  *)
(* word of the policy counts, and that the record implements CopyShelf.    *)
(***************************************************************************)
EXTENDS OfflineCopy, TLAPS

-----------------------------------------------------------------------------
(* Types.                                                                  *)

\* The values that tabs start from have their types.
LEMMA StartTypes ==
  /\ NoRows \in Rows /\ FirstRows \in Rows
  /\ NoCopy \in Copy /\ NoOp \in Op /\ NoPolicy \in Policy /\ Page \in Tab
<1> USE OfflineAssumption
<1>1. NoRows \in Rows /\ FirstRows \in Rows
  BY DEF NoRows, FirstRows, Rows, Revision
<1>2. NoCopy \in Copy
  BY <1>1 DEF NoCopy, Copy, AllProfiles, Requirements
<1>3. NoOp \in Op
  BY <1>1, <1>2 DEF NoOp, Op, Kinds, Steps, AllProfiles, Requirements, SwKeys, Roots
<1>4. NoPolicy \in Policy
  BY DEF NoPolicy, Policy, Requirements
<1> QED
  BY <1>1, <1>2, <1>3, <1>4 DEF Page, Tab, SwKeys, Roots, AllProfiles

\* A copy that an earlier visit left is a copy.
LEMMA EarlierTypes == Earlier \subseteq Copy
<1> SUFFICES ASSUME NEW p \in EarlierProfiles
             PROVE  [NoCopy EXCEPT !.rev = 1, !.born = 1, !.rows = FirstRows, !.profile = p,
                       !.id = IF p = "STANDARD" THEN 0 ELSE 1, !.seal = 1,
                       !.slots = IF p = "STANDARD" THEN {}
                                 ELSE {[hw |-> hw, sw |-> IF p = "COMBINED" THEN 1 ELSE 0,
                                        root |-> 1] : hw \in HwKeys}] \in Copy
  BY DEF Earlier
<1> USE OfflineAssumption
<1>1. {[hw |-> hw, sw |-> IF p = "COMBINED" THEN 1 ELSE 0, root |-> 1] : hw \in HwKeys}
        \in SUBSET Slot
  BY DEF Slot, SwKeys, Roots
<1>2. p \in AllProfiles
  BY DEF AllProfiles
<1>3. 1 \in 0 .. MaxPuts /\ 1 \in 0 .. MaxKeysets /\ 1 \in 0 .. (MaxSw + MaxKeysets)
  OBVIOUS
<1> QED
  BY <1>1, <1>2, <1>3, StartTypes DEF Copy, NoCopy

\* Making, registering and rotating keys gives copies.
LEMMA KeysetTypes ==
  ASSUME NEW c \in Copy, NEW key \in SwKeys, NEW root \in Roots
  PROVE  /\ \A p \in AllProfiles : SlotKey(p, key) \in SwKeys
         /\ \A hw \in HwKeys : Registered(c, hw, key, root) \in Copy
         /\ \A drop, id : id \in 0 .. MaxKeysets => Rotated(c, drop, key, id) \in Copy
         /\ \A p \in AllProfiles, id \in 0 .. MaxKeysets : NewKeys(p, id) \in Copy
         /\ \A r \in Requirements, rows \in Rows : /\ SoftwareCopy(key, r, rows) \in Copy
                                                   /\ HardwareCopy(c, root, r, rows) \in Copy
<1> USE OfflineAssumption
<1>1. \A p \in AllProfiles : SlotKey(p, key) \in SwKeys
  BY DEF SlotKey, SwKeys
<1>2. ASSUME NEW hw \in HwKeys PROVE Registered(c, hw, key, root) \in Copy
  <2>1. [hw |-> hw, sw |-> SlotKey(c.profile, key), root |-> root] \in Slot
    BY DEF Slot, SlotKey, SwKeys
  <2> QED
    BY <2>1 DEF Registered, Copy
<1>3. ASSUME NEW drop, NEW id \in 0 .. MaxKeysets PROVE Rotated(c, drop, key, id) \in Copy
  <2>1. {[hw |-> s.hw, sw |-> SlotKey(c.profile, key), root |-> id] :
           s \in {s \in c.slots : s.hw \notin drop}} \in SUBSET Slot
    BY DEF Slot, SlotKey, SwKeys, Roots, Copy
  <2> QED
    BY <2>1 DEF Rotated, Copy
<1>4. \A p \in AllProfiles, id \in 0 .. MaxKeysets : NewKeys(p, id) \in Copy
  BY StartTypes DEF NewKeys, NoCopy, Copy
<1>5. ASSUME NEW r \in Requirements, NEW rows \in Rows
      PROVE  SoftwareCopy(key, r, rows) \in Copy /\ HardwareCopy(c, root, r, rows) \in Copy
  <2>1. key \in 0 .. (MaxSw + MaxKeysets) /\ root \in 0 .. (MaxSw + MaxKeysets)
    BY DEF SwKeys, Roots
  <2> QED
    BY <2>1, StartTypes DEF SoftwareCopy, HardwareCopy, NoCopy, Copy
<1> QED
  BY <1>1, <1>2, <1>3, <1>4, <1>5

\* Painting, ending, forgetting and locking keep the type of a tab.
LEMMA TabTypes ==
  ASSUME NEW tab \in Tab
  PROVE  /\ ForgetRoot(tab) \in Tab /\ Repaint(tab) \in Tab /\ Ended(tab) \in Tab
         /\ Locked(tab) \in Tab /\ CurrentKeyset(tab) \in Copy
         /\ \A key \in SwKeys : WithKey(tab, key) \in Tab
<1> USE OfflineAssumption, StartTypes
<1>0. 0 \in Roots /\ 0 \in SwKeys
  BY DEF Roots, SwKeys
<1>1. ASSUME NEW x \in Tab PROVE ForgetRoot(x) \in Tab
  BY <1>0 DEF ForgetRoot, Tab
<1>2. ASSUME NEW x \in Tab PROVE Repaint(x) \in Tab
  <2>1. FirstOption(x.seen) \in AllProfiles /\ x.env.profile \in AllProfiles /\ x.profile \in AllProfiles
    BY DEF FirstOption, AllProfiles, Tab, Copy
  <2>2. ForgetRoot(x) \in Tab
    BY <1>1
  <2>3. \A p \in AllProfiles : [ForgetRoot(x) EXCEPT !.profile = p] \in Tab
    BY <2>2 DEF Tab
  <2> QED
    BY <2>1, <2>3 DEF Repaint
<1>3. [tab EXCEPT !.op = NoOp] \in Tab
  BY DEF Tab
<1>4. Ended(tab) \in Tab
  BY <1>2, <1>3 DEF Ended
<1>5. Locked(tab) \in Tab
  <2>1. ForgetRoot(tab) \in Tab
    BY <1>1
  <2> QED
    BY <1>0, <2>1 DEF Locked, Tab, Op
<1>6. CurrentKeyset(tab) \in Copy
  BY DEF CurrentKeyset, Tab
<1>7. \A key \in SwKeys : WithKey(tab, key) \in Tab
  <2>1. ForgetRoot(tab) \in Tab
    BY <1>1
  <2> QED
    BY <2>1 DEF WithKey, Tab
<1> QED
  BY <1>1, <1>2, <1>4, <1>5, <1>6, <1>7

\* A tab that becomes something of its type.
LEMMA BecomesType ==
  ASSUME TypeOK, NEW t \in Tabs, NEW tab \in Tab, Becomes(t, tab)
  PROVE  /\ tabs' \in [Tabs -> Tab] /\ tabs'[t] = tab
         /\ \A u \in Tabs : u # t => tabs'[u] = tabs[u]
BY DEF TypeOK, Becomes

\* The type of what a sync goes on with, and of a new set of keys.
LEMMA ContinueTypes ==
  ASSUME NEW tab \in Tab, NEW root \in Roots, NEW c \in Copy, NEW d \in Copy
  PROVE  WithRoot(tab, root, c, d) \in Tab /\ \A b : NewKeyset(tab, c, root, b) \in Tab
<1>1. Ended(tab) \in Tab
  BY TabTypes
<1>2. ASSUME NEW e \in Copy
      PROVE  [tab EXCEPT !.op.pc = "fetch", !.op.prev = d, !.op.base = c,
                         !.op.list = tab.list, !.op.root = root, !.op.draft = e] \in Tab
  BY ZenonT(40) DEF Tab, Op, Steps
<1>3. WithRoot(tab, root, c, d) \in Tab
  BY <1>1, <1>2, StartTypes DEF WithRoot
<1>4. [tab EXCEPT !.op.pc = "seal", !.op.draft = c, !.op.root = root] \in Tab
  BY DEF Tab, Op, Steps
<1>5. [tab EXCEPT !.root = root, !.keyset = c] \in Tab
  BY DEF Tab
<1>6. Ended([tab EXCEPT !.root = root, !.keyset = c]) \in Tab
  BY <1>5, TabTypes
<1> QED
  BY <1>1, <1>3, <1>4, <1>6 DEF NewKeyset

\* The type of the rows that are put together.
LEMMA AssembleType ==
  ASSUME server \in Rows, NEW list \in Rows, NEW prev \in Copy
  PROVE  Assemble(list, prev) \in Rows
BY DEF Assemble, Rows, Copy

\* What the steps of an operation leave typed.
Typed == /\ tabs' \in [Tabs -> Tab] /\ store' \in Copy /\ spent' \subseteq 1 .. MaxKeysets
         /\ ids' \in 0 .. MaxKeysets /\ puts' \in 0 .. MaxPuts
         /\ server' \in Rows /\ policy' \in Policy

\* The beginnings of the operations keep the types.
LEMMA BeginTyped ==
  ASSUME TypeOK, NEW t \in Tabs, Begin(t) PROVE Typed
<1> USE OfflineAssumption
<1>0. tabs[t] \in Tab /\ tabs[t].key \in SwKeys /\ tabs[t].profile \in AllProfiles
  BY DEF TypeOK, Tab
<1>1. ASSUME NEW tab \in Tab, Becomes(t, tab), UNCHANGED <<store, spent, puts>>, UNCHANGED outside
      PROVE  Typed
  BY <1>1, BecomesType DEF Typed, TypeOK, outside
<1>2. CASE BeginSync(t)
  <2>1. Repaint(tabs[t]) \in Tab
    BY <1>0, TabTypes
  <2>2. [Repaint(tabs[t]) EXCEPT !.op = [NoOp EXCEPT !.pc = "policy1", !.live = TRUE,
           !.profile = Repaint(tabs[t]).profile, !.key = Repaint(tabs[t]).key]] \in Tab
    BY <2>1, StartTypes DEF Tab, Op, Steps
  <2> QED
    BY <1>1, <1>2, <2>2 DEF BeginSync
<1>3. CASE BeginRegister(t)
  <2>1. Repaint(tabs[t]) \in Tab
    BY <1>0, TabTypes
  <2>2. [Repaint(tabs[t]) EXCEPT !.op = [NoOp EXCEPT !.kind = "register", !.pc = "policy1",
           !.live = TRUE, !.profile = tabs[t].profile, !.key = tabs[t].key]] \in Tab
    BY <1>0, <2>1, StartTypes DEF Tab, Op, Steps, Kinds
  <2> QED
    BY <1>1, <1>3, <2>2 DEF BeginRegister
<1>4. ASSUME NEW hw \in HwKeys, BeginRemove(t, hw) PROVE Typed
  <2>1. Repaint(tabs[t]) \in Tab /\ CurrentKeyset(tabs[t]) \in Copy
    BY <1>0, TabTypes
  <2>2. [Repaint(tabs[t]) EXCEPT !.op = [NoOp EXCEPT !.kind = "remove", !.pc = "policy1",
           !.live = TRUE, !.profile = tabs[t].profile, !.key = tabs[t].key,
           !.base = CurrentKeyset(tabs[t]), !.drop = {hw}]] \in Tab
    BY <1>0, <2>1, StartTypes DEF Tab, Op, Steps, Kinds
  <2> QED
    BY <1>1, <1>4, <2>2 DEF BeginRemove
<1>5. CASE BeginTest(t)
  <2>1. Repaint(tabs[t]) \in Tab /\ CurrentKeyset(tabs[t]) \in Copy
    BY <1>0, TabTypes
  <2>2. [Repaint(tabs[t]) EXCEPT !.op = [NoOp EXCEPT !.kind = "test", !.pc = "root",
           !.live = TRUE, !.profile = tabs[t].profile, !.key = tabs[t].key,
           !.base = CurrentKeyset(tabs[t])]] \in Tab
    BY <1>0, <2>1, StartTypes DEF Tab, Op, Steps, Kinds
  <2> QED
    BY <1>1, <1>5, <2>2 DEF BeginTest
<1>6. CASE Wipe(t)
  <2> DEFINE tab == [ForgetRoot(tabs[t]) EXCEPT !.env = NoCopy, !.profile = "STANDARD",
                                                !.changed = FALSE]
  <2>1. ForgetRoot(tabs[t]) \in Tab
    BY <1>0, TabTypes
  <2>2. tab \in Tab
    BY <2>1, StartTypes DEF Tab, AllProfiles
  <2>3. (IF tab.mode = "offline" THEN Page ELSE Repaint(tab)) \in Tab
    BY <2>2, StartTypes, TabTypes
  <2>4. /\ Becomes(t, IF tab.mode = "offline" THEN Page ELSE Repaint(tab))
        /\ store' = NoCopy /\ spent' = spent \cup ({store.id} \ {0})
        /\ UNCHANGED puts /\ UNCHANGED outside
    BY <1>6 DEF Wipe
  <2>5. spent' \subseteq 1 .. MaxKeysets
    BY <2>4 DEF TypeOK, Copy
  <2> HIDE DEF tab
  <2> QED
    BY <2>3, <2>4, <2>5, BecomesType, StartTypes DEF Typed, TypeOK, outside
<1>7. ASSUME NEW key \in 1 .. MaxSw, LoadKey(t, key) PROVE Typed
  <2>1. key \in SwKeys
    BY DEF SwKeys
  <2>2. WithKey(tabs[t], key) \in Tab
    BY <1>0, <2>1, TabTypes
  <2>3. Repaint(WithKey(tabs[t], key)) \in Tab
    BY <2>2, TabTypes
  <2> QED
    BY <1>1, <1>7, <2>3 DEF LoadKey, Elsewhere
<1>8. ASSUME NEW profile \in Profiles, ChooseProfile(t, profile) PROVE Typed
  <2>1. ForgetRoot(tabs[t]) \in Tab /\ profile \in AllProfiles
    BY <1>0, TabTypes DEF AllProfiles
  <2>2. [ForgetRoot(tabs[t]) EXCEPT !.profile = profile, !.changed = TRUE] \in Tab
    BY <2>1 DEF Tab
  <2> QED
    BY <1>1, <1>8, <2>2 DEF ChooseProfile, Elsewhere
<1> QED
  BY <1>2, <1>3, <1>4, <1>5, <1>6, <1>7, <1>8 DEF Begin

\* The steps of the operations keep the types.
LEMMA OperationTyped ==
  ASSUME TypeOK, NEW t \in Tabs, Operation(t) PROVE Typed
<1> USE OfflineAssumption
<1> DEFINE tab == tabs[t]
           op  == tab.op
<1>0. /\ tab \in Tab /\ op \in Op /\ tab.key \in SwKeys /\ tab.root \in Roots
      /\ tab.keyset \in Copy /\ tab.env \in Copy /\ tab.list \in Rows
      /\ op.key \in SwKeys /\ op.root \in Roots /\ op.base \in Copy /\ op.prev \in Copy
      /\ op.draft \in Copy /\ op.list \in Rows /\ op.req \in Requirements
      /\ op.profile \in AllProfiles /\ op.kind \in Kinds
      /\ store \in Copy /\ server \in Rows /\ policy \in Policy /\ 0 \in SwKeys /\ 0 \in Roots
  BY DEF TypeOK, Tab, Op, SwKeys, Roots
<1>1. ASSUME NEW x \in Tab, Becomes(t, x), UNCHANGED <<store, spent, puts>>, UNCHANGED outside
      PROVE  Typed
  BY <1>1, BecomesType DEF Typed, TypeOK, outside
<1>2. Answered(t) \in Tab /\ Ended(tab) \in Tab /\ Ended(Answered(t)) \in Tab
      /\ CurrentKeyset(Answered(t)) \in Copy /\ CurrentKeyset(tab) \in Copy
  <2>1. Answered(t) \in Tab
    BY <1>0 DEF Answered, Tab
  <2> QED
    BY <1>0, <2>1, TabTypes
<1>3. ASSUME RefusedByPolicy(t) PROVE Typed
  <2>1. [tab EXCEPT !.seen = NoPolicy] \in Tab
    BY <1>0, StartTypes DEF Tab
  <2>2. Ended([tab EXCEPT !.seen = NoPolicy]) \in Tab
    BY <2>1, TabTypes
  <2>3. Ended(IF op.live THEN [tab EXCEPT !.seen = NoPolicy] ELSE tab) \in Tab
    BY <2>2, <1>2
  <2> QED
    BY <1>1, <1>2, <1>3, <2>3 DEF RefusedByPolicy
<1>4. CASE Policy1(t)
  <2> DEFINE a == Answered(t)
             o == [a.op EXCEPT !.req = policy.req]
  <2>0. a \in Tab /\ a.op = op /\ a.root = tab.root
    BY <1>0, <1>2 DEF Answered, Tab
  <2>9. o \in Op
    BY <1>0, <2>0 DEF Op, Policy
  <2>1. \A pc \in Steps : [o EXCEPT !.pc = pc] \in Op
    BY <2>9 DEF Op
  <2>2. \A x \in Op : [a EXCEPT !.op = x] \in Tab
    BY <2>0 DEF Tab
  <2>7. o.kind = op.kind /\ o.profile = op.profile
    BY <1>0, <2>0 DEF Op
  <2>8. CurrentKeyset(a) \in Copy /\ a.root \in Roots
    BY <1>0, <1>2, <2>0
  <2> HIDE DEF o, a
  <2>3. CASE op.kind = "register" /\ CurrentKeyset(a).id = 0 /\ ids < MaxKeysets /\ ids' = ids + 1
          /\ Becomes(t, [a EXCEPT !.op = [o EXCEPT !.pc = "device", !.root = ids + 1,
                                            !.base = NewKeys(o.profile, ids + 1)]])
          /\ UNCHANGED <<store, spent, puts, server, policy>>
    <3>1. ids' \in 0 .. MaxKeysets /\ ids + 1 \in Roots
      BY <2>3 DEF TypeOK, Roots
    <3>2. NewKeys(o.profile, ids + 1) \in Copy
      BY <1>0, <2>7, <2>3, <3>1, KeysetTypes
    <3>3. [o EXCEPT !.pc = "device", !.root = ids + 1, !.base = NewKeys(o.profile, ids + 1)] \in Op
      BY <2>9, <3>1, <3>2 DEF Op, Steps
    <3>4. [a EXCEPT !.op = [o EXCEPT !.pc = "device", !.root = ids + 1,
                                     !.base = NewKeys(o.profile, ids + 1)]] \in Tab
      BY <2>2, <3>3
    <3> QED
      BY <2>3, <3>1, <3>4, BecomesType DEF Typed, TypeOK
  <2>4. CASE \E x \in Op : Becomes(t, [a EXCEPT !.op = x])
               /\ UNCHANGED <<store, spent, puts, server, policy, ids>>
    BY <1>1, <2>2, <2>4 DEF outside
  <2>5. CASE Becomes(t, Ended(a)) /\ UNCHANGED <<store, spent, puts, server, policy, ids>>
    BY <1>1, <1>2, <2>5 DEF outside, a
  <2>6. /\ [o EXCEPT !.pc = "device", !.base = CurrentKeyset(a), !.root = a.root] \in Op
        /\ [o EXCEPT !.pc = "root", !.base = CurrentKeyset(a)] \in Op
    <3>1. ASSUME NEW c \in Copy, NEW r \in Roots
          PROVE  /\ [o EXCEPT !.pc = "device", !.base = c, !.root = r] \in Op
                 /\ [o EXCEPT !.pc = "root", !.base = c] \in Op
      BY <2>9 DEF Op, Steps
    <3> QED
      BY <2>8, <3>1
  <2> QED
    BY <1>3, <1>4, <2>1, <2>3, <2>4, <2>5, <2>6, <2>7 DEF Policy1, Steps, o, a
<1>5. CASE List(t)
  <2>1. [tab EXCEPT !.op.pc = "read",
           !.list = IF @ = NoRows /\ ~tab.loading THEN server ELSE @] \in Tab
    BY <1>0 DEF Tab, Op, Steps
  <2> QED
    BY <1>1, <1>2, <1>5, <2>1 DEF List, Fails
<1>6. CASE Read(t)
  <2> DEFINE keyset == CurrentKeyset(tab)
  <2>1. \A c \in Copy : [tab EXCEPT !.op.pc = "fetch", !.op.prev = store, !.op.list = tab.list,
                                    !.op.draft = c] \in Tab
    BY <1>0 DEF Tab, Op, Steps
  <2>2. [tab EXCEPT !.op.pc = "root", !.op.prev = store, !.op.base = keyset] \in Tab
    BY <1>0, <1>2 DEF Tab, Op, Steps
  <2>3. WithRoot(tab, tab.root, keyset, store) \in Tab
    BY <1>0, <1>2, ContinueTypes
  <2> HIDE DEF keyset
  <2> QED
    BY <1>0, <1>1, <1>2, <1>6, <2>1, <2>2, <2>3, StartTypes DEF Read, Fails, keyset
<1>7. CASE Root(t)
  <2>1. CASE Fails(t)
    BY <1>1, <1>2, <1>7, <2>1 DEF Root, Fails
  <2>2. ASSUME NEW slot \in op.base.slots
        PROVE  LET open == [tab EXCEPT !.root = slot.root, !.keyset = op.base]
               IN  /\ WithRoot(open, slot.root, op.base, op.prev) \in Tab
                   /\ Ended(open) \in Tab
                   /\ [open EXCEPT !.op.pc = "device", !.op.root = slot.root] \in Tab
    <3> DEFINE open == [tab EXCEPT !.root = slot.root, !.keyset = op.base]
    <3>1. slot.root \in Roots
      BY <1>0 DEF Copy, Slot
    <3>2. open \in Tab
      BY <1>0, <3>1 DEF Tab
    <3>3. [open EXCEPT !.op.pc = "device", !.op.root = slot.root] \in Tab
      BY <3>1, <3>2 DEF Tab, Op, Steps
    <3> HIDE DEF open
    <3> QED
      BY <1>0, <3>1, <3>2, <3>3, ContinueTypes, TabTypes DEF open
  <2>3. CASE \E x \in Tab : Becomes(t, x)
    BY <1>1, <1>7, <2>3 DEF Root
  <2> QED
    BY <1>7, <2>1, <2>2, <2>3 DEF Root
<1>8. CASE Fetch(t)
  <2> DEFINE rows == Assemble(op.list, op.draft)
             draft == IF op.profile = "STANDARD" THEN SoftwareCopy(op.key, op.req, rows)
                      ELSE HardwareCopy(op.base, op.root, op.req, rows)
  <2>1. rows \in Rows
    BY <1>0, AssembleType
  <2>2. draft \in Copy
    BY <1>0, <2>1, KeysetTypes
  <2>3. [tab EXCEPT !.op.pc = "policy2", !.op.draft = draft] \in Tab
    BY <1>0, <2>2 DEF Tab, Op, Steps
  <2> HIDE DEF rows, draft
  <2> QED
    BY <1>1, <1>2, <1>8, <2>3 DEF Fetch, Fails, rows, draft
<1>9. CASE Device(t)
  <2>0. Held(op, op.key) \in SwKeys /\ Held(op, op.root) \in Roots
    BY <1>0 DEF Held
  <2>1. CASE Fails(t) /\ UNCHANGED ids
    BY <1>1, <1>2, <1>9, <2>1 DEF Device, Fails, outside
  <2>2. ASSUME NEW hw \in HwKeys,
               Becomes(t, NewKeyset(tab, Registered(op.base, hw, Held(op, op.key), Held(op, op.root)),
                                    op.root, tab.env.rev # 0 /\ tab.env.id = op.base.id)),
               UNCHANGED ids
        PROVE  Typed
    <3>1. Registered(op.base, hw, Held(op, op.key), Held(op, op.root)) \in Copy
      BY <1>0, <2>0, KeysetTypes
    <3>2. NewKeyset(tab, Registered(op.base, hw, Held(op, op.key), Held(op, op.root)),
                    op.root, tab.env.rev # 0 /\ tab.env.id = op.base.id) \in Tab
      BY <1>0, <3>1, ContinueTypes
    <3> QED
      BY <1>1, <1>9, <2>2, <3>2 DEF Device, outside
  <2>3. ASSUME ids < MaxKeysets, ids' = ids + 1,
               Becomes(t, NewKeyset(tab, Rotated(op.base, op.drop, Held(op, op.key), ids + 1),
                                    ids + 1, op.base.rev # 0))
        PROVE  Typed
    <3>1. ids + 1 \in 0 .. MaxKeysets /\ ids + 1 \in Roots
      BY <2>3 DEF TypeOK, Roots
    <3>2. Rotated(op.base, op.drop, Held(op, op.key), ids + 1) \in Copy
      BY <1>0, <2>0, <3>1, KeysetTypes
    <3>3. NewKeyset(tab, Rotated(op.base, op.drop, Held(op, op.key), ids + 1),
                    ids + 1, op.base.rev # 0) \in Tab
      BY <1>0, <3>1, <3>2, ContinueTypes
    <3>4. UNCHANGED <<store, spent, puts, server, policy>>
      BY <1>9 DEF Device
    <3> QED
      BY <2>3, <3>1, <3>3, <3>4, BecomesType DEF Typed, TypeOK
  <2> QED
    BY <1>9, <2>1, <2>2, <2>3 DEF Device
<1>10. CASE Seal(t)
  <2> DEFINE with == IF op.kind = "remove" THEN op.root ELSE Held(op, op.root)
  <2>1. with \in Roots /\ op.draft.rows \in Rows
    BY <1>0 DEF Held, Copy
  <2>2. HardwareCopy(op.draft, with, op.req, op.draft.rows) \in Copy
    BY <1>0, <2>1, KeysetTypes
  <2>3. [tab EXCEPT !.op.pc = "policy2",
           !.op.draft = HardwareCopy(op.draft, with, op.req, op.draft.rows)] \in Tab
    BY <1>0, <2>2 DEF Tab, Op, Steps
  <2> HIDE DEF with
  <2> QED
    BY <1>1, <1>10, <2>3 DEF Seal, with
<1>11. CASE Policy2(t)
  <2>1. [Answered(t) EXCEPT !.op.pc = "put", !.op.late = FALSE] \in Tab
    BY <1>2 DEF Tab, Op, Steps
  <2> QED
    BY <1>1, <1>2, <1>3, <1>11, <2>1 DEF Policy2
<1>12. CASE Put(t)
  <2> DEFINE stored == [op.draft EXCEPT !.rev = puts + 1,
                                        !.born = IF op.kind = "sync" THEN puts + 1 ELSE @]
             kept == [tab EXCEPT !.env = stored]
  <2>1. CASE Fails(t) /\ UNCHANGED <<store, spent, puts>>
    BY <1>1, <1>2, <1>12, <2>1 DEF Put, Fails
  <2>2. CASE puts < MaxPuts /\ store' = stored /\ puts' = puts + 1
             /\ spent' = spent \cup ({store.id} \ {0, stored.id})
             /\ Becomes(t, Ended(
                  IF ~SessionOk(tab) THEN kept
                  ELSE IF op.kind = "sync"
                  THEN [kept EXCEPT !.changed = FALSE,
                                    !.keyset = IF Hardware(stored) THEN stored ELSE @]
                  ELSE [kept EXCEPT !.root = op.root, !.keyset = stored]))
    <3>1. puts' \in 0 .. MaxPuts /\ puts + 1 \in 0 .. MaxPuts
      BY <2>2 DEF TypeOK
    <3>2. stored \in Copy
      BY <1>0, <3>1 DEF Copy
    <3>3. kept \in Tab
      BY <1>0, <3>2 DEF Tab
    <3>4. [kept EXCEPT !.changed = FALSE, !.keyset = IF Hardware(stored) THEN stored ELSE @] \in Tab
          /\ [kept EXCEPT !.root = op.root, !.keyset = stored] \in Tab
      BY ZenonT(40), <1>0, <3>2, <3>3 DEF Tab
    <3>5. spent' \subseteq 1 .. MaxKeysets
      BY <1>0, <2>2 DEF TypeOK, Copy
    <3>6. UNCHANGED outside
      BY <1>12 DEF Put
    <3> HIDE DEF stored, kept
    <3>7. Ended(IF ~SessionOk(tab) THEN kept
                ELSE IF op.kind = "sync"
                THEN [kept EXCEPT !.changed = FALSE,
                                  !.keyset = IF Hardware(stored) THEN stored ELSE @]
                ELSE [kept EXCEPT !.root = op.root, !.keyset = stored]) \in Tab
      BY <3>3, <3>4, TabTypes
    <3> QED
      BY <2>2, <3>1, <3>2, <3>5, <3>6, <3>7, BecomesType DEF Typed, TypeOK, outside
  <2> QED
    BY <1>12, <2>1, <2>2 DEF Put
<1> QED
  BY <1>4, <1>5, <1>6, <1>7, <1>8, <1>9, <1>10, <1>11, <1>12 DEF Operation

\* The tab outside an operation keeps the types.
LEMMA OtherTyped ==
  ASSUME TypeOK, NEW t \in Tabs,
         Other(t) \/ Lock(t) \/ Reload(t) \/ BeginRefresh(t)
  PROVE  Typed
<1> USE OfflineAssumption
<1>0. tabs[t] \in Tab /\ store \in Copy /\ server \in Rows /\ policy \in Policy
  BY DEF TypeOK
<1>1. ASSUME NEW x \in Tab, Becomes(t, x), Elsewhere PROVE Typed
  BY <1>1, BecomesType DEF Typed, TypeOK, outside, Elsewhere
<1>2. CASE Start(t)
  <2>1. \A seen \in Policy :
          [Page EXCEPT !.mode = "online", !.loading = TRUE, !.sk = TRUE, !.seen = seen] \in Tab
    BY StartTypes DEF Tab
  <2> QED
    BY <1>0, <1>1, <1>2, <2>1, StartTypes DEF Start
<1>3. CASE NoticeCopy(t)
  <2>1. [tabs[t] EXCEPT !.loading = FALSE, !.list = server, !.env = store] \in Tab
    BY <1>0 DEF Tab
  <2>2. Repaint([tabs[t] EXCEPT !.loading = FALSE, !.list = server, !.env = store]) \in Tab
    BY <2>1, TabTypes
  <2> QED
    BY <1>1, <1>3, <2>2 DEF NoticeCopy
<1>4. CASE EndRefresh(t)
  <2>1. [tabs[t] EXCEPT !.list = server] \in Tab
    BY <1>0 DEF Tab
  <2> QED
    BY <1>1, <1>4, <2>1 DEF EndRefresh
<1>5. CASE Pick(t)
  <2>1. [Page EXCEPT !.mode = "picker", !.env = store] \in Tab
    BY <1>0, StartTypes DEF Tab
  <2> QED
    BY <1>1, <1>5, <2>1 DEF Pick, Valid
<1>6. CASE Opening(t)
  <2>1. \A key \in SwKeys : Opened(tabs[t].env, key) \in Tab
    BY <1>0, StartTypes DEF Tab, Opened
  <2> QED
    BY <1>1, <1>6, <2>1 DEF Opening
<1>7. CASE Unlock(t)
  <2>1. [tabs[t] EXCEPT !.sk = TRUE] \in Tab
    BY <1>0 DEF Tab
  <2> QED
    BY <1>1, <1>7, <2>1 DEF Unlock
<1>8. CASE Lock(t)
  BY <1>0, <1>1, <1>8, TabTypes DEF Lock
<1>9. CASE Reload(t)
  BY <1>1, <1>9, StartTypes DEF Reload
<1>10. CASE BeginRefresh(t)
  <2>1. [tabs[t] EXCEPT !.list = NoRows] \in Tab
    BY <1>0, StartTypes DEF Tab
  <2> QED
    BY <1>1, <1>10, <2>1 DEF BeginRefresh
<1> QED
  BY <1>2, <1>3, <1>4, <1>5, <1>6, <1>7, <1>8, <1>9, <1>10
     DEF Other, OpenOffline, ReopenOffline

\* No list row has been changed more often than its body; so the bound on the
\* edits of a body is one on both.
ListWithin == \A s \in Secrets : server[s].list <= server[s].body

\* The world around the tabs keeps the types.
LEMMA WorldTyped ==
  ASSUME TypeOK, ListWithin, SetPolicy \/ (\E s \in Secrets : Edit(s)) \/ Expire
  PROVE  Typed /\ expired' \subseteq 1 .. MaxPuts /\ ListWithin'
<1> USE OfflineAssumption
<1>1. CASE SetPolicy
  <2>1. \A t \in Tabs : [tabs[t] EXCEPT !.op.late = (@ \/ tabs[t].op.pc = "put")] \in Tab
    <3>1. ASSUME NEW tab \in Tab, NEW b \in BOOLEAN PROVE [tab EXCEPT !.op.late = b] \in Tab
      BY DEF Tab, Op
    <3>2. \A t \in Tabs : tabs[t] \in Tab /\ (tabs[t].op.late \/ tabs[t].op.pc = "put") \in BOOLEAN
      BY DEF TypeOK
    <3> QED
      BY <3>1, <3>2
  <2> QED
    BY <1>1, <2>1, PolicyAssumption DEF SetPolicy, Typed, TypeOK, ListWithin
<1>2. ASSUME NEW s \in Secrets, Edit(s) PROVE Typed /\ expired' = expired /\ ListWithin'
  <2>1. server[s] \in Revision /\ server[s].list <= server[s].body /\ server[s].body <= MaxEdits
    BY <1>2 DEF Edit, TypeOK, Rows, ListWithin
  <2>2. PICK new \in {[list |-> server[s].list + 1, body |-> server[s].body + 1]} \cup
                     {[server[s] EXCEPT !.body = @ + 1]} : server' = [server EXCEPT ![s] = new]
    BY <1>2 DEF Edit
  <2>3. new \in Revision /\ new.list <= new.body
    BY <2>1, <2>2 DEF Revision
  <2>4. server' \in Rows /\ ListWithin'
    BY <2>2, <2>3 DEF TypeOK, Rows, ListWithin
  <2> QED
    BY <1>2, <2>4 DEF Edit, Typed, TypeOK
<1>3. CASE Expire
  <2>1. \A born \in 1 .. puts : 1 .. born \subseteq 1 .. MaxPuts
    BY DEF TypeOK
  <2> QED
    BY <1>3, <2>1 DEF Expire, Typed, TypeOK, ListWithin, outside
<1> QED
  BY <1>1, <1>2, <1>3 DEF TypeOK

\* The types, and what they rest on.
Types == TypeOK /\ ListWithin

\* Types holds initially.
LEMMA TypesInit == Init => Types
<1> SUFFICES ASSUME Init PROVE Types
  OBVIOUS
<1> USE OfflineAssumption
<1>1. store \in Copy /\ server \in Rows /\ policy \in Policy /\ tabs \in [Tabs -> Tab]
  BY StartTypes, EarlierTypes, PolicyAssumption DEF Init
<1>2. puts \in 0 .. MaxPuts /\ ids \in 0 .. MaxKeysets
  BY <1>1 DEF Init, Copy
<1>3. ListWithin
  BY DEF Init, ListWithin, FirstRows
<1> QED
  BY <1>1, <1>2, <1>3 DEF Init, Types, TypeOK

\* Types holds after every step.
LEMMA TypesStep == Types /\ [Next]_vars => Types'
<1> SUFFICES ASSUME Types, [Next]_vars PROVE Types'
  OBVIOUS
<1> USE OfflineAssumption
<1>1. ASSUME Typed, expired' \subseteq 1 .. MaxPuts,
             events' \in 0 .. MaxEvents, begun' \in 0 .. MaxOps
      PROVE  TypeOK'
  BY <1>1 DEF Typed, TypeOK
<1>2. ASSUME NEW t \in Tabs, Operation(t) \/ Other(t), UNCHANGED <<expired, events, begun>>
      PROVE  Types'
  <2>1. Typed
    BY <1>2, OperationTyped, OtherTyped DEF Types
  <2>2. server' = server
    BY <1>2 DEF Operation, Other, Policy1, RefusedByPolicy, List, Read, Root, Fetch, Device, Seal,
                Policy2, Put, Start, NoticeCopy, EndRefresh, Pick, OpenOffline, ReopenOffline,
                Opening, Unlock, Elsewhere, outside
  <2> QED
    BY <1>1, <1>2, <2>1, <2>2 DEF Types, TypeOK, ListWithin
<1>3. ASSUME NEW t \in Tabs, Begin(t), begun' = begun + 1, Within, UNCHANGED <<expired, events>>
      PROVE  Types'
  <2>1. Typed
    BY <1>3, BeginTyped DEF Types
  <2>2. server' = server
    BY <1>3 DEF Begin, BeginSync, BeginRegister, BeginRemove, BeginTest, Wipe, LoadKey,
                ChooseProfile, Elsewhere, outside
  <2>3. begun' \in 0 .. MaxOps
    BY <1>3 DEF Types, TypeOK, Within
  <2> QED
    BY <1>1, <1>3, <2>1, <2>2, <2>3 DEF Types, TypeOK, ListWithin
<1>4. ASSUME Event, events' = events + 1, UNCHANGED begun, Within PROVE Types'
  <2>1. events' \in 0 .. MaxEvents
    BY <1>4 DEF Types, TypeOK, Within
  <2>2. ASSUME NEW t \in Tabs, Lock(t) \/ Reload(t) \/ BeginRefresh(t), UNCHANGED expired
        PROVE  Types'
    <3>1. Typed
      BY <2>2, OtherTyped DEF Types
    <3>2. server' = server
      BY <2>2 DEF Lock, Reload, BeginRefresh, Elsewhere, outside
    <3> QED
      BY <1>1, <1>4, <2>1, <2>2, <3>1, <3>2 DEF Types, TypeOK, ListWithin
  <2>3. CASE SetPolicy \/ (\E s \in Secrets : Edit(s)) \/ Expire
    BY <1>1, <1>4, <2>1, <2>3, WorldTyped DEF Types, TypeOK
  <2> QED
    BY <1>4, <2>2, <2>3 DEF Event
<1>5. CASE UNCHANGED vars
  BY <1>5 DEF vars, Types, TypeOK, ListWithin
<1> QED
  BY <1>2, <1>3, <1>4, <1>5 DEF Next

\* Every variable keeps to its type, whatever the tabs, the administrator and
\* the server do in between.
THEOREM OfflineTypes == Spec => []TypeOK
<1>1. Types => TypeOK
  BY DEF Types
<1> QED
  BY <1>1, TypesInit, TypesStep, PTL DEF Spec

-----------------------------------------------------------------------------
(* What a tab keeps to.                                                    *)

\* A copy, or a set of keys: whoever has a registered key has the root key, and
\* what is sealed is sealed under it.
SoundAs(c, sealed) ==
  /\ c.id # 0 <=> Hardware(c)
  /\ c.id = 0 => c.slots = {}
  /\ \A s \in c.slots : s.root = c.id /\ (c.profile = "COMBINED" <=> s.sw # 0)
  /\ \A s1, s2 \in c.slots : s1.sw = s2.sw
  /\ sealed => c.seal # 0 /\ (Hardware(c) => c.seal = c.id /\ c.slots # {})

Sound(c) == SoundAs(c, c.rev # 0)

\* The slots were wrapped under this software key, where they need one.
KeyedFor(c, key) == \A s \in c.slots : s.sw = SlotKey(c.profile, key)

\* The tab but for its operation: the root key belongs to the keys it names, and
\* is there only with the software key those need.
Calm(tab) ==
  /\ Sound(tab.keyset) /\ Sound(tab.env)
  /\ tab.keyset.id # 0 => tab.keyset.slots # {} /\ tab.keyset.profile = tab.profile
  /\ tab.root # 0 => tab.root = tab.keyset.id /\ KeyedFor(tab.keyset, tab.key)
  /\ ~tab.sk => tab.key = 0 /\ tab.root = 0 /\ tab.keyset = NoCopy /\ ~tab.shown

\* The operation works with a set of hardware keys.
WithBase(op) ==
  \/ op.pc \in {"root", "device"}
  \/ op.kind = "remove" /\ op.pc = "policy1"
  \/ op.kind = "sync" /\ op.profile # "STANDARD" /\ op.pc \in {"fetch", "policy2", "put"}

\* What an operation has before it has a draft.
Prepared(op) ==
  /\ Sound(op.prev) /\ Sound(op.base)
  /\ op.pc \in {"list", "read", "fetch"} =>
       op.kind = "sync" /\ (op.profile = "STANDARD" => op.key # 0)
  /\ op.pc \in {"device", "seal"} => op.kind \in {"register", "remove"}
  /\ op.pc \in {"policy1", "policy2", "put"} => op.kind # "test"
  /\ op.pc = "root" => op.kind # "remove"
  /\ WithBase(op) => /\ op.profile # "STANDARD"
                     /\ op.base.id # 0 /\ op.base.profile = op.profile
  /\ op.kind = "register" /\ op.pc \in {"policy1", "root", "device"} =>
       op.profile # "STANDARD" /\ (op.profile = "COMBINED" => op.key # 0)
  /\ op.kind = "register" /\ op.pc = "device" =>
       op.root = op.base.id /\ KeyedFor(op.base, op.key)
  /\ op.kind = "remove" /\ op.pc \in {"policy1", "device"} =>
       \E s \in op.base.slots : s.hw \notin op.drop
  /\ op.kind = "sync" /\ op.profile # "STANDARD" /\ op.pc \in {"root", "fetch", "policy2", "put"} =>
       op.base.slots # {} /\ op.base.rev \in {0, op.prev.rev}
  /\ op.kind = "sync" /\ op.profile # "STANDARD" /\ op.pc \in {"fetch", "policy2", "put"} =>
       op.root = op.base.id /\ KeyedFor(op.base, op.key)

\* What it has drafted: a copy that opens, unless a lock overtook the sealing,
\* after which it is refused.
Drafted(op) ==
  /\ op.kind = "sync" /\ op.pc \in {"policy2", "put"} =>
       /\ SoundAs(op.draft, TRUE) /\ op.draft.profile = op.profile
       /\ op.profile # "STANDARD" => op.draft.id = op.base.id /\ op.draft.slots = op.base.slots
  /\ op.kind # "sync" /\ op.pc \in {"seal", "policy2", "put"} =>
       /\ op.base.rev # 0
       /\ op.kind = "register" => op.draft.id = op.base.id
  /\ op.kind # "sync" /\ (op.pc = "put" \/ (op.live /\ op.pc \in {"seal", "policy2"})) =>
       /\ SoundAs(op.draft, op.pc # "seal") /\ op.draft.slots # {}
       /\ op.draft.profile = op.profile /\ op.draft.id = op.root /\ op.root # 0
       /\ KeyedFor(op.draft, op.key)

\* The operation and the tab it runs in.
Running(tab) ==
  LET op == tab.op
  IN  /\ Prepared(op) /\ Drafted(op)
      /\ op.live => tab.sk
      /\ op.kind = "sync" /\ op.profile # "STANDARD" /\ op.pc \in {"fetch", "policy2", "put"} =>
           tab.root \in {0, op.base.id}
      /\ op.pc = "put" => SessionOk(tab) \/ tab.keyset.id = 0

Good(tab) == Calm(tab) /\ Running(tab)

\* The sets of keys a tab knows, each with the copy it is of; with 0 those that
\* no copy uses yet.
Tag(c) == <<c.rev, c.id>>
Tags(tab) ==
  {Tag(tab.keyset), Tag(tab.env), Tag(tab.op.prev), Tag(tab.op.base)} \cup
  (IF tab.op.kind = "remove" /\ tab.op.pc \in {"seal", "policy2", "put"}
   THEN {<<0, tab.op.draft.id>>} ELSE {})

\* Nothing is known to a tab that was not before, but for what is in the store.
Known(tab) == Tags(tab) \cup {<<0, 0>>, Tag(store)}

\* No copy and no operation are sound.
LEMMA NothingSound ==
  /\ Sound(NoCopy) /\ Tag(NoCopy) = <<0, 0>>
  /\ Prepared(NoOp) /\ Drafted(NoOp) /\ ~NoOp.live
  /\ Good(Page) /\ Tags(Page) = {<<0, 0>>}
<1>1. Sound(NoCopy) /\ Tag(NoCopy) = <<0, 0>>
  BY DEF Sound, SoundAs, NoCopy, Hardware, Tag
<1>2. Prepared(NoOp) /\ Drafted(NoOp) /\ ~NoOp.live
  BY <1>1 DEF Prepared, Drafted, NoOp, WithBase
<1>3. Calm(Page)
  BY <1>1 DEF Calm, Page, NoCopy
<1>4. Running(Page)
  BY <1>2 DEF Running, Page, NoOp
<1>5. Tags(Page) = {<<0, 0>>}
  BY <1>1 DEF Tags, Page, NoOp
<1> QED
  BY <1>1, <1>2, <1>3, <1>4, <1>5 DEF Good

\* Forgetting the root key, with any profile, leaves a good tab.
LEMMA ForgetGood ==
  ASSUME NEW tab \in Tab, NEW p \in AllProfiles
  PROVE  LET x == [ForgetRoot(tab) EXCEPT !.profile = p]
         IN  /\ x \in Tab /\ x.op = tab.op /\ x.list = tab.list /\ x.sk = tab.sk
             /\ x.keyset = NoCopy /\ x.root = 0 /\ x.env = tab.env /\ x.profile = p
             /\ x.key = tab.key /\ x.mode = tab.mode /\ x.seen = tab.seen
             /\ Calm(tab) => Calm(x)
             /\ Good(tab) => Good(x)
             /\ Tags(x) \subseteq Tags(tab) \cup {<<0, 0>>}
<1> DEFINE x == [ForgetRoot(tab) EXCEPT !.profile = p]
<1>1. ForgetRoot(tab) \in Tab
  BY TabTypes
<1>2. /\ x \in Tab /\ x.op = tab.op /\ x.list = tab.list /\ x.sk = tab.sk
      /\ x.keyset = NoCopy /\ x.root = 0 /\ x.env = tab.env /\ x.profile = p
      /\ x.key = tab.key /\ x.shown = tab.shown /\ x.mode = tab.mode /\ x.seen = tab.seen
  BY <1>1 DEF ForgetRoot, Tab
<1> HIDE DEF x
<1>3. NoCopy.id = 0
  BY DEF NoCopy
<1>4. Calm(tab) => Calm(x)
  BY <1>2, <1>3, NothingSound DEF Calm
<1>5. Running(tab) => Running(x)
  BY <1>2, <1>3 DEF Running
<1>6. Tags(x) \subseteq Tags(tab) \cup {<<0, 0>>}
  BY <1>2, NothingSound DEF Tags
<1> QED
  BY <1>2, <1>4, <1>5, <1>6 DEF Good, x

\* Painting leaves a good tab.
LEMMA RepaintGood ==
  ASSUME NEW tab \in Tab
  PROVE  /\ Repaint(tab).op = tab.op /\ Repaint(tab).list = tab.list
         /\ Repaint(tab).sk = tab.sk /\ Repaint(tab).key = tab.key
         /\ Repaint(tab).env = tab.env
         /\ Calm(tab) => Calm(Repaint(tab))
         /\ Good(tab) => Good(Repaint(tab))
         /\ Tags(Repaint(tab)) \subseteq Tags(tab) \cup {<<0, 0>>}
<1>1. FirstOption(tab.seen) \in AllProfiles /\ tab.env.profile \in AllProfiles
      /\ tab.profile \in AllProfiles
  BY DEF FirstOption, AllProfiles, Tab, Copy
<1>2. \/ Repaint(tab) = tab
      \/ \E p \in AllProfiles : Repaint(tab) = [ForgetRoot(tab) EXCEPT !.profile = p]
  BY <1>1 DEF Repaint
<1>3. CASE Repaint(tab) = tab
  BY <1>3
<1>4. ASSUME NEW p \in AllProfiles, Repaint(tab) = [ForgetRoot(tab) EXCEPT !.profile = p]
      PROVE  /\ Repaint(tab).op = tab.op /\ Repaint(tab).list = tab.list
             /\ Repaint(tab).sk = tab.sk /\ Repaint(tab).key = tab.key
             /\ Repaint(tab).env = tab.env
             /\ Calm(tab) => Calm(Repaint(tab))
             /\ Good(tab) => Good(Repaint(tab))
             /\ Tags(Repaint(tab)) \subseteq Tags(tab) \cup {<<0, 0>>}
  <2> DEFINE x == [ForgetRoot(tab) EXCEPT !.profile = p]
  <2>1. /\ x.op = tab.op /\ x.list = tab.list /\ x.sk = tab.sk /\ x.env = tab.env /\ x.key = tab.key
        /\ Calm(tab) => Calm(x)
        /\ Good(tab) => Good(x)
        /\ Tags(x) \subseteq Tags(tab) \cup {<<0, 0>>}
    BY ForgetGood
  <2>2. Repaint(tab) = x
    BY <1>4
  <2> HIDE DEF x
  <2> QED
    BY <2>1, <2>2
<1> QED
  BY <1>2, <1>3, <1>4

\* The end of an operation leaves a good tab.
LEMMA EndGood ==
  ASSUME NEW tab \in Tab, Calm(tab)
  PROVE  /\ Good(Ended(tab)) /\ Ended(tab).op = NoOp /\ Ended(tab).list = tab.list
         /\ Tags(Ended(tab)) \subseteq {Tag(tab.keyset), Tag(tab.env), <<0, 0>>}
<1> DEFINE x == [tab EXCEPT !.op = NoOp]
<1>1. /\ x \in Tab /\ x.op = NoOp /\ x.list = tab.list /\ x.sk = tab.sk /\ x.keyset = tab.keyset
      /\ x.root = tab.root /\ x.env = tab.env /\ x.profile = tab.profile /\ x.key = tab.key
      /\ x.shown = tab.shown
  BY StartTypes DEF Tab
<1> HIDE DEF x
<1>2. Calm(x)
  BY <1>1 DEF Calm
<1>3. Running(x)
  BY <1>1, NothingSound DEF Running, NoOp
<1>4. Tags(x) = {Tag(tab.keyset), Tag(tab.env), <<0, 0>>}
  BY <1>1, NothingSound DEF Tags, NoOp
<1> QED
  BY <1>1, <1>2, <1>3, <1>4, RepaintGood DEF Ended, Good, x

\* The keys a tab names are sound, are in use, and are those of its root key.
LEMMA CurrentGood ==
  ASSUME NEW tab \in Tab, Calm(tab)
  PROVE  LET c == CurrentKeyset(tab)
         IN  /\ c \in Copy /\ Sound(c)
             /\ Tag(c) \in {Tag(tab.keyset), Tag(tab.env), <<0, 0>>}
             /\ c.id # 0 => c.profile = tab.profile /\ c.profile # "STANDARD" /\ c.slots # {}
             /\ tab.root # 0 /\ tab.keyset.id = c.id =>
                  c.id = tab.root /\ KeyedFor(c, tab.key)
<1> DEFINE c == CurrentKeyset(tab)
<1>1. tab.keyset \in Copy /\ tab.env \in Copy
  BY DEF Tab
<1>2. c \in Copy
  BY TabTypes
<1>3. c \in {tab.keyset, tab.env, NoCopy} /\ (c = tab.env => tab.env.rev # 0 \/ c = tab.keyset \/ c = NoCopy)
  BY DEF CurrentKeyset
<1>4. c.id # 0 => c.profile = tab.profile
  BY DEF CurrentKeyset, NoCopy
<1>5. tab.keyset.id # 0 => c = tab.keyset
  BY DEF CurrentKeyset, Calm
<1> HIDE DEF c
<1>6. Sound(c) /\ Tag(c) \in {Tag(tab.keyset), Tag(tab.env), <<0, 0>>}
  BY <1>3, NothingSound DEF Calm
<1>7. c.id # 0 => c.profile # "STANDARD"
  BY <1>6 DEF Sound, SoundAs, Hardware
<1>8. NoCopy.id = 0
  BY DEF NoCopy
<1>9. c.id # 0 => c.slots # {}
  BY <1>3, <1>6, <1>7, <1>8 DEF Calm, Sound, SoundAs, Hardware
<1>10. tab.root # 0 => tab.keyset.id = tab.root /\ KeyedFor(tab.keyset, tab.key)
  BY DEF Calm
<1> QED
  BY <1>2, <1>4, <1>5, <1>6, <1>7, <1>9, <1>10 DEF c

\* A tab in which only the operation is another.
LEMMA NewOpGood ==
  ASSUME NEW tab \in Tab, NEW o \in Op, Calm(tab)
  PROVE  LET x == [tab EXCEPT !.op = o]
         IN  /\ x \in Tab /\ x.op = o /\ x.list = tab.list /\ x.sk = tab.sk
             /\ x.keyset = tab.keyset /\ x.env = tab.env /\ x.root = tab.root
             /\ x.key = tab.key /\ x.profile = tab.profile /\ x.mode = tab.mode /\ x.seen = tab.seen
             /\ Calm(x)
<1> DEFINE x == [tab EXCEPT !.op = o]
<1>1. /\ x \in Tab /\ x.op = o /\ x.list = tab.list /\ x.sk = tab.sk
      /\ x.keyset = tab.keyset /\ x.env = tab.env /\ x.root = tab.root
      /\ x.key = tab.key /\ x.profile = tab.profile /\ x.mode = tab.mode /\ x.seen = tab.seen
      /\ x.shown = tab.shown
  BY DEF Tab
<1> HIDE DEF x
<1>2. Calm(x)
  BY <1>1 DEF Calm
<1> QED
  BY <1>1, <1>2 DEF x

\* A step leaves a good tab, and nothing new is known.
Keeps(t) == Good(tabs'[t]) /\ Tags(tabs'[t]) \subseteq Known(tabs[t])

\* An operation begins.
LEMMA BeginOpGood ==
  ASSUME TypeOK, NEW t \in Tabs, NEW tab \in Tab, NEW o \in Op,
         Calm(tab), tab.sk, Tags(tab) \subseteq Known(tabs[t]),
         Prepared(o), Drafted(o), o.pc \in {"policy1", "root"}, o.prev = NoCopy,
         Tag(o.base) \in Known(tabs[t]), Becomes(t, [tab EXCEPT !.op = o])
  PROVE  Keeps(t)
<1> DEFINE x == [tab EXCEPT !.op = o]
<1>1. x \in Tab /\ Calm(x) /\ x.op = o /\ x.sk = tab.sk /\ x.keyset = tab.keyset /\ x.env = tab.env
  BY NewOpGood
<1>2. tabs'[t] = x
  BY <1>1, BecomesType
<1> HIDE DEF x
<1>3. Running(x)
  BY <1>1 DEF Running
<1>4. Tags(x) = {Tag(tab.keyset), Tag(tab.env), <<0, 0>>, Tag(o.base)}
  BY <1>1, NothingSound DEF Tags
<1>5. {Tag(tab.keyset), Tag(tab.env), <<0, 0>>} \subseteq Known(tabs[t])
  BY DEF Tags, Known
<1> QED
  BY <1>1, <1>2, <1>3, <1>4, <1>5 DEF Keeps, Good

\* Whatever a user begins leaves a good tab.
LEMMA BeginGood ==
  ASSUME TypeOK, NEW t \in Tabs, Good(tabs[t]), Begin(t) PROVE Keeps(t)
<1> USE OfflineAssumption
<1> DEFINE tab == tabs[t]
           r == Repaint(tab)
           keyset == CurrentKeyset(tab)
<1>1. tab \in Tab /\ r \in Tab /\ keyset \in Copy
  BY TabTypes DEF TypeOK
<1>2. Calm(tab) /\ Calm(r) /\ r.sk = tab.sk /\ Tags(r) \subseteq Known(tab)
  BY <1>1, RepaintGood DEF Good, Known
<1>3. /\ Sound(keyset) /\ Tag(keyset) \in Known(tab)
      /\ keyset.id # 0 => /\ keyset.profile = tab.profile /\ keyset.profile # "STANDARD"
                          /\ keyset.slots # {}
  BY <1>1, <1>2, CurrentGood DEF Known, Tags
<1>4. r.profile \in AllProfiles /\ r.key \in SwKeys /\ tab.profile \in AllProfiles /\ tab.key \in SwKeys
  BY <1>1 DEF Tab
<1>5. <<0, 0>> \in Known(tab)
  BY DEF Known
<1> HIDE DEF r, keyset
<1>6. CASE BeginSync(t)
  <2> DEFINE o == [NoOp EXCEPT !.pc = "policy1", !.live = TRUE, !.profile = r.profile, !.key = r.key]
  <2>1. o \in Op /\ o.kind = "sync" /\ o.pc = "policy1" /\ o.prev = NoCopy /\ o.base = NoCopy
    BY <1>4, StartTypes DEF Op, NoOp, Steps
  <2>2. Becomes(t, [r EXCEPT !.op = o]) /\ tab.sk
    BY <1>6 DEF BeginSync, Ready, r
  <2> HIDE DEF o
  <2>3. Prepared(o) /\ Drafted(o)
    BY <2>1, NothingSound DEF Prepared, Drafted, WithBase
  <2> QED
    BY <1>1, <1>2, <1>5, <2>1, <2>2, <2>3, BeginOpGood, NothingSound
<1>7. CASE BeginRegister(t)
  <2> DEFINE o == [NoOp EXCEPT !.kind = "register", !.pc = "policy1", !.live = TRUE,
                               !.profile = tab.profile, !.key = tab.key]
  <2>1. /\ o \in Op /\ o.kind = "register" /\ o.pc = "policy1" /\ o.prev = NoCopy /\ o.base = NoCopy
        /\ o.profile = tab.profile /\ o.key = tab.key
    BY <1>4, StartTypes DEF Op, NoOp, Steps, Kinds
  <2>2. /\ Becomes(t, [r EXCEPT !.op = o]) /\ tab.sk
        /\ tab.profile # "STANDARD" /\ (tab.profile = "COMBINED" => tab.key # 0)
    BY <1>7 DEF BeginRegister, Ready, r
  <2> HIDE DEF o
  <2>3. Prepared(o) /\ Drafted(o)
    BY <2>1, <2>2, NothingSound DEF Prepared, Drafted, WithBase
  <2> QED
    BY <1>1, <1>2, <1>5, <2>1, <2>2, <2>3, BeginOpGood, NothingSound
<1>8. ASSUME NEW hw \in HwKeys, BeginRemove(t, hw) PROVE Keeps(t)
  <2> DEFINE o == [NoOp EXCEPT !.kind = "remove", !.pc = "policy1", !.live = TRUE,
                               !.profile = tab.profile, !.key = tab.key,
                               !.base = keyset, !.drop = {hw}]
  <2>1. /\ o \in Op /\ o.kind = "remove" /\ o.pc = "policy1" /\ o.prev = NoCopy /\ o.base = keyset
        /\ o.profile = tab.profile /\ o.key = tab.key /\ o.drop = {hw}
    BY <1>1, <1>4, StartTypes DEF Op, NoOp, Steps, Kinds
  <2>2. /\ Becomes(t, [r EXCEPT !.op = o]) /\ tab.sk
        /\ tab.profile # "STANDARD" /\ \E s \in keyset.slots : s.hw # hw
    BY <1>8 DEF BeginRemove, Ready, r, keyset
  <2> HIDE DEF o
  <2>3. keyset.id # 0
    BY <1>3, <2>2 DEF Sound, SoundAs
  <2>4. Prepared(o) /\ Drafted(o)
    BY <1>3, <2>1, <2>2, <2>3, NothingSound DEF Prepared, Drafted, WithBase
  <2> QED
    BY <1>1, <1>2, <1>3, <2>1, <2>2, <2>4, BeginOpGood
<1>9. CASE BeginTest(t)
  <2> DEFINE o == [NoOp EXCEPT !.kind = "test", !.pc = "root", !.live = TRUE,
                               !.profile = tab.profile, !.key = tab.key, !.base = keyset]
  <2>1. /\ o \in Op /\ o.kind = "test" /\ o.pc = "root" /\ o.prev = NoCopy /\ o.base = keyset
        /\ o.profile = tab.profile
    BY <1>1, <1>4, StartTypes DEF Op, NoOp, Steps, Kinds
  <2>2. Becomes(t, [r EXCEPT !.op = o]) /\ tab.sk /\ keyset.id # 0
    BY <1>9 DEF BeginTest, Ready, r, keyset
  <2> HIDE DEF o
  <2>3. Prepared(o) /\ Drafted(o)
    BY <1>3, <2>1, <2>2, NothingSound DEF Prepared, Drafted, WithBase
  <2> QED
    BY <1>1, <1>2, <1>3, <2>1, <2>2, <2>3, BeginOpGood
<1>10. CASE Wipe(t)
  <2> DEFINE x == [ForgetRoot(tab) EXCEPT !.env = NoCopy, !.profile = "STANDARD", !.changed = FALSE]
  <2>1. ForgetRoot(tab) \in Tab /\ tab.op.pc = "idle"
    BY <1>1, <1>10, TabTypes DEF Wipe, Idle, At
  <2>2. /\ x \in Tab /\ x.op = tab.op /\ x.env = NoCopy /\ x.keyset = NoCopy /\ x.root = 0
        /\ x.sk = tab.sk /\ x.key = tab.key /\ x.shown = tab.shown
    BY <2>1, StartTypes DEF ForgetRoot, Tab, AllProfiles
  <2>3. Becomes(t, IF x.mode = "offline" THEN Page ELSE Repaint(x))
    BY <1>10 DEF Wipe
  <2> HIDE DEF x
  <2>4. NoCopy.id = 0
    BY DEF NoCopy
  <2>5. Calm(x)
    BY <1>2, <2>2, <2>4, NothingSound DEF Calm
  <2>6. Running(x)
    BY <2>1, <2>2 DEF Running, Good
  <2>7. Tags(x) \subseteq Known(tab)
    BY <2>1, <2>2, NothingSound DEF Tags, Known
  <2>8. Repaint(x) \in Tab /\ Page \in Tab
    BY <2>2, TabTypes, StartTypes
  <2>9. tabs'[t] = IF x.mode = "offline" THEN Page ELSE Repaint(x)
    BY <2>3, <2>8, BecomesType
  <2> QED
    BY <1>5, <2>2, <2>5, <2>6, <2>7, <2>9, RepaintGood, NothingSound DEF Good, Keeps
<1>11. ASSUME NEW key \in 1 .. MaxSw, LoadKey(t, key) PROVE Keeps(t)
  <2> DEFINE x == WithKey(tab, key)
  <2>1. ForgetRoot(tab) \in Tab /\ tab.op.pc = "idle" /\ tab.sk /\ key \in SwKeys
    BY <1>1, <1>11, TabTypes DEF LoadKey, Ready, Idle, At, SwKeys
  <2>2. /\ x \in Tab /\ x.op = tab.op /\ x.env = tab.env /\ x.keyset = NoCopy /\ x.root = 0
        /\ x.sk = tab.sk
    BY <2>1, StartTypes DEF ForgetRoot, WithKey, Tab
  <2>3. Becomes(t, Repaint(x))
    BY <1>11 DEF LoadKey
  <2> HIDE DEF x
  <2>4. NoCopy.id = 0
    BY DEF NoCopy
  <2>5. Calm(x)
    BY <1>2, <2>1, <2>2, <2>4, NothingSound DEF Calm
  <2>6. Running(x)
    BY <2>1, <2>2 DEF Running, Good
  <2>7. Tags(x) \subseteq Known(tab)
    BY <2>2, NothingSound DEF Tags, Known
  <2>8. tabs'[t] = Repaint(x)
    BY <2>2, <2>3, TabTypes, BecomesType
  <2> QED
    BY <1>5, <2>2, <2>5, <2>6, <2>7, <2>8, RepaintGood DEF Good, Keeps
<1>12. ASSUME NEW profile \in Profiles, ChooseProfile(t, profile) PROVE Keeps(t)
  <2> DEFINE x == [ForgetRoot(tab) EXCEPT !.profile = profile, !.changed = TRUE]
  <2>1. ForgetRoot(tab) \in Tab /\ tab.op.pc = "idle" /\ tab.sk /\ profile \in AllProfiles
    BY <1>1, <1>12, TabTypes DEF ChooseProfile, Ready, Idle, At, AllProfiles
  <2>2. /\ x \in Tab /\ x.op = tab.op /\ x.env = tab.env /\ x.keyset = NoCopy /\ x.root = 0
        /\ x.sk = tab.sk
    BY <2>1, StartTypes DEF ForgetRoot, Tab
  <2>3. Becomes(t, x)
    BY <1>12 DEF ChooseProfile
  <2> HIDE DEF x
  <2>4. NoCopy.id = 0
    BY DEF NoCopy
  <2>5. Calm(x)
    BY <1>2, <2>1, <2>2, <2>4, NothingSound DEF Calm
  <2>6. Running(x)
    BY <2>1, <2>2 DEF Running, Good
  <2>7. Tags(x) \subseteq Known(tab)
    BY <2>2, NothingSound DEF Tags, Known
  <2>8. tabs'[t] = x
    BY <2>2, <2>3, BecomesType
  <2> QED
    BY <2>5, <2>6, <2>7, <2>8 DEF Good, Keeps
<1> QED
  BY <1>6, <1>7, <1>8, <1>9, <1>10, <1>11, <1>12 DEF Begin

\* The tab outside an operation stays good.
LEMMA OtherGood ==
  ASSUME TypeOK, Sound(store), NEW t \in Tabs, Good(tabs[t]),
         Other(t) \/ Lock(t) \/ Reload(t) \/ BeginRefresh(t)
  PROVE  Keeps(t)
<1> DEFINE tab == tabs[t]
<1>1. tab \in Tab /\ store \in Copy /\ server \in Rows /\ policy \in Policy
  BY DEF TypeOK
<1>2. Calm(tab) /\ Running(tab)
  BY DEF Good
<1>3. <<0, 0>> \in Known(tab) /\ Tag(store) \in Known(tab) /\ Tags(tab) \subseteq Known(tab)
  BY DEF Known
<1>4. NoCopy.id = 0
  BY DEF NoCopy
<1>5. ASSUME NEW x \in Tab, Becomes(t, x), x.op = NoOp, x.keyset = NoCopy, x.root = 0,
             x.env \in {NoCopy, store, tab.env}, ~x.sk => x.key = 0 /\ ~x.shown
      PROVE  Keeps(t)
  <2>1. Calm(x)
    BY <1>2, <1>4, <1>5, NothingSound DEF Calm
  <2>2. Running(x)
    BY <1>5, NothingSound DEF Running, NoOp
  <2>3. Tags(x) \subseteq {<<0, 0>>, Tag(store), Tag(tab.env)}
    BY <1>5, NothingSound DEF Tags, NoOp
  <2>4. Tag(tab.env) \in Known(tab)
    BY DEF Known, Tags
  <2> QED
    BY <1>3, <1>5, <2>1, <2>2, <2>3, <2>4, BecomesType DEF Keeps, Good
<1>6. CASE Start(t)
  <2> SUFFICES ASSUME NEW seen \in Policy,
                      Becomes(t, [Page EXCEPT !.mode = "online", !.loading = TRUE, !.sk = TRUE,
                                              !.seen = seen])
               PROVE  Keeps(t)
    BY <1>1, <1>6, StartTypes DEF Start
  <2> DEFINE x == [Page EXCEPT !.mode = "online", !.loading = TRUE, !.sk = TRUE, !.seen = seen]
  <2>1. x \in Tab /\ x.op = NoOp /\ x.keyset = NoCopy /\ x.root = 0 /\ x.env = NoCopy /\ x.sk
    BY StartTypes DEF Tab, Page
  <2> HIDE DEF x
  <2> QED
    BY <1>5, <2>1 DEF x
<1>7. CASE NoticeCopy(t)
  <2> DEFINE x == [tab EXCEPT !.loading = FALSE, !.list = server, !.env = store]
  <2>1. /\ x \in Tab /\ x.op = tab.op /\ x.keyset = tab.keyset /\ x.root = tab.root
        /\ x.env = store /\ x.sk = tab.sk /\ x.key = tab.key /\ x.shown = tab.shown
        /\ x.profile = tab.profile /\ x.mode = tab.mode /\ x.seen = tab.seen
    BY <1>1 DEF Tab
  <2>2. Becomes(t, Repaint(x))
    BY <1>7 DEF NoticeCopy
  <2> HIDE DEF x
  <2>3. Calm(x)
    BY <1>2, <2>1 DEF Calm
  <2>4. Running(x)
    BY <1>2, <2>1 DEF Running, SessionOk
  <2>5. Tags(x) \subseteq Tags(tab) \cup {Tag(store)}
    BY <2>1 DEF Tags
  <2>6. tabs'[t] = Repaint(x)
    BY <2>1, <2>2, TabTypes, BecomesType
  <2> QED
    BY <1>3, <2>1, <2>3, <2>4, <2>5, <2>6, RepaintGood DEF Keeps, Good
<1>8. ASSUME NEW rows \in Rows, Becomes(t, [tab EXCEPT !.list = rows]) PROVE Keeps(t)
  <2> DEFINE x == [tab EXCEPT !.list = rows]
  <2>1. /\ x \in Tab /\ x.op = tab.op /\ x.keyset = tab.keyset /\ x.root = tab.root
        /\ x.env = tab.env /\ x.sk = tab.sk /\ x.key = tab.key /\ x.shown = tab.shown
        /\ x.profile = tab.profile /\ x.mode = tab.mode /\ x.seen = tab.seen
    BY <1>1 DEF Tab
  <2>2. tabs'[t] = x
    BY <1>8, <2>1, BecomesType
  <2> HIDE DEF x
  <2>3. Calm(x)
    BY <1>2, <2>1 DEF Calm
  <2>4. Running(x)
    BY <1>2, <2>1 DEF Running, SessionOk
  <2>5. Tags(x) = Tags(tab)
    BY <2>1 DEF Tags
  <2> QED
    BY <1>3, <2>2, <2>3, <2>4, <2>5 DEF Keeps, Good
<1>9. CASE Pick(t)
  <2> DEFINE x == [Page EXCEPT !.mode = "picker", !.env = store]
  <2>1. x \in Tab /\ x.op = NoOp /\ x.keyset = NoCopy /\ x.root = 0 /\ x.env = store
        /\ x.key = 0 /\ ~x.shown
    BY <1>1, StartTypes DEF Tab, Page
  <2>2. Becomes(t, x)
    BY <1>9 DEF Pick, Valid
  <2> HIDE DEF x
  <2> QED
    BY <1>5, <2>1, <2>2
<1>10. ASSUME NEW key \in SwKeys, Becomes(t, Opened(tab.env, key)) PROVE Keeps(t)
  <2> DEFINE x == Opened(tab.env, key)
  <2>1. x \in Tab /\ x.op = NoOp /\ x.keyset = NoCopy /\ x.root = 0 /\ x.env = tab.env /\ x.sk
    BY <1>1, StartTypes DEF Tab, Page, Opened
  <2> HIDE DEF x
  <2> QED
    BY <1>5, <1>10, <2>1 DEF x
<1>11. CASE Unlock(t)
  <2> DEFINE x == [tab EXCEPT !.sk = TRUE]
  <2>1. /\ x \in Tab /\ x.op = tab.op /\ x.keyset = tab.keyset /\ x.root = tab.root
        /\ x.env = tab.env /\ x.sk /\ x.key = tab.key
        /\ x.profile = tab.profile /\ x.mode = tab.mode /\ x.seen = tab.seen
    BY <1>1 DEF Tab
  <2>2. tabs'[t] = x
    BY <1>11, <2>1, BecomesType DEF Unlock
  <2> HIDE DEF x
  <2>3. Calm(x)
    BY <1>2, <2>1 DEF Calm
  <2>4. Running(x)
    BY <1>2, <2>1 DEF Running, SessionOk
  <2>5. Tags(x) = Tags(tab)
    BY <2>1 DEF Tags
  <2> QED
    BY <1>3, <2>2, <2>3, <2>4, <2>5 DEF Keeps, Good
<1>12. CASE Lock(t)
  <2> DEFINE x == Locked(tab)
             o == [tab.op EXCEPT !.live = FALSE]
  <2>0. ForgetRoot(tab) \in Tab /\ tab.op \in Op
    BY <1>1, TabTypes DEF Tab
  <2>1. /\ o \in Op /\ o.kind = tab.op.kind /\ o.pc = tab.op.pc /\ ~o.live
        /\ o.profile = tab.op.profile /\ o.key = tab.op.key /\ o.prev = tab.op.prev
        /\ o.base = tab.op.base /\ o.drop = tab.op.drop /\ o.root = tab.op.root
        /\ o.draft = tab.op.draft
    BY <2>0 DEF Op
  <2>2. /\ x \in Tab /\ x.op = o /\ x.keyset = NoCopy /\ x.root = 0
        /\ x.env = tab.env /\ x.key = 0 /\ ~x.shown
    BY <1>1, <2>0, TabTypes DEF Tab, Locked, ForgetRoot
  <2>3. tabs'[t] = x
    BY <1>12, <2>2, BecomesType DEF Lock
  <2> HIDE DEF x, o
  <2>4. Calm(x)
    BY <1>2, <1>4, <2>2, NothingSound DEF Calm
  <2>5. Prepared(o)
    BY <1>2, <2>1 DEF Running, Prepared, WithBase
  <2>6. Drafted(o)
    BY <1>2, <2>1 DEF Running, Drafted
  <2>7. Running(x)
    BY <1>4, <2>1, <2>2, <2>5, <2>6 DEF Running
  <2>8. Tags(x) \subseteq Tags(tab) \cup {<<0, 0>>}
    BY <2>1, <2>2, NothingSound DEF Tags
  <2> QED
    BY <1>3, <2>3, <2>4, <2>7, <2>8 DEF Keeps, Good
<1>13. CASE Reload(t)
  BY <1>3, <1>13, NothingSound, StartTypes, BecomesType DEF Reload, Keeps
<1> QED
  BY <1>1, <1>6, <1>7, <1>8, <1>9, <1>10, <1>11, <1>12, <1>13, StartTypes
     DEF Other, OpenOffline, ReopenOffline, Opening, EndRefresh, BeginRefresh

\* An operation that goes on, but does not store yet, leaves a good tab.
LEMMA GoOnGood ==
  ASSUME NEW tab \in Tab, NEW o \in Op, Calm(tab), Prepared(o), Drafted(o), o.live => tab.sk,
         o.pc # "put",
         o.kind = "sync" /\ o.profile # "STANDARD" /\ o.pc \in {"fetch", "policy2"} =>
           tab.root \in {0, o.base.id}
  PROVE  LET x == [tab EXCEPT !.op = o]
         IN  /\ x \in Tab /\ Good(x)
             /\ Tags(x) = {Tag(tab.keyset), Tag(tab.env), Tag(o.prev), Tag(o.base)} \cup
                          (IF o.kind = "remove" /\ o.pc \in {"seal", "policy2"}
                           THEN {<<0, o.draft.id>>} ELSE {})
<1> DEFINE x == [tab EXCEPT !.op = o]
<1>1. /\ x \in Tab /\ Calm(x) /\ x.op = o /\ x.sk = tab.sk /\ x.keyset = tab.keyset
      /\ x.env = tab.env /\ x.root = tab.root
  BY NewOpGood
<1> HIDE DEF x
<1>2. Running(x)
  BY <1>1 DEF Running
<1>3. Tags(x) = {Tag(tab.keyset), Tag(tab.env), Tag(o.prev), Tag(o.base)} \cup
                (IF o.kind = "remove" /\ o.pc \in {"seal", "policy2"}
                 THEN {<<0, o.draft.id>>} ELSE {})
  BY <1>1 DEF Tags
<1> QED
  BY <1>1, <1>2, <1>3 DEF Good, x

\* The answer of the server changes the policy a tab has seen.
LEMMA SeenGood ==
  ASSUME NEW tab \in Tab, NEW p \in Policy
  PROVE  LET x == [tab EXCEPT !.seen = p]
         IN  /\ x \in Tab /\ x.op = tab.op /\ x.list = tab.list /\ x.sk = tab.sk
             /\ x.keyset = tab.keyset /\ x.env = tab.env /\ x.root = tab.root /\ x.seen = p
             /\ x.key = tab.key /\ x.profile = tab.profile /\ x.mode = tab.mode
             /\ Calm(tab) => Calm(x)
             /\ Tags(x) = Tags(tab)
<1> DEFINE x == [tab EXCEPT !.seen = p]
<1>1. /\ x \in Tab /\ x.op = tab.op /\ x.list = tab.list /\ x.sk = tab.sk
      /\ x.keyset = tab.keyset /\ x.env = tab.env /\ x.root = tab.root /\ x.seen = p
      /\ x.key = tab.key /\ x.profile = tab.profile /\ x.mode = tab.mode /\ x.shown = tab.shown
  BY DEF Tab
<1> HIDE DEF x
<1>2. Calm(tab) => Calm(x)
  BY <1>1 DEF Calm
<1>3. Tags(x) = Tags(tab)
  BY <1>1 DEF Tags
<1> QED
  BY <1>1, <1>2, <1>3 DEF x

\* An operation that fails leaves a good tab.
LEMMA FailsGood ==
  ASSUME TypeOK, NEW t \in Tabs, Good(tabs[t]), NEW tab \in Tab, Calm(tab),
         Tags(tab) \subseteq Known(tabs[t]), Becomes(t, Ended(tab))
  PROVE  Keeps(t) /\ tabs'[t].op = NoOp
<1>1. /\ Good(Ended(tab)) /\ Ended(tab).op = NoOp
      /\ Tags(Ended(tab)) \subseteq {Tag(tab.keyset), Tag(tab.env), <<0, 0>>}
  BY EndGood
<1>2. tabs'[t] = Ended(tab)
  BY TabTypes, BecomesType
<1>3. {Tag(tab.keyset), Tag(tab.env), <<0, 0>>} \subseteq Known(tabs[t])
  BY DEF Tags, Known
<1> QED
  BY <1>1, <1>2, <1>3 DEF Keeps

LEMMA RefusedGood ==
  ASSUME TypeOK, NEW t \in Tabs, Good(tabs[t]), RefusedByPolicy(t)
  PROVE  Keeps(t) /\ tabs'[t].op = NoOp
<1> DEFINE tab == tabs[t]
<1>1. tab \in Tab /\ policy \in Policy /\ NoPolicy \in Policy
  BY StartTypes DEF TypeOK
<1>2. Calm(tab) /\ Tags(tab) \subseteq Known(tab)
  BY DEF Good, Known
<1>3. ASSUME NEW p \in Policy, Becomes(t, Ended([tab EXCEPT !.seen = p]))
      PROVE  Keeps(t) /\ tabs'[t].op = NoOp
  <2> DEFINE x == [tab EXCEPT !.seen = p]
  <2>1. x \in Tab /\ Calm(x) /\ Tags(x) = Tags(tab)
    BY <1>1, <1>2, SeenGood
  <2>2. Becomes(t, Ended(x))
    BY <1>3
  <2> HIDE DEF x
  <2> QED
    BY <1>2, <2>1, <2>2, FailsGood
<1>4. CASE Becomes(t, Ended(tab))
  BY <1>1, <1>2, <1>4, FailsGood
<1>5. \/ \E p \in Policy : Becomes(t, Ended([tab EXCEPT !.seen = p]))
      \/ Becomes(t, Ended(tab))
  BY <1>1 DEF RefusedByPolicy, Answered
<1> QED
  BY <1>3, <1>4, <1>5

\* A step leaves a good tab, and all that is new to it is a new identity.
Learns(t) ==
  /\ Good(tabs'[t])
  /\ Tags(tabs'[t]) \subseteq Known(tabs[t]) \cup (IF ids' = ids THEN {} ELSE {<<0, ids'>>})

LEMMA Policy1Good ==
  ASSUME TypeOK, NEW t \in Tabs, Good(tabs[t]), Policy1(t) PROVE Learns(t)
<1> USE OfflineAssumption
<1> DEFINE tab == Answered(t)
           op == [tab.op EXCEPT !.req = policy.req]
           keyset == CurrentKeyset(tab)
<1>1. tabs[t] \in Tab /\ policy \in Policy /\ policy.req \in Requirements /\ ids \in Nat
  BY DEF TypeOK, Policy
<1>2. /\ tab \in Tab /\ tab.op = tabs[t].op /\ Calm(tab) /\ Tags(tab) = Tags(tabs[t])
      /\ tab.sk = tabs[t].sk
  BY <1>1, SeenGood DEF Answered, Good
<1>3. CASE RefusedByPolicy(t)
  BY <1>3, RefusedGood DEF Keeps, Learns
<1> SUFFICES ASSUME SessionOk(tab) PROVE Learns(t)
  BY <1>3 DEF Policy1
<1> HIDE DEF tab
<1>4. tab.op \in Op /\ tab.op.pc = "policy1" /\ Prepared(tab.op) /\ Drafted(tab.op)
  BY <1>1, <1>2 DEF Tab, Policy1, At, Good, Running
<1>5. /\ op \in Op /\ op.kind = tab.op.kind /\ op.profile = tab.op.profile /\ op.key = tab.op.key
      /\ op.prev = tab.op.prev /\ op.base = tab.op.base /\ op.live = tab.op.live
      /\ op.drop = tab.op.drop
  BY <1>1, <1>4 DEF Op
<1>6. /\ tab.sk /\ tab.key = op.key /\ tab.profile = op.profile
      /\ Sound(op.prev) /\ Sound(op.base)
  BY <1>2, <1>4, <1>5 DEF SessionOk, Good, Running, Prepared
<1>7. /\ Tag(op.prev) \in Known(tabs[t]) /\ Tag(op.base) \in Known(tabs[t])
      /\ Tag(tab.keyset) \in Known(tabs[t]) /\ Tag(tab.env) \in Known(tabs[t])
      /\ <<0, 0>> \in Known(tabs[t]) /\ Tags(tab) \subseteq Known(tabs[t])
  BY <1>2, <1>5 DEF Known, Tags
<1>8. /\ keyset \in Copy /\ Sound(keyset)
      /\ Tag(keyset) \in Known(tabs[t])
      /\ keyset.id # 0 => /\ keyset.profile = tab.profile /\ keyset.profile # "STANDARD"
                          /\ keyset.slots # {}
      /\ tab.root # 0 /\ tab.keyset.id = keyset.id =>
           keyset.id = tab.root /\ KeyedFor(keyset, tab.key)
  BY <1>2, <1>7, CurrentGood
<1> HIDE DEF op, keyset
<1>9. ASSUME NEW o \in Op, Prepared(o), Drafted(o), o.pc \in {"list", "device", "root"},
             Becomes(t, [tab EXCEPT !.op = o]),
             Tag(o.prev) \in Known(tabs[t]),
             Tag(o.base) \in Known(tabs[t]) \cup (IF ids' = ids THEN {} ELSE {<<0, ids'>>})
      PROVE  Learns(t)
  <2> DEFINE x == [tab EXCEPT !.op = o]
  <2>1. /\ x \in Tab /\ Good(x)
        /\ Tags(x) = {Tag(tab.keyset), Tag(tab.env), Tag(o.prev), Tag(o.base)}
    BY <1>2, <1>6, <1>9, GoOnGood
  <2>2. tabs'[t] = x
    BY <1>9, <2>1, BecomesType
  <2> HIDE DEF x
  <2> QED
    BY <1>7, <1>9, <2>1, <2>2 DEF Learns
<1>10. ASSUME op.kind = "sync", op.profile = "HARDWARE" \/ op.key # 0,
              Becomes(t, [tab EXCEPT !.op = [op EXCEPT !.pc = "list"]])
       PROVE  Learns(t)
  <2> DEFINE o == [op EXCEPT !.pc = "list"]
  <2>1. /\ o \in Op /\ o.pc = "list" /\ o.kind = op.kind /\ o.profile = op.profile /\ o.key = op.key
        /\ o.prev = op.prev /\ o.base = op.base
    BY <1>5 DEF Op, Steps
  <2> HIDE DEF o
  <2>2. Prepared(o) /\ Drafted(o)
    BY <1>6, <1>10, <2>1 DEF Prepared, Drafted, WithBase
  <2> QED
    BY <1>7, <1>9, <1>10, <2>1, <2>2 DEF o
<1>11. CASE Becomes(t, Ended(tab))
  BY <1>2, <1>7, <1>11, FailsGood DEF Keeps, Learns
<1>12. ASSUME op.kind = "register", ids' = ids + 1,
              Becomes(t, [tab EXCEPT !.op = [op EXCEPT !.pc = "device", !.root = ids + 1,
                                               !.base = NewKeys(op.profile, ids + 1)]]),
              ids < MaxKeysets
       PROVE  Learns(t)
  <2> DEFINE b == NewKeys(op.profile, ids + 1)
             o == [op EXCEPT !.pc = "device", !.root = ids + 1, !.base = b]
  <2>1. ids + 1 \in 0 .. MaxKeysets /\ ids + 1 # 0 /\ op.profile \in AllProfiles
    BY <1>5, <1>12 DEF TypeOK, Op
  <2>2. /\ b \in Copy /\ b.id = ids + 1 /\ b.profile = op.profile /\ b.slots = {}
        /\ b.rev = 0
    BY <2>1, StartTypes DEF NewKeys, NoCopy, Copy
  <2> HIDE DEF b
  <2>3. /\ o \in Op /\ o.pc = "device" /\ o.kind = op.kind /\ o.profile = op.profile /\ o.key = op.key
        /\ o.prev = op.prev /\ o.base = b /\ o.root = ids + 1
    BY <1>5, <2>1, <2>2 DEF Op, Steps, Roots
  <2>4. Becomes(t, [tab EXCEPT !.op = o])
    BY <1>12 DEF b
  <2> HIDE DEF o
  <2>5. op.profile # "STANDARD" /\ (op.profile = "COMBINED" => op.key # 0)
    BY <1>4, <1>5, <1>12 DEF Prepared
  <2>6. Sound(b)
    BY <2>1, <2>2, <2>5 DEF Sound, SoundAs, Hardware
  <2>7. Prepared(o) /\ Drafted(o)
    BY <1>6, <1>12, <2>1, <2>2, <2>3, <2>5, <2>6 DEF Prepared, Drafted, WithBase, KeyedFor
  <2>8. Tag(o.base) = <<0, ids'>> /\ ids' # ids
    BY <1>1, <1>12, <2>2, <2>3 DEF Tag
  <2> QED
    BY <1>7, <1>9, <2>3, <2>4, <2>7, <2>8
<1>13. ASSUME op.kind = "register", keyset.id # 0, tab.root # 0, tab.keyset.id = keyset.id,
              Becomes(t, [tab EXCEPT !.op = [op EXCEPT !.pc = "device", !.base = keyset,
                                                       !.root = tab.root]])
       PROVE  Learns(t)
  <2> DEFINE o == [op EXCEPT !.pc = "device", !.base = keyset, !.root = tab.root]
  <2>1. tab.root \in Roots
    BY <1>2 DEF Tab
  <2>2. /\ o \in Op /\ o.pc = "device" /\ o.kind = op.kind /\ o.profile = op.profile /\ o.key = op.key
        /\ o.prev = op.prev /\ o.base = keyset /\ o.root = tab.root
    BY <1>5, <1>8, <2>1 DEF Op, Steps
  <2> HIDE DEF o
  <2>3. op.profile # "STANDARD" /\ (op.profile = "COMBINED" => op.key # 0)
    BY <1>4, <1>5, <1>13 DEF Prepared
  <2>4. Prepared(o) /\ Drafted(o)
    BY <1>6, <1>8, <1>13, <2>2, <2>3 DEF Prepared, Drafted, WithBase
  <2> QED
    BY <1>7, <1>8, <1>9, <1>13, <2>2, <2>4 DEF o
<1>14. ASSUME op.kind = "register", keyset.id # 0,
              Becomes(t, [tab EXCEPT !.op = [op EXCEPT !.pc = "root", !.base = keyset]])
       PROVE  Learns(t)
  <2> DEFINE o == [op EXCEPT !.pc = "root", !.base = keyset]
  <2>1. /\ o \in Op /\ o.pc = "root" /\ o.kind = op.kind /\ o.profile = op.profile /\ o.key = op.key
        /\ o.prev = op.prev /\ o.base = keyset
    BY <1>5, <1>8 DEF Op, Steps
  <2> HIDE DEF o
  <2>2. op.profile # "STANDARD" /\ (op.profile = "COMBINED" => op.key # 0)
    BY <1>4, <1>5, <1>14 DEF Prepared
  <2>3. Prepared(o) /\ Drafted(o)
    BY <1>6, <1>8, <1>14, <2>1, <2>2 DEF Prepared, Drafted, WithBase
  <2> QED
    BY <1>7, <1>8, <1>9, <1>14, <2>1, <2>3 DEF o
<1>15. ASSUME op.kind = "remove",
              Becomes(t, [tab EXCEPT !.op = [op EXCEPT !.pc = "device"]])
       PROVE  Learns(t)
  <2> DEFINE o == [op EXCEPT !.pc = "device"]
  <2>1. /\ o \in Op /\ o.pc = "device" /\ o.kind = op.kind /\ o.profile = op.profile /\ o.key = op.key
        /\ o.prev = op.prev /\ o.base = op.base /\ o.drop = op.drop
    BY <1>5 DEF Op, Steps
  <2> HIDE DEF o
  <2>2. Prepared(o) /\ Drafted(o)
    BY <1>4, <1>5, <1>6, <1>15, <2>1 DEF Prepared, Drafted, WithBase
  <2> QED
    BY <1>7, <1>9, <1>15, <2>1, <2>2 DEF o
<1> QED
  BY <1>3, <1>10, <1>11, <1>12, <1>13, <1>14, <1>15 DEF Policy1, op, keyset, tab

LEMMA ListGood ==
  ASSUME TypeOK, NEW t \in Tabs, Good(tabs[t]), List(t) PROVE Keeps(t)
<1> DEFINE tab == tabs[t]
           rows == IF tab.list = NoRows /\ ~tab.loading THEN server ELSE tab.list
           o == [tab.op EXCEPT !.pc = "read"]
           y == [tab EXCEPT !.list = rows]
           x == [y EXCEPT !.op = o]
<1>1. tab \in Tab /\ tab.op \in Op /\ tab.op.pc = "list" /\ server \in Rows /\ tab.list \in Rows
  BY DEF TypeOK, Tab, List, At
<1>2. Calm(tab) /\ Prepared(tab.op) /\ (tab.op.live => tab.sk) /\ Tags(tab) \subseteq Known(tab)
  BY DEF Good, Running, Known
<1>3. CASE Fails(t)
  BY <1>1, <1>2, <1>3, FailsGood DEF Fails
<1>4. rows \in Rows
  BY <1>1
<1> SUFFICES ASSUME Becomes(t, x) PROVE Keeps(t)
  <2>1. [tab EXCEPT !.op.pc = "read", !.list = IF @ = NoRows /\ ~tab.loading THEN server ELSE @] = x
    BY <1>1 DEF Tab, Op
  <2> QED
    BY <1>3, <2>1 DEF List
<1> HIDE DEF rows
<1>5. /\ o \in Op /\ o.pc = "read" /\ o.kind = tab.op.kind /\ o.profile = tab.op.profile
      /\ o.key = tab.op.key /\ o.prev = tab.op.prev /\ o.base = tab.op.base /\ o.live = tab.op.live
  BY <1>1 DEF Op, Steps
<1>6. /\ y \in Tab /\ y.keyset = tab.keyset /\ y.root = tab.root /\ y.profile = tab.profile
      /\ y.env = tab.env /\ y.sk = tab.sk /\ y.key = tab.key /\ y.shown = tab.shown
  BY <1>1, <1>4 DEF Tab
<1> HIDE DEF o, y
<1>7. Calm(y)
  BY <1>2, <1>6 DEF Calm
<1>8. Prepared(o) /\ Drafted(o)
  BY <1>1, <1>2, <1>5 DEF Prepared, Drafted, WithBase
<1>9. /\ x \in Tab /\ Good(x)
      /\ Tags(x) = {Tag(y.keyset), Tag(y.env), Tag(o.prev), Tag(o.base)}
  BY <1>2, <1>5, <1>6, <1>7, <1>8, GoOnGood
<1>10. Tags(x) \subseteq Tags(tab)
  BY <1>5, <1>6, <1>9 DEF Tags
<1>11. tabs'[t] = x
  BY <1>9, BecomesType
<1> QED
  BY <1>2, <1>9, <1>10, <1>11 DEF Keeps

\* A sync that has the root key goes on, or ends.
LEMMA WithRootGood ==
  ASSUME TypeOK, NEW t \in Tabs, Good(tabs[t]), NEW tab \in Tab, Calm(tab),
         Tags(tab) \subseteq Known(tabs[t]),
         NEW root \in Roots, NEW keyset \in Copy, NEW prev \in Copy,
         tab.op.kind = "sync", tab.op.profile # "STANDARD", tab.op.live => tab.sk,
         Sound(prev), Sound(keyset), keyset.id # 0, keyset.profile = tab.op.profile,
         keyset.slots # {}, keyset.rev \in {0, prev.rev},
         root = keyset.id, KeyedFor(keyset, tab.op.key), tab.root \in {0, keyset.id},
         Tag(keyset) \in Known(tabs[t]), Tag(prev) \in Known(tabs[t]),
         Becomes(t, WithRoot(tab, root, keyset, prev))
  PROVE  Keeps(t)
<1> DEFINE draft == IF Hardware(prev) /\ prev.id = keyset.id /\ ~Expired(prev) THEN prev ELSE NoCopy
           o == [tab.op EXCEPT !.pc = "fetch", !.prev = prev, !.base = keyset,
                               !.list = tab.list, !.root = root, !.draft = draft]
           x == [tab EXCEPT !.op = o]
<1>1. tab.op \in Op /\ tab.list \in Rows /\ draft \in Copy
  BY StartTypes DEF Tab
<1>2. CASE Becomes(t, Ended(tab))
  BY <1>2, FailsGood
<1> HIDE DEF draft
<1>3. CASE Becomes(t, x)
  <2>1. /\ o \in Op /\ o.pc = "fetch" /\ o.kind = tab.op.kind /\ o.profile = tab.op.profile
        /\ o.key = tab.op.key /\ o.prev = prev /\ o.base = keyset /\ o.live = tab.op.live
        /\ o.root = root
    BY <1>1 DEF Op, Steps
  <2> HIDE DEF o
  <2>2. Prepared(o) /\ Drafted(o)
    BY <2>1 DEF Prepared, Drafted, WithBase
  <2>3. /\ x \in Tab /\ Good(x)
        /\ Tags(x) = {Tag(tab.keyset), Tag(tab.env), Tag(o.prev), Tag(o.base)}
    BY <2>1, <2>2, GoOnGood
  <2>4. Tags(x) \subseteq Known(tabs[t])
    BY <2>1, <2>3 DEF Tags
  <2>5. tabs'[t] = x
    BY <1>3, <2>3, BecomesType
  <2> QED
    BY <2>3, <2>4, <2>5 DEF Keeps
<1>4. [tab EXCEPT !.op.pc = "fetch", !.op.prev = prev, !.op.base = keyset,
                  !.op.list = tab.list, !.op.root = root, !.op.draft = draft] = x
  BY <1>1 DEF Tab, Op
<1> QED
  BY <1>2, <1>3, <1>4 DEF WithRoot, draft

LEMMA ReadGood ==
  ASSUME TypeOK, Sound(store), NEW t \in Tabs, Good(tabs[t]), Read(t) PROVE Keeps(t)
<1> DEFINE tab == tabs[t]
           keyset == CurrentKeyset(tab)
           usable == store.rev # 0 /\ ~Hardware(store) /\ ~Expired(store)
           draft == IF usable THEN store ELSE NoCopy
<1>1. /\ tab \in Tab /\ tab.op \in Op /\ tab.op.pc = "read" /\ store \in Copy /\ tab.list \in Rows
      /\ tab.root \in Roots /\ draft \in Copy
  BY StartTypes DEF TypeOK, Tab, Read, At
<1>2. /\ Calm(tab) /\ Prepared(tab.op) /\ Drafted(tab.op) /\ (tab.op.live => tab.sk)
      /\ Tags(tab) \subseteq Known(tab) /\ Tag(store) \in Known(tab) /\ <<0, 0>> \in Known(tab)
  BY DEF Good, Running, Known
<1>3. CASE Fails(t)
  BY <1>1, <1>2, <1>3, FailsGood DEF Fails
<1>4. tab.op.kind = "sync" /\ (tab.op.profile = "STANDARD" => tab.op.key # 0)
      /\ Sound(tab.op.prev) /\ Sound(tab.op.base)
  BY <1>1, <1>2 DEF Prepared
<1>5. /\ keyset \in Copy /\ Sound(keyset)
      /\ Tag(keyset) \in Known(tab)
      /\ keyset.id # 0 => /\ keyset.profile = tab.profile /\ keyset.profile # "STANDARD"
                          /\ keyset.slots # {}
      /\ tab.root # 0 /\ tab.keyset.id = keyset.id =>
           keyset.id = tab.root /\ KeyedFor(keyset, tab.key)
  BY <1>1, <1>2, CurrentGood DEF Tags, Known
<1>6. Tag(tab.op.base) \in Known(tab) /\ Tag(tab.keyset) \in Known(tab) /\ Tag(tab.env) \in Known(tab)
  BY DEF Tags, Known
<1> HIDE DEF keyset, draft
<1>7. ASSUME SessionOk(tab), tab.op.profile = "STANDARD",
             Becomes(t, [tab EXCEPT !.op.pc = "fetch", !.op.prev = store, !.op.list = tab.list,
                                    !.op.draft = draft])
      PROVE  Keeps(t)
  <2> DEFINE o == [tab.op EXCEPT !.pc = "fetch", !.prev = store, !.list = tab.list, !.draft = draft]
             x == [tab EXCEPT !.op = o]
  <2>1. [tab EXCEPT !.op.pc = "fetch", !.op.prev = store, !.op.list = tab.list, !.op.draft = draft] = x
    BY <1>1 DEF Tab, Op
  <2>2. /\ o \in Op /\ o.pc = "fetch" /\ o.kind = tab.op.kind /\ o.profile = tab.op.profile
        /\ o.key = tab.op.key /\ o.prev = store /\ o.base = tab.op.base /\ o.live = tab.op.live
    BY <1>1 DEF Op, Steps
  <2>3. Becomes(t, x)
    BY <1>7, <2>1
  <2> HIDE DEF o
  <2>4. Prepared(o) /\ Drafted(o)
    BY <1>4, <1>7, <2>2 DEF Prepared, Drafted, WithBase
  <2>5. /\ x \in Tab /\ Good(x)
        /\ Tags(x) = {Tag(tab.keyset), Tag(tab.env), Tag(o.prev), Tag(o.base)}
    BY <1>1, <1>2, <1>4, <1>7, <2>2, <2>4, GoOnGood
  <2>6. tabs'[t] = x
    BY <2>3, <2>5, BecomesType
  <2> QED
    BY <1>2, <1>6, <2>2, <2>5, <2>6 DEF Keeps
<1>8. ASSUME SessionOk(tab), tab.op.profile # "STANDARD",
             keyset.id # 0, keyset.rev = 0 \/ SameSnapshot(store, keyset),
             tab.root # 0, tab.keyset.id = keyset.id, Becomes(t, WithRoot(tab, tab.root, keyset, store))
      PROVE  Keeps(t)
  <2>1. keyset.profile = tab.op.profile /\ KeyedFor(keyset, tab.op.key)
        /\ keyset.rev \in {0, store.rev} /\ tab.root \in {0, keyset.id}
    BY <1>5, <1>8 DEF SessionOk, SameSnapshot
  <2> QED
    BY <1>1, <1>2, <1>4, <1>5, <1>8, <2>1, WithRootGood
<1>9. ASSUME SessionOk(tab), tab.op.profile # "STANDARD",
             keyset.id # 0, keyset.rev = 0 \/ SameSnapshot(store, keyset),
             Becomes(t, [tab EXCEPT !.op.pc = "root", !.op.prev = store, !.op.base = keyset])
      PROVE  Keeps(t)
  <2> DEFINE o == [tab.op EXCEPT !.pc = "root", !.prev = store, !.base = keyset]
             x == [tab EXCEPT !.op = o]
  <2>1. [tab EXCEPT !.op.pc = "root", !.op.prev = store, !.op.base = keyset] = x
    BY <1>1 DEF Tab, Op
  <2>2. /\ o \in Op /\ o.pc = "root" /\ o.kind = tab.op.kind /\ o.profile = tab.op.profile
        /\ o.key = tab.op.key /\ o.prev = store /\ o.base = keyset /\ o.live = tab.op.live
    BY <1>1, <1>5 DEF Op, Steps
  <2>3. Becomes(t, x)
    BY <1>9, <2>1
  <2>4. keyset.profile = tab.op.profile /\ keyset.rev \in {0, store.rev}
    BY <1>5, <1>9 DEF SessionOk, SameSnapshot
  <2> HIDE DEF o
  <2>5. Prepared(o) /\ Drafted(o)
    BY <1>4, <1>5, <1>9, <2>2, <2>4 DEF Prepared, Drafted, WithBase
  <2>6. /\ x \in Tab /\ Good(x)
        /\ Tags(x) = {Tag(tab.keyset), Tag(tab.env), Tag(o.prev), Tag(o.base)}
    BY <1>1, <1>2, <1>4, <2>2, <2>5, GoOnGood
  <2>7. tabs'[t] = x
    BY <2>3, <2>6, BecomesType
  <2> QED
    BY <1>2, <1>5, <1>6, <2>2, <2>6, <2>7 DEF Keeps
<1> QED
  BY <1>3, <1>7, <1>8, <1>9 DEF Read, Fails, keyset, draft

LEMMA RootGood ==
  ASSUME TypeOK, NEW t \in Tabs, Good(tabs[t]), Root(t) PROVE Keeps(t)
<1> DEFINE tab == tabs[t]
           op == tab.op
<1>1. /\ tab \in Tab /\ op \in Op /\ op.pc = "root" /\ op.base \in Copy /\ op.prev \in Copy
      /\ op.key \in SwKeys
  BY DEF TypeOK, Tab, Op, Root, At
<1>2. /\ Calm(tab) /\ Prepared(op) /\ (op.live => tab.sk)
      /\ Tags(tab) \subseteq Known(tab) /\ <<0, 0>> \in Known(tab)
      /\ Tag(op.base) \in Known(tab) /\ Tag(op.prev) \in Known(tab) /\ Tag(tab.env) \in Known(tab)
  BY DEF Good, Running, Known, Tags
<1>3. CASE Fails(t)
  BY <1>1, <1>2, <1>3, FailsGood DEF Fails
<1> SUFFICES ASSUME NEW slot \in op.base.slots,
                    Unlocks(op.base, slot, op.key), SessionOk(tab),
                    LET open == [tab EXCEPT !.root = slot.root, !.keyset = op.base] IN
                    Becomes(t, IF op.kind = "sync" THEN WithRoot(open, slot.root, op.base, op.prev)
                               ELSE IF op.kind = "test" THEN Ended(open)
                               ELSE [open EXCEPT !.op.pc = "device", !.op.root = slot.root])
             PROVE  Keeps(t)
  BY <1>3 DEF Root
<1> DEFINE open == [tab EXCEPT !.root = slot.root, !.keyset = op.base]
<1>4. /\ Sound(op.base) /\ Sound(op.prev) /\ op.base.id # 0 /\ op.profile # "STANDARD"
      /\ op.base.profile = op.profile
  BY <1>1, <1>2 DEF Prepared, WithBase
<1>5. slot.root \in Roots
  BY <1>1 DEF Copy, Slot
<1>6. slot.root = op.base.id /\ slot.sw = SlotKey(op.profile, op.key)
      /\ KeyedFor(op.base, op.key)
  BY <1>4 DEF Sound, SoundAs, Unlocks, KeyedFor
<1>7. tab.key = op.key /\ tab.profile = op.profile /\ op.live /\ tab.sk
  BY <1>2 DEF SessionOk
<1>8. /\ open \in Tab /\ open.op = op /\ open.keyset = op.base /\ open.root = slot.root
      /\ open.env = tab.env /\ open.sk = tab.sk /\ open.key = tab.key /\ open.profile = tab.profile
  BY <1>1, <1>5 DEF Tab
<1> HIDE DEF open
<1>9. Calm(open)
  BY <1>2, <1>4, <1>6, <1>7, <1>8 DEF Calm
<1>10. Tags(open) \subseteq Known(tab)
  BY <1>1, <1>2, <1>8 DEF Tags
<1>11. CASE op.kind = "sync"
  <2>1. op.base.slots # {} /\ op.base.rev \in {0, op.prev.rev}
    BY <1>1, <1>2, <1>4, <1>11 DEF Prepared
  <2>2. Becomes(t, WithRoot(open, slot.root, op.base, op.prev))
    BY <1>11 DEF open
  <2>3. open.root \in {0, op.base.id}
    BY <1>6, <1>8
  <2> QED
    BY ZenonT(40), <1>1, <1>2, <1>4, <1>5, <1>6, <1>7, <1>8, <1>9, <1>10, <1>11, <2>1, <2>2, <2>3, WithRootGood
<1>12. CASE op.kind = "test"
  <2>1. Becomes(t, Ended(open))
    BY <1>12 DEF open
  <2> QED
    BY <1>8, <1>9, <1>10, <2>1, FailsGood
<1>13. CASE op.kind \notin {"sync", "test"}
  <2> DEFINE o == [op EXCEPT !.pc = "device", !.root = slot.root]
             x == [open EXCEPT !.op = o]
  <2>1. [open EXCEPT !.op.pc = "device", !.op.root = slot.root] = x
    BY <1>1, <1>8 DEF Tab, Op
  <2>2. Becomes(t, x)
    BY <1>13, <2>1 DEF open
  <2>3. /\ o \in Op /\ o.pc = "device" /\ o.kind = op.kind /\ o.profile = op.profile
        /\ o.key = op.key /\ o.prev = op.prev /\ o.base = op.base /\ o.live = op.live
        /\ o.root = slot.root /\ o.drop = op.drop
    BY <1>1, <1>5 DEF Op, Steps
  <2> HIDE DEF o
  <2>4. op.kind = "register"
    BY <1>1, <1>2, <1>13 DEF Prepared, Op, Kinds
  <2>5. Prepared(o) /\ Drafted(o)
    BY <1>1, <1>2, <1>4, <1>6, <2>3, <2>4 DEF Prepared, Drafted, WithBase
  <2>6. /\ x \in Tab /\ Good(x)
        /\ Tags(x) = {Tag(open.keyset), Tag(open.env), Tag(o.prev), Tag(o.base)}
    BY <1>7, <1>8, <1>9, <2>3, <2>4, <2>5, GoOnGood
  <2>7. tabs'[t] = x
    BY <2>2, <2>6, BecomesType
  <2> QED
    BY <1>2, <1>8, <2>3, <2>6, <2>7 DEF Keeps
<1> QED
  BY <1>11, <1>12, <1>13

LEMMA FetchGood ==
  ASSUME TypeOK, NEW t \in Tabs, Good(tabs[t]), Fetch(t) PROVE Keeps(t)
<1> USE OfflineAssumption
<1> DEFINE tab == tabs[t]
           op == tab.op
           rows == Assemble(op.list, op.draft)
           draft == IF op.profile = "STANDARD" THEN SoftwareCopy(op.key, op.req, rows)
                    ELSE HardwareCopy(op.base, op.root, op.req, rows)
           o == [op EXCEPT !.pc = "policy2", !.draft = draft]
           x == [tab EXCEPT !.op = o]
<1>1. /\ tab \in Tab /\ op \in Op /\ op.pc = "fetch" /\ op.base \in Copy /\ op.prev \in Copy
      /\ op.key \in SwKeys /\ op.root \in Roots /\ op.list \in Rows /\ op.draft \in Copy
      /\ op.req \in Requirements /\ server \in Rows
  BY DEF TypeOK, Tab, Op, Fetch, At
<1>2. /\ Calm(tab) /\ Running(tab) /\ Prepared(op) /\ (op.live => tab.sk)
      /\ Tags(tab) \subseteq Known(tab)
      /\ Tag(op.base) \in Known(tab) /\ Tag(op.prev) \in Known(tab)
      /\ Tag(tab.env) \in Known(tab) /\ Tag(tab.keyset) \in Known(tab)
  BY DEF Good, Running, Known, Tags
<1>3. CASE Fails(t)
  BY <1>1, <1>2, <1>3, FailsGood DEF Fails
<1>4. rows \in Rows
  BY <1>1, AssembleType
<1> HIDE DEF rows
<1>5. draft \in Copy
  BY <1>1, <1>4, KeysetTypes
<1> SUFFICES ASSUME Becomes(t, x) PROVE Keeps(t)
  <2>1. [tab EXCEPT !.op.pc = "policy2", !.op.draft = draft] = x
    BY <1>1 DEF Tab, Op
  <2> QED
    BY <1>3, <2>1 DEF Fetch, rows
<1>6. /\ Sound(op.prev) /\ Sound(op.base) /\ op.kind = "sync"
      /\ op.profile = "STANDARD" => op.key # 0
      /\ op.profile # "STANDARD" =>
           /\ op.base.id # 0 /\ op.base.profile = op.profile /\ op.base.slots # {}
           /\ op.base.rev \in {0, op.prev.rev} /\ op.root = op.base.id /\ KeyedFor(op.base, op.key)
  BY <1>1, <1>2 DEF Prepared, WithBase
<1>7. CASE op.profile = "STANDARD"
  <2>1. /\ draft.id = 0 /\ draft.slots = {} /\ draft.seal # 0 /\ draft.profile = "STANDARD"
    BY <1>1, <1>6, <1>7, StartTypes DEF SoftwareCopy, NoCopy, Copy
  <2>2. SoundAs(draft, TRUE)
    BY <2>1 DEF SoundAs, Hardware
  <2>3. Drafted([op EXCEPT !.pc = "policy2", !.draft = draft])
    <3> HIDE DEF draft
    <3>1. /\ o.pc = "policy2" /\ o.kind = op.kind /\ o.profile = op.profile /\ o.draft = draft
      BY <1>1, <1>5 DEF Op
    <3> HIDE DEF o
    <3> QED
      BY <1>6, <1>7, <2>1, <2>2, <3>1 DEF Drafted, o
  <2> QED
    <3> HIDE DEF draft
    <3>1. /\ o \in Op /\ o.pc = "policy2" /\ o.kind = op.kind /\ o.profile = op.profile
          /\ o.key = op.key /\ o.prev = op.prev /\ o.base = op.base /\ o.live = op.live
      BY <1>1, <1>5 DEF Op, Steps
    <3>2. Drafted(o)
      BY <2>3
    <3> HIDE DEF o
    <3>3. Prepared(o)
      BY <1>6, <1>7, <3>1 DEF Prepared, WithBase
    <3>4. /\ x \in Tab /\ Good(x)
          /\ Tags(x) = {Tag(tab.keyset), Tag(tab.env), Tag(o.prev), Tag(o.base)}
      BY <1>1, <1>2, <1>6, <1>7, <3>1, <3>2, <3>3, GoOnGood
    <3>5. tabs'[t] = x
      BY <3>4, BecomesType
    <3> QED
      BY <1>2, <3>1, <3>4, <3>5 DEF Keeps
<1>8. CASE op.profile # "STANDARD"
  <2>1. /\ draft.id = op.base.id /\ draft.slots = op.base.slots /\ draft.seal = op.root
        /\ draft.profile = op.profile
    BY <1>1, <1>4, <1>6, <1>8 DEF HardwareCopy, Copy
  <2> HIDE DEF draft
  <2>2. SoundAs(draft, TRUE)
    BY <1>6, <1>8, <2>1 DEF Sound, SoundAs, Hardware
  <2>3. /\ o \in Op /\ o.pc = "policy2" /\ o.kind = op.kind /\ o.profile = op.profile
        /\ o.key = op.key /\ o.prev = op.prev /\ o.base = op.base /\ o.live = op.live
        /\ o.root = op.root /\ o.draft = draft
    BY <1>1, <1>5 DEF Op, Steps
  <2> HIDE DEF o
  <2>4. Prepared(o)
    BY <1>6, <1>8, <2>3 DEF Prepared, WithBase
  <2>5. Drafted(o)
    BY <1>6, <1>8, <2>1, <2>2, <2>3 DEF Drafted
  <2>6. tab.root \in {0, op.base.id}
    BY <1>1, <1>2, <1>6, <1>8 DEF Running
  <2>7. /\ x \in Tab /\ Good(x)
        /\ Tags(x) = {Tag(tab.keyset), Tag(tab.env), Tag(o.prev), Tag(o.base)}
    BY <1>1, <1>2, <1>6, <2>3, <2>4, <2>5, <2>6, GoOnGood
  <2>8. tabs'[t] = x
    BY <2>7, BecomesType
  <2> QED
    BY <1>2, <2>3, <2>7, <2>8 DEF Keeps
<1> QED
  BY <1>7, <1>8

\* A further key: the same root key under one more slot.
LEMMA RegisteredSound ==
  ASSUME NEW c \in Copy, NEW hw \in HwKeys, NEW key \in SwKeys,
         Sound(c), c.id # 0, KeyedFor(c, key), c.profile = "COMBINED" => key # 0
  PROVE  LET d == Registered(c, hw, key, c.id)
         IN  /\ d \in Copy /\ Sound(d) /\ d.id = c.id /\ d.profile = c.profile /\ d.rev = c.rev
             /\ d.slots # {} /\ KeyedFor(d, key) /\ SoundAs(d, FALSE)
<1> DEFINE new == [hw |-> hw, sw |-> SlotKey(c.profile, key), root |-> c.id]
           d == Registered(c, hw, key, c.id)
<1>1. d \in Copy
  <2>1. c.id \in Roots
    BY DEF Copy, Roots
  <2> QED
    BY <2>1, KeysetTypes
<1>2. /\ d.id = c.id /\ d.profile = c.profile /\ d.rev = c.rev /\ d.seal = c.seal
      /\ d.slots = c.slots \cup {new}
  BY DEF Registered, Copy
<1>3. new.sw = SlotKey(c.profile, key) /\ new.root = c.id
  OBVIOUS
<1>4. \A s \in c.slots : s.sw = SlotKey(c.profile, key) /\ s.root = c.id
  BY DEF KeyedFor, Sound, SoundAs
<1>5. c.profile = "COMBINED" <=> SlotKey(c.profile, key) # 0
  BY DEF SlotKey
<1> HIDE DEF new, d
<1>6. \A s \in d.slots : s.sw = SlotKey(d.profile, key) /\ s.root = d.id
  BY <1>2, <1>3, <1>4
<1> QED
  BY <1>1, <1>2, <1>5, <1>6 DEF Sound, SoundAs, KeyedFor, Hardware, d

\* A rotation: another root key, under a slot for each key that stays.
LEMMA RotatedSound ==
  ASSUME NEW c \in Copy, NEW drop \in SUBSET HwKeys, NEW key \in SwKeys, NEW id \in 0 .. MaxKeysets,
         Sound(c), c.id # 0, id # 0, \E s \in c.slots : s.hw \notin drop,
         c.profile = "COMBINED" => key # 0
  PROVE  LET d == Rotated(c, drop, key, id)
         IN  /\ d \in Copy /\ d.id = id /\ d.profile = c.profile /\ d.rev = c.rev
             /\ d.slots # {} /\ KeyedFor(d, key) /\ SoundAs(d, FALSE)
<1> USE OfflineAssumption
<1> DEFINE d == Rotated(c, drop, key, id)
<1>1. d \in Copy
  BY KeysetTypes DEF Roots
<1>2. /\ d.id = id /\ d.profile = c.profile /\ d.rev = c.rev
      /\ d.slots = {[hw |-> s.hw, sw |-> SlotKey(c.profile, key), root |-> id] :
                     s \in {s \in c.slots : s.hw \notin drop}}
  BY DEF Rotated, Copy
<1> HIDE DEF d
<1>3. \A s \in d.slots : s.sw = SlotKey(d.profile, key) /\ s.root = d.id
  BY <1>2
<1>4. d.slots # {}
  BY <1>2
<1>5. c.profile = "COMBINED" <=> SlotKey(c.profile, key) # 0
  BY DEF SlotKey
<1>6. Hardware(d)
  BY <1>2 DEF Sound, SoundAs, Hardware
<1> QED
  BY <1>1, <1>2, <1>3, <1>4, <1>5, <1>6 DEF SoundAs, KeyedFor, d

\* What a tab knows, and the identity it just drew.
Learned(t) == Known(tabs[t]) \cup (IF ids' = ids THEN {} ELSE {<<0, ids'>>})

LEMMA NewKeysetGood ==
  ASSUME TypeOK, NEW t \in Tabs, Good(tabs[t]), NEW c \in Copy, NEW root \in Roots, NEW b \in BOOLEAN,
         tabs[t].op.pc = "device", tabs[t].op.kind \in {"register", "remove"},
         SessionOk(tabs[t]) =>
           /\ SoundAs(c, FALSE) /\ c.id = root /\ root # 0 /\ c.slots # {}
           /\ c.profile = tabs[t].op.profile /\ KeyedFor(c, tabs[t].op.key)
           /\ b => tabs[t].op.base.rev # 0
           /\ tabs[t].op.kind = "register" => c.id = tabs[t].op.base.id
           /\ tabs[t].op.kind = "remove" => <<0, c.id>> \in Learned(t)
           /\ ~b => Sound(c) /\ Tag(c) \in Learned(t),
         Becomes(t, NewKeyset(tabs[t], c, root, b))
  PROVE  Learns(t)
<1> DEFINE tab == tabs[t]
           op == tab.op
<1>1. tab \in Tab /\ op \in Op
  BY DEF TypeOK, Tab
<1>2. /\ Calm(tab) /\ Prepared(op) /\ (op.live => tab.sk)
      /\ Tags(tab) \subseteq Learned(t) /\ <<0, 0>> \in Learned(t) /\ Known(tab) \subseteq Learned(t)
      /\ Tag(op.base) \in Learned(t) /\ Tag(op.prev) \in Learned(t)
      /\ Tag(tab.env) \in Learned(t) /\ Tag(tab.keyset) \in Learned(t)
  BY DEF Good, Running, Known, Tags, Learned
<1>3. CASE Becomes(t, Ended(tab))
  <2>1. Tags(tab) \subseteq Known(tab)
    BY DEF Known
  <2> QED
    BY <1>1, <1>2, <1>3, <2>1, FailsGood DEF Keeps, Learns, Learned
<1> SUFFICES ASSUME SessionOk(tab) PROVE Learns(t)
  BY <1>3 DEF NewKeyset
<1>4. op.live /\ tab.sk /\ tab.key = op.key /\ tab.profile = op.profile
  BY <1>2 DEF SessionOk
<1>5. CASE b /\ Becomes(t, [tab EXCEPT !.op.pc = "seal", !.op.draft = c, !.op.root = root])
  <2> DEFINE o == [op EXCEPT !.pc = "seal", !.draft = c, !.root = root]
             x == [tab EXCEPT !.op = o]
  <2>1. [tab EXCEPT !.op.pc = "seal", !.op.draft = c, !.op.root = root] = x
    BY <1>1 DEF Tab, Op
  <2>2. Becomes(t, x)
    BY <1>5, <2>1
  <2>3. /\ o \in Op /\ o.pc = "seal" /\ o.kind = op.kind /\ o.profile = op.profile
        /\ o.key = op.key /\ o.prev = op.prev /\ o.base = op.base /\ o.live = op.live
        /\ o.root = root /\ o.draft = c
    BY <1>1 DEF Op, Steps
  <2> HIDE DEF o
  <2>4. Prepared(o)
    BY <1>2, <2>3 DEF Prepared, WithBase
  <2>5. Drafted(o)
    BY <1>5, <2>3 DEF Drafted
  <2>6. /\ x \in Tab /\ Good(x)
        /\ Tags(x) = {Tag(tab.keyset), Tag(tab.env), Tag(o.prev), Tag(o.base)} \cup
                     (IF o.kind = "remove" /\ o.pc \in {"seal", "policy2"}
                      THEN {<<0, o.draft.id>>} ELSE {})
    BY <1>1, <1>2, <2>3, <2>4, <2>5, GoOnGood
  <2>7. Tags(x) \subseteq Learned(t)
    BY <1>2, <2>3, <2>6
  <2>8. tabs'[t] = x
    BY <2>2, <2>6, BecomesType
  <2> QED
    BY <2>6, <2>7, <2>8 DEF Learns, Learned
<1>6. CASE ~b /\ Becomes(t, Ended([tab EXCEPT !.root = root, !.keyset = c]))
  <2> DEFINE x == [tab EXCEPT !.root = root, !.keyset = c]
  <2>1. /\ x \in Tab /\ x.op = op /\ x.keyset = c /\ x.root = root /\ x.env = tab.env
        /\ x.sk = tab.sk /\ x.key = tab.key /\ x.profile = tab.profile
    BY <1>1 DEF Tab
  <2>2. Becomes(t, Ended(x))
    BY <1>6
  <2> HIDE DEF x
  <2>3. Calm(x)
    BY <1>2, <1>4, <1>6, <2>1 DEF Calm
  <2>4. Good(Ended(x)) /\ Tags(Ended(x)) \subseteq {Tag(x.keyset), Tag(x.env), <<0, 0>>}
    BY <2>1, <2>3, EndGood
  <2>5. tabs'[t] = Ended(x)
    BY <2>1, <2>2, TabTypes, BecomesType
  <2> QED
    BY <1>2, <1>6, <2>1, <2>4, <2>5 DEF Learns, Learned
<1> QED
  BY <1>3, <1>5, <1>6 DEF NewKeyset

\* A new key, or the rotation after a key was removed.  A copy the tab knows
\* under the same identity makes the keys those of a copy.
LEMMA DeviceGood ==
  ASSUME TypeOK, NEW t \in Tabs, Good(tabs[t]), Device(t),
         tabs[t].env.rev # 0 /\ tabs[t].env.id = tabs[t].op.base.id /\ tabs[t].op.base.id # 0 =>
           tabs[t].op.base.rev # 0
  PROVE  Learns(t)
<1> USE OfflineAssumption
<1> DEFINE tab == tabs[t]
           op == tab.op
           key == Held(op, op.key)
           oproot == Held(op, op.root)
<1>1. /\ tab \in Tab /\ op \in Op /\ op.pc = "device" /\ op.base \in Copy
      /\ op.key \in SwKeys /\ op.root \in Roots /\ op.drop \in SUBSET HwKeys
      /\ key \in SwKeys /\ oproot \in Roots /\ ids \in Nat
  BY DEF TypeOK, Tab, Op, Device, At, Held, SwKeys, Roots
<1>2. /\ Calm(tab) /\ Prepared(op) /\ Tags(tab) \subseteq Known(tab)
      /\ Tag(op.base) \in Known(tab)
  BY DEF Good, Running, Known, Tags
<1>3. CASE Fails(t)
  BY <1>1, <1>2, <1>3, FailsGood DEF Fails, Keeps, Learns
<1>4. /\ Sound(op.base) /\ op.base.id # 0 /\ op.base.profile = op.profile /\ op.profile # "STANDARD"
      /\ op.kind \in {"register", "remove"}
  BY <1>1, <1>2 DEF Prepared, WithBase
<1>5. SessionOk(tab) => key = op.key /\ oproot = op.root
  BY DEF SessionOk, Held
<1> HIDE DEF key, oproot
<1>6. ASSUME NEW hw \in HwKeys, op.kind = "register",
             Becomes(t, NewKeyset(tab, Registered(op.base, hw, key, oproot), op.root,
                                  tab.env.rev # 0 /\ tab.env.id = op.base.id))
      PROVE  Learns(t)
  <2> DEFINE d == Registered(op.base, hw, key, oproot)
             b == tab.env.rev # 0 /\ tab.env.id = op.base.id
  <2>1. d \in Copy
    BY <1>1, KeysetTypes
  <2>2. (op.profile = "COMBINED" => op.key # 0) /\ op.root = op.base.id /\ KeyedFor(op.base, op.key)
    BY <1>1, <1>2, <1>6 DEF Prepared
  <2>3. SessionOk(tab) =>
          /\ Sound(d) /\ d.id = op.base.id /\ d.profile = op.profile /\ d.rev = op.base.rev
          /\ d.slots # {} /\ KeyedFor(d, op.key) /\ SoundAs(d, FALSE)
    <3> SUFFICES ASSUME SessionOk(tab)
                 PROVE  /\ Sound(d) /\ d.id = op.base.id /\ d.profile = op.profile
                        /\ d.rev = op.base.rev /\ d.slots # {} /\ KeyedFor(d, op.key)
                        /\ SoundAs(d, FALSE)
      OBVIOUS
    <3>1. KeyedFor(op.base, key) /\ oproot = op.base.id /\ (op.base.profile = "COMBINED" => key # 0)
      BY <1>4, <1>5, <2>2
    <3>2. /\ Sound(d) /\ d.id = op.base.id /\ d.profile = op.base.profile
          /\ d.rev = op.base.rev /\ d.slots # {} /\ KeyedFor(d, key)
          /\ SoundAs(d, FALSE)
      <4> DEFINE e == Registered(op.base, hw, key, op.base.id)
      <4>1. d = e
        BY <3>1
      <4>2. /\ Sound(e) /\ e.id = op.base.id /\ e.profile = op.base.profile
            /\ e.rev = op.base.rev /\ e.slots # {} /\ KeyedFor(e, key) /\ SoundAs(e, FALSE)
        BY <1>1, <1>4, <3>1, RegisteredSound, ZenonT(60)
      <4> HIDE DEF d, e
      <4> QED
        BY <4>1, <4>2
    <3> HIDE DEF d
    <3> QED
      BY <1>4, <1>5, <3>2
  <2>4. b \in BOOLEAN /\ (b => op.base.rev # 0)
    BY <1>4
  <2>5. Becomes(t, NewKeyset(tab, d, op.root, b))
    BY <1>6
  <2>6. op.base.rev \in Nat
    BY <1>1 DEF Copy
  <2> HIDE DEF d, b
  <2>7. SessionOk(tab) => Tag(d) \in Learned(t)
    BY <1>2, <2>3 DEF Learned, Tag
  <2> QED
    BY <1>1, <1>4, <1>6, <2>1, <2>2, <2>3, <2>4, <2>5, <2>7, NewKeysetGood
<1>7. ASSUME op.kind = "remove", ids < MaxKeysets, ids' = ids + 1,
             Becomes(t, NewKeyset(tab, Rotated(op.base, op.drop, key, ids + 1), ids + 1, op.base.rev # 0)),
             \A s \in op.base.slots : s.hw \notin op.drop => Unlocks(op.base, s, key)
      PROVE  Learns(t)
  <2> DEFINE d == Rotated(op.base, op.drop, key, ids + 1)
             b == op.base.rev # 0
  <2>1. /\ ids + 1 \in 0 .. MaxKeysets /\ ids + 1 \in Roots /\ ids + 1 # 0
        /\ ids' = ids + 1 /\ ids' # ids
    BY <1>1, <1>7 DEF Roots
  <2>2. \E s \in op.base.slots : s.hw \notin op.drop
    BY <1>1, <1>2, <1>7 DEF Prepared
  <2>3. op.base.profile = "COMBINED" => key # 0
    BY <1>4, <1>7, <2>2 DEF Sound, SoundAs, Unlocks, SlotKey
  <2>4. /\ d \in Copy /\ d.id = ids + 1 /\ d.profile = op.profile /\ d.rev = op.base.rev
        /\ d.slots # {} /\ KeyedFor(d, key) /\ SoundAs(d, FALSE)
    <3>1. /\ d \in Copy /\ d.id = ids + 1 /\ d.profile = op.base.profile /\ d.rev = op.base.rev
          /\ d.slots # {} /\ KeyedFor(d, key) /\ SoundAs(d, FALSE)
      BY <1>1, <1>4, <2>1, <2>2, <2>3, RotatedSound
    <3> HIDE DEF d
    <3> QED
      BY <1>4, <3>1
  <2>5. Becomes(t, NewKeyset(tab, d, ids + 1, b)) /\ b \in BOOLEAN
    BY <1>7
  <2> HIDE DEF d
  <2>6. ~b => Sound(d) /\ Tag(d) \in Learned(t)
    BY <2>1, <2>4 DEF Sound, Tag, Learned
  <2>7. <<0, d.id>> \in Learned(t)
    BY <2>1, <2>4 DEF Learned
  <2> HIDE DEF b
  <2>8. b => op.base.rev # 0
    BY DEF b
  <2> QED
    BY <1>1, <1>4, <1>5, <1>7, <2>1, <2>4, <2>5, <2>6, <2>7, <2>8, NewKeysetGood
<1> QED
  BY <1>3, <1>6, <1>7 DEF Device, key, oproot

LEMMA SealGood ==
  ASSUME TypeOK, NEW t \in Tabs, Good(tabs[t]), Seal(t) PROVE Keeps(t)
<1> USE OfflineAssumption
<1> DEFINE tab == tabs[t]
           op == tab.op
           with == IF op.kind = "remove" THEN op.root ELSE Held(op, op.root)
           draft == HardwareCopy(op.draft, with, op.req, op.draft.rows)
           o == [op EXCEPT !.pc = "policy2", !.draft = draft]
           x == [tab EXCEPT !.op = o]
<1>1. /\ tab \in Tab /\ op \in Op /\ op.pc = "seal" /\ op.draft \in Copy /\ op.req \in Requirements
      /\ op.draft.rows \in Rows /\ with \in Roots
  BY DEF TypeOK, Tab, Op, Copy, Seal, At, Held, Roots
<1>2. /\ Calm(tab) /\ Running(tab) /\ Prepared(op) /\ Drafted(op) /\ (op.live => tab.sk)
      /\ Tags(tab) \subseteq Known(tab)
  BY DEF Good, Running, Known
<1>3. op.live => with = op.root
  BY DEF Held
<1> HIDE DEF with
<1>4. /\ draft \in Copy /\ draft.id = op.draft.id /\ draft.slots = op.draft.slots
      /\ draft.seal = with /\ draft.profile = op.draft.profile
  <2>1. 0 \in SwKeys
    BY DEF SwKeys
  <2>2. draft \in Copy
    BY <1>1, <2>1, KeysetTypes
  <2>3. /\ draft.id = op.draft.id /\ draft.slots = op.draft.slots
        /\ draft.seal = with /\ draft.profile = op.draft.profile
    BY <1>1 DEF HardwareCopy, Copy
  <2> QED
    BY <2>2, <2>3
<1>5. Becomes(t, x)
  <2>1. [tab EXCEPT !.op.pc = "policy2", !.op.draft = draft] = x
    BY <1>1 DEF Tab, Op
  <2> QED
    BY <2>1 DEF Seal, with
<1> HIDE DEF draft
<1>6. /\ o \in Op /\ o.pc = "policy2" /\ o.kind = op.kind /\ o.profile = op.profile
      /\ o.key = op.key /\ o.prev = op.prev /\ o.base = op.base /\ o.live = op.live
      /\ o.root = op.root /\ o.draft = draft
  BY <1>1, <1>4 DEF Op, Steps
<1> HIDE DEF o
<1>7. op.kind \in {"register", "remove"}
  BY <1>1, <1>2 DEF Prepared
<1>8. Prepared(o)
  BY <1>2, <1>6, <1>7 DEF Prepared, WithBase
<1>9. Drafted(o)
  BY <1>1, <1>2, <1>3, <1>4, <1>6, <1>7 DEF Drafted, SoundAs, Hardware, KeyedFor
<1>10. /\ x \in Tab /\ Good(x)
       /\ Tags(x) = {Tag(tab.keyset), Tag(tab.env), Tag(o.prev), Tag(o.base)} \cup
                    (IF o.kind = "remove" /\ o.pc \in {"seal", "policy2"}
                     THEN {<<0, o.draft.id>>} ELSE {})
  BY <1>1, <1>2, <1>6, <1>7, <1>8, <1>9, GoOnGood
<1>11. Tags(x) = Tags(tab)
  BY <1>1, <1>4, <1>6, <1>10 DEF Tags
<1>12. tabs'[t] = x
  BY <1>5, <1>10, BecomesType
<1> QED
  BY <1>2, <1>10, <1>11, <1>12 DEF Keeps

LEMMA Policy2Good ==
  ASSUME TypeOK, NEW t \in Tabs, Good(tabs[t]), Policy2(t) PROVE Keeps(t)
<1> DEFINE tab == Answered(t)
           o == [tab.op EXCEPT !.pc = "put", !.late = FALSE]
           x == [tab EXCEPT !.op = o]
<1>1. tabs[t] \in Tab /\ policy \in Policy
  BY DEF TypeOK
<1>2. /\ tab \in Tab /\ tab.op = tabs[t].op /\ Calm(tab) /\ Tags(tab) = Tags(tabs[t])
      /\ tab.root = tabs[t].root
  BY <1>1, SeenGood DEF Answered, Good
<1>3. CASE RefusedByPolicy(t)
  BY <1>3, RefusedGood
<1>4. Tags(tab) \subseteq Known(tabs[t])
  BY <1>2 DEF Known
<1>5. CASE Becomes(t, Ended(tab))
  BY <1>2, <1>4, <1>5, FailsGood
<1>6. CASE SessionOk(tab) /\ Becomes(t, [tab EXCEPT !.op.pc = "put", !.op.late = FALSE])
  <2> HIDE DEF tab
  <2>1. tab.op \in Op /\ tab.op.pc = "policy2"
    BY <1>1, <1>2 DEF Policy2, At, Tab
  <2>2. [tab EXCEPT !.op.pc = "put", !.op.late = FALSE] = x
    BY <1>2, <2>1 DEF Tab, Op
  <2>3. /\ o \in Op /\ o.pc = "put" /\ o.kind = tab.op.kind /\ o.profile = tab.op.profile
        /\ o.key = tab.op.key /\ o.prev = tab.op.prev /\ o.base = tab.op.base /\ o.live = tab.op.live
        /\ o.root = tab.op.root /\ o.draft = tab.op.draft
    BY <2>1 DEF Op, Steps
  <2>4. /\ x \in Tab /\ Calm(x) /\ x.op = o /\ x.sk = tab.sk /\ x.keyset = tab.keyset
        /\ x.env = tab.env /\ x.root = tab.root
        /\ x.mode = tab.mode /\ x.seen = tab.seen /\ x.key = tab.key /\ x.profile = tab.profile
    BY <1>2, <2>3, NewOpGood
  <2>5. Becomes(t, x)
    BY <1>6, <2>2
  <2> HIDE DEF x, o
  <2>6. Prepared(tab.op) /\ Drafted(tab.op) /\ (tab.op.live => tab.sk) /\ tab.op.live
    BY <1>2, <1>6 DEF Good, Running, SessionOk, Answered, tab, Tab
  <2>7. Prepared(o)
    BY <2>1, <2>3, <2>6 DEF Prepared, WithBase
  <2>8. Drafted(o)
    BY <2>1, <2>3, <2>6 DEF Drafted
  <2>9. SessionOk(x)
    BY <1>6, <2>3, <2>4 DEF SessionOk
  <2>10. tab.op.kind = "sync" /\ tab.op.profile # "STANDARD" => tab.root \in {0, tab.op.base.id}
    BY <1>2, <2>1 DEF Good, Running
  <2>11. Running(x)
    BY <2>3, <2>4, <2>6, <2>7, <2>8, <2>9, <2>10 DEF Running
  <2>12. Tags(x) = Tags(tab)
    BY <2>1, <2>3, <2>4 DEF Tags
  <2>13. tabs'[t] = x
    BY <2>4, <2>5, BecomesType
  <2> QED
    BY <1>4, <2>4, <2>11, <2>12, <2>13 DEF Keeps, Good
<1> QED
  BY <1>3, <1>5, <1>6 DEF Policy2

\* A copy is stored: it is sound, it has the identity the operation worked
\* with, and the tab knows no other.
Stored(t) ==
  LET op == tabs[t].op
  IN  /\ Good(tabs'[t])
      /\ tabs[t].op.pc = "put" /\ op.kind \in {"sync", "register", "remove"}
      /\ Sound(store') /\ store'.rev = puts + 1 /\ puts' = puts + 1
      /\ store.rev = Expected(op).rev
      /\ spent' = spent \cup ({store.id} \ {0, store'.id})
      /\ op.kind = "sync" =>
           \/ op.profile = "STANDARD" /\ store'.id = 0
           \/ store'.id = op.base.id /\ op.base.rev \in {0, op.prev.rev}
      /\ op.kind = "register" => store'.id = op.base.id /\ op.base.rev # 0
      /\ op.kind = "remove" => store'.id = op.draft.id /\ store'.id # 0 /\ op.base.rev # 0
      /\ \A g \in Tags(tabs'[t]) :
           g \in {Tag(store'), <<0, 0>>} \/ (g \in Tags(tabs[t]) /\ g[2] = 0)

LEMMA PutGood ==
  ASSUME TypeOK, NEW t \in Tabs, Good(tabs[t]), Put(t)
  PROVE  \/ Keeps(t) /\ UNCHANGED <<store, spent, puts>>
         \/ Stored(t)
<1> USE OfflineAssumption
<1> DEFINE tab == tabs[t]
           op == tab.op
           stored == [op.draft EXCEPT !.rev = puts + 1,
                                      !.born = IF op.kind = "sync" THEN puts + 1 ELSE @]
           kept == [tab EXCEPT !.env = stored]
           ofSync == [kept EXCEPT !.changed = FALSE,
                                  !.keyset = IF Hardware(stored) THEN stored ELSE @]
           ofKeys == [kept EXCEPT !.root = op.root, !.keyset = stored]
           Clean == /\ Good(tabs'[t])
                    /\ \A g \in Tags(tabs'[t]) :
                         g \in {Tag(store'), <<0, 0>>} \/ (g \in Tags(tabs[t]) /\ g[2] = 0)
<1>1. /\ tab \in Tab /\ op \in Op /\ op.pc = "put" /\ op.draft \in Copy /\ op.root \in Roots
      /\ puts \in Nat /\ op.profile \in AllProfiles /\ op.kind \in Kinds
      /\ op.base \in Copy /\ tab.keyset \in Copy
  BY DEF TypeOK, Tab, Op, Put, At
<1>2. /\ Calm(tab) /\ Running(tab) /\ Prepared(op) /\ Drafted(op) /\ (op.live => tab.sk)
      /\ SessionOk(tab) \/ tab.keyset.id = 0
      /\ Tags(tab) \subseteq Known(tab)
  BY <1>1 DEF Good, Running, Known
<1>3. CASE Fails(t) /\ UNCHANGED <<store, spent, puts>>
  BY <1>1, <1>2, <1>3, FailsGood DEF Fails
<1> SUFFICES ASSUME SameSnapshot(store, Expected(op)), puts < MaxPuts,
                    store' = stored, puts' = puts + 1,
                    spent' = spent \cup ({store.id} \ {0, stored.id}),
                    Becomes(t, Ended(IF ~SessionOk(tab) THEN kept
                                     ELSE IF op.kind = "sync" THEN ofSync ELSE ofKeys))
             PROVE  Stored(t)
  BY <1>3 DEF Put
<1>4. op.kind \in {"sync", "register", "remove"}
  BY <1>1, <1>2 DEF Prepared, Kinds
<1>5. puts + 1 \in 0 .. MaxPuts
  BY <1>1
<1>6. /\ stored \in Copy /\ stored.rev = puts + 1 /\ stored.id = op.draft.id
      /\ stored.slots = op.draft.slots /\ stored.seal = op.draft.seal
      /\ stored.profile = op.draft.profile
  BY <1>1, <1>5 DEF Copy
<1> HIDE DEF stored
<1>7. SoundAs(op.draft, TRUE) /\ op.draft.profile = op.profile
  BY <1>1, <1>2, <1>4 DEF Drafted
<1>8. Sound(stored) /\ (Hardware(stored) => stored.slots # {})
  BY <1>1, <1>6, <1>7 DEF Sound, SoundAs, Hardware
<1>9. /\ kept \in Tab /\ kept.op = op /\ kept.env = stored /\ kept.keyset = tab.keyset
      /\ kept.root = tab.root /\ kept.sk = tab.sk /\ kept.key = tab.key
      /\ kept.profile = tab.profile /\ kept.shown = tab.shown
  BY <1>1, <1>6 DEF Tab
<1> HIDE DEF kept
<1>10. /\ ofSync \in Tab /\ ofSync.env = stored /\ ofSync.sk = tab.sk /\ ofSync.key = tab.key
       /\ ofSync.keyset = IF Hardware(stored) THEN stored ELSE tab.keyset
       /\ ofSync.root = tab.root /\ ofSync.profile = tab.profile
  BY <1>1, <1>6, <1>9 DEF Tab
<1>11. /\ ofKeys \in Tab /\ ofKeys.env = stored /\ ofKeys.sk = tab.sk /\ ofKeys.key = tab.key
       /\ ofKeys.keyset = stored /\ ofKeys.root = op.root /\ ofKeys.profile = tab.profile
  BY <1>1, <1>6, <1>9 DEF Tab
<1> HIDE DEF ofSync, ofKeys
<1>12. ASSUME NEW x \in Tab, Calm(x), x.env = stored, Becomes(t, Ended(x)),
              x.keyset = stored \/ (x.keyset = tab.keyset /\ x.keyset.id = 0)
       PROVE  Clean
  <2>1. Good(Ended(x)) /\ Tags(Ended(x)) \subseteq {Tag(x.keyset), Tag(x.env), <<0, 0>>}
    BY <1>12, EndGood
  <2>2. tabs'[t] = Ended(x)
    BY <1>12, TabTypes, BecomesType
  <2>3. x.keyset = stored \/ (Tag(x.keyset) \in Tags(tab) /\ Tag(x.keyset)[2] = 0)
    BY <1>12 DEF Tags, Tag
  <2> QED
    BY <1>12, <2>1, <2>2, <2>3
<1> HIDE DEF Clean
<1>13. ASSUME ~SessionOk(tab) PROVE Clean
  <2>1. Calm(kept)
    BY <1>2, <1>8, <1>9 DEF Calm
  <2>2. kept.keyset.id = 0
    BY <1>2, <1>9, <1>13
  <2>3. Becomes(t, Ended(kept))
    BY <1>13
  <2> QED
    BY <1>9, <1>12, <2>1, <2>2, <2>3
<1>14. ASSUME SessionOk(tab), op.kind = "sync" PROVE Clean
  <2>1. tab.key = op.key /\ tab.profile = op.profile /\ tab.sk
    BY <1>2, <1>14 DEF SessionOk
  <2>2. Becomes(t, Ended(ofSync))
    BY <1>14
  <2>3. CASE Hardware(stored)
    <3>1. /\ op.profile # "STANDARD" /\ stored.id = op.base.id /\ stored.slots = op.base.slots
          /\ stored.profile = op.profile
      BY <1>1, <1>2, <1>6, <1>7, <1>14, <2>3 DEF Drafted, Hardware
    <3>2. KeyedFor(op.base, op.key) /\ op.base.profile = op.profile
      BY <1>1, <1>2, <1>14, <3>1 DEF Prepared, WithBase
    <3>3. tab.root \in {0, op.base.id}
      BY <1>1, <1>2, <1>14, <3>1 DEF Running
    <3>4. KeyedFor(stored, tab.key)
      BY <2>1, <3>1, <3>2 DEF KeyedFor
    <3>5. Calm(ofSync)
      BY <1>2, <1>8, <1>10, <2>1, <2>3, <3>1, <3>3, <3>4 DEF Calm
    <3> QED
      BY <1>10, <1>12, <2>2, <2>3, <3>5
  <2>4. CASE ~Hardware(stored)
    <3>1. tab.profile = "STANDARD"
      BY <1>6, <1>7, <2>1, <2>4 DEF Hardware
    <3>2. tab.keyset.id = 0
      BY <1>2, <3>1 DEF Calm, Sound, SoundAs, Hardware
    <3>3. Calm(ofSync)
      BY <1>2, <1>8, <1>10, <2>1, <2>4 DEF Calm
    <3> QED
      BY <1>10, <1>12, <2>2, <2>4, <3>2, <3>3
  <2> QED
    BY <2>3, <2>4
<1>15. ASSUME SessionOk(tab), op.kind # "sync" PROVE Clean
  <2>1. tab.key = op.key /\ tab.profile = op.profile /\ tab.sk
    BY <1>2, <1>15 DEF SessionOk
  <2>2. Becomes(t, Ended(ofKeys))
    BY <1>15
  <2>3. /\ stored.id = op.root /\ stored.slots # {} /\ KeyedFor(op.draft, op.key)
    BY <1>1, <1>2, <1>6, <1>15 DEF Drafted
  <2>4. KeyedFor(stored, tab.key) /\ stored.profile = tab.profile
    BY <1>6, <1>7, <2>1, <2>3 DEF KeyedFor
  <2>5. Calm(ofKeys)
    BY <1>2, <1>8, <1>11, <2>1, <2>3, <2>4 DEF Calm
  <2> QED
    BY <1>11, <1>12, <2>2, <2>5
<1>16. op.kind = "sync" =>
         \/ op.profile = "STANDARD" /\ stored.id = 0
         \/ stored.id = op.base.id /\ op.base.rev \in {0, op.prev.rev}
  <2>1. op.profile = "STANDARD" => stored.id = 0
    BY <1>6, <1>7 DEF SoundAs, Hardware
  <2> QED
    BY <1>1, <1>2, <1>6, <2>1 DEF Drafted, Prepared
<1>17. /\ op.kind = "register" => stored.id = op.base.id /\ op.base.rev # 0
       /\ op.kind = "remove" => stored.id = op.draft.id /\ stored.id # 0 /\ op.base.rev # 0
  BY <1>1, <1>2, <1>6 DEF Drafted
<1>18. store.rev = Expected(op).rev
  BY DEF SameSnapshot
<1> QED
  BY <1>1, <1>4, <1>6, <1>8, <1>13, <1>14, <1>15, <1>16, <1>17, <1>18 DEF Stored, Clean

-----------------------------------------------------------------------------
(* Identities: whose keys are in use, given up, or not yet of any copy.    *)

\* The record, and the identities that stored copies have had.
Shared ==
  /\ Sound(store) /\ (store.rev = 0 => store = NoCopy)
  /\ store.rev <= puts /\ store.id <= ids
  /\ spent \subseteq 1 .. ids /\ store.id \notin spent

\* A set of keys that a tab knows: without a copy no other has had its
\* identity; with one it is the record's, or given up.
InUse(g) ==
  IF g[1] = 0 THEN g[2] # 0 => g[2] \in (1 .. ids) \ (spent \cup {store.id})
  ELSE /\ g[2] \in spent \cup {0, store.id} /\ g[1] <= puts
       /\ g[1] = store.rev => g[2] = store.id

\* No two tabs know the same identity that no copy has had.
Apart == \A t, u \in Tabs : t # u =>
           \A g \in Tags(tabs[t]) \cap Tags(tabs[u]) : g[1] = 0 => g[2] = 0

TabsGood == \A t \in Tabs : Good(tabs[t])
TabsInUse == \A t \in Tabs : \A g \in Tags(tabs[t]) : InUse(g)

Identities == Shared /\ TabsGood /\ TabsInUse /\ Apart

\* What a tab knows is a revision and an identity.
LEMMA TagTypes ==
  ASSUME TypeOK
  PROVE  /\ store.rev \in Nat /\ store.id \in Nat /\ puts \in Nat /\ ids \in Nat
         /\ \A t \in Tabs : \A g \in Tags(tabs[t]) :
              g = <<g[1], g[2]>> /\ g[1] \in Nat /\ g[2] \in Nat
<1> USE OfflineAssumption
<1>1. store.rev \in Nat /\ store.id \in Nat /\ puts \in Nat /\ ids \in Nat
  BY DEF TypeOK, Copy
<1>2. ASSUME NEW t \in Tabs, NEW g \in Tags(tabs[t])
      PROVE  g = <<g[1], g[2]>> /\ g[1] \in Nat /\ g[2] \in Nat
  <2>1. /\ tabs[t].keyset \in Copy /\ tabs[t].env \in Copy
        /\ tabs[t].op.prev \in Copy /\ tabs[t].op.base \in Copy /\ tabs[t].op.draft \in Copy
    BY DEF TypeOK, Tab, Op
  <2>2. \A c \in Copy : c.rev \in Nat /\ c.id \in Nat
    BY DEF Copy
  <2>3. \/ g \in {<<c.rev, c.id>> : c \in {tabs[t].keyset, tabs[t].env, tabs[t].op.prev, tabs[t].op.base}}
        \/ g = <<0, tabs[t].op.draft.id>>
    BY DEF Tags, Tag
  <2> QED
    BY <2>1, <2>2, <2>3
<1> QED
  BY <1>1, <1>2

\* A tab that goes on with what it knows, and draws at most the next identity.
LEMMA LearnsIdentities ==
  ASSUME TypeOK, Identities, NEW t \in Tabs, Learns(t), \A u \in Tabs : u # t => tabs'[u] = tabs[u],
         UNCHANGED <<store, spent, puts>>, ids' \in {ids, ids + 1}
  PROVE  Identities'
<1>1. Shared'
  BY TagTypes DEF Identities, Shared, Sound, SoundAs, Hardware
<1>2. TabsGood'
  BY DEF Learns, Identities, TabsGood
<1>3. ASSUME NEW g \in Tags(tabs'[t])
      PROVE  \/ g \in Tags(tabs[t]) \/ g = <<0, 0>> \/ (g = Tag(store) /\ store.rev # 0)
             \/ g = <<0, ids'>> /\ ids' = ids + 1
  BY NothingSound DEF Learns, Known, Identities, Shared
<1>4. \A u \in Tabs : \A g \in Tags(tabs[u]) : InUse(g)'
  <2> SUFFICES ASSUME NEW u \in Tabs, NEW g \in Tags(tabs[u]) PROVE InUse(g)'
    OBVIOUS
  <2>1. InUse(g)
    BY DEF Identities, TabsInUse
  <2> QED
    BY <2>1, TagTypes DEF InUse
<1>5. \A g \in Tags(tabs'[t]) : InUse(g)'
  <2> SUFFICES ASSUME NEW g \in Tags(tabs'[t]) PROVE InUse(g)'
    OBVIOUS
  <2>1. CASE g = <<0, 0>>
    BY <2>1 DEF InUse
  <2>2. CASE g = Tag(store) /\ store.rev # 0
    BY <2>2, TagTypes DEF InUse, Tag, Identities, Shared
  <2>3. CASE g = <<0, ids'>> /\ ids' = ids + 1
    BY <2>3, TagTypes DEF InUse, Identities, Shared
  <2> QED
    BY <1>3, <1>4, <2>1, <2>2, <2>3
<1>6. TabsInUse'
  BY <1>4, <1>5 DEF TabsInUse
<1>7. ASSUME NEW u \in Tabs, u # t, NEW g \in Tags(tabs'[t]) \cap Tags(tabs[u]), g[1] = 0
      PROVE  g[2] = 0
  <2>1. InUse(g) /\ g[1] \in Nat /\ g[2] \in Nat
    BY TagTypes DEF Identities, TabsInUse
  <2>2. CASE g \in Tags(tabs[t])
    BY <1>7, <2>2 DEF Identities, Apart
  <2>3. CASE g = Tag(store) /\ store.rev # 0
    BY <1>7, <2>3 DEF Tag
  <2>4. CASE g = <<0, ids + 1>>
    BY <2>1, <2>4, TagTypes DEF InUse
  <2> QED
    BY <1>3, <1>7, <2>2, <2>3, <2>4
<1>8. Apart'
  BY <1>7 DEF Apart, Identities
<1> QED
  BY <1>1, <1>2, <1>6, <1>8 DEF Identities

\* The identities an operation works with are among those its tab knows.
LEMMA OpTags ==
  ASSUME NEW t \in Tabs
  PROVE  /\ Tag(tabs[t].keyset) \in Tags(tabs[t]) /\ Tag(tabs[t].env) \in Tags(tabs[t])
         /\ Tag(tabs[t].op.prev) \in Tags(tabs[t]) /\ Tag(tabs[t].op.base) \in Tags(tabs[t])
         /\ tabs[t].op.kind = "remove" /\ tabs[t].op.pc \in {"seal", "policy2", "put"} =>
              <<0, tabs[t].op.draft.id>> \in Tags(tabs[t])
BY DEF Tags

\* Where a copy is stored: its identity is none, the record's, or one that no
\* copy has had and no other tab knows.
LEMMA StoredIdentity ==
  ASSUME TypeOK, Identities, NEW t \in Tabs, Stored(t)
  PROVE  \/ store'.id = 0
         \/ store'.id = store.id
         \/ <<0, store'.id>> \in Tags(tabs[t])
<1> DEFINE op == tabs[t].op
<1>1. InUse(Tag(op.base)) /\ Tag(op.base) \in Tags(tabs[t])
  BY OpTags DEF Identities, TabsInUse
<1>2. op.base.rev = 0 => <<0, op.base.id>> \in Tags(tabs[t])
  BY <1>1 DEF Tag
<1>3. op.base.rev # 0 /\ op.base.rev = store.rev => op.base.id = store.id
  BY <1>1 DEF InUse, Tag
<1>4. CASE op.kind = "sync"
  BY <1>2, <1>3, <1>4 DEF Stored, Expected
<1>5. CASE op.kind = "register"
  BY <1>3, <1>5 DEF Stored, Expected
<1>6. CASE op.kind = "remove"
  BY <1>6, OpTags DEF Stored
<1> QED
  BY <1>4, <1>5, <1>6 DEF Stored

LEMMA StoredIdentities ==
  ASSUME TypeOK, Identities, NEW t \in Tabs, Stored(t), \A u \in Tabs : u # t => tabs'[u] = tabs[u],
         UNCHANGED ids, store' \in Copy
  PROVE  Identities'
<1>1. /\ store'.rev = puts + 1 /\ puts' = puts + 1 /\ Sound(store')
      /\ spent' = spent \cup ({store.id} \ {0, store'.id}) /\ store'.id \in Nat
  BY DEF Stored, Copy
<1>2. /\ store.rev \in Nat /\ store.id \in Nat /\ puts \in Nat /\ ids \in Nat
      /\ store.rev <= puts /\ store.id <= ids /\ spent \subseteq 1 .. ids /\ store.id \notin spent
  BY TagTypes DEF Identities, Shared
<1>3. \/ store'.id = 0 \/ store'.id = store.id
      \/ <<0, store'.id>> \in Tags(tabs[t]) /\ store'.id \in (1 .. ids) \ (spent \cup {store.id})
  <2>1. <<0, store'.id>> \in Tags(tabs[t]) /\ store'.id # 0 =>
          store'.id \in (1 .. ids) \ (spent \cup {store.id})
    BY DEF Identities, TabsInUse, InUse
  <2> QED
    BY <2>1, StoredIdentity
<1>4. Shared'
  <2>1. store'.rev # 0 /\ store'.rev <= puts' /\ store'.id <= ids'
    BY <1>1, <1>2, <1>3
  <2>2. spent' \subseteq 1 .. ids'
    <3>1. store.id # 0 => store.id \in 1 .. ids
      BY <1>2
    <3> QED
      BY <1>1, <1>2, <3>1
  <2>4. store'.id \notin spent'
    <3>1. store'.id \notin spent
      <4>1. 0 \notin spent
        BY <1>2
      <4> QED
        BY <1>2, <1>3, <4>1
    <3> QED
      BY <1>1, <1>3, <3>1
  <2>3. Sound(store)'
    BY <1>1 DEF Sound, SoundAs, Hardware
  <2> QED
    BY <1>1, <2>1, <2>2, <2>3, <2>4 DEF Shared
<1>5. TabsGood'
  BY DEF Stored, Identities, TabsGood
<1>6. ASSUME NEW u \in Tabs, u # t, NEW g \in Tags(tabs[u]) PROVE InUse(g)'
  <2>1. InUse(g) /\ g[1] \in Nat /\ g[2] \in Nat /\ g = <<g[1], g[2]>>
    BY TagTypes DEF Identities, TabsInUse
  <2>2. CASE g[1] = 0 /\ g[2] # 0
    <3>1. g \notin Tags(tabs[t])
      BY <1>6, <2>2 DEF Identities, Apart
    <3>2. g[2] # store'.id
      BY <1>2, <1>3, <2>1, <2>2, <3>1 DEF InUse
    <3> QED
      BY <1>1, <2>1, <2>2, <3>2 DEF InUse
  <2>3. CASE g[1] # 0
    BY <1>1, <1>2, <2>1, <2>3 DEF InUse
  <2> QED
    BY <2>2, <2>3 DEF InUse
<1>7. ASSUME NEW g \in Tags(tabs'[t]) PROVE InUse(g)'
  <2>1. CASE g = Tag(store')
    BY <1>1, <1>2, <2>1 DEF InUse, Tag
  <2>2. CASE g = <<0, 0>>
    BY <2>2 DEF InUse
  <2>3. CASE g \in Tags(tabs[t]) /\ g[2] = 0
    <3>1. InUse(g) /\ g[1] \in Nat
      BY <2>3, TagTypes DEF Identities, TabsInUse
    <3> QED
      BY <1>1, <1>2, <2>3, <3>1 DEF InUse
  <2> QED
    BY <2>1, <2>2, <2>3 DEF Stored
<1>8. TabsInUse'
  BY <1>6, <1>7 DEF TabsInUse
<1>9. \A g \in Tags(tabs'[t]) : g[1] = 0 => g[2] = 0
  BY <1>1, <1>2 DEF Stored, Tag
<1>10. Apart'
  BY <1>9 DEF Apart, Identities
<1> QED
  BY <1>4, <1>5, <1>8, <1>10 DEF Identities

\* The record is deleted: its keys are given up.
LEMMA WipedIdentities ==
  ASSUME TypeOK, Identities, NEW t \in Tabs, Keeps(t), \A u \in Tabs : u # t => tabs'[u] = tabs[u],
         store' = NoCopy, spent' = spent \cup ({store.id} \ {0}), UNCHANGED <<ids, puts>>
  PROVE  Identities'
<1>1. /\ store.rev \in Nat /\ store.id \in Nat /\ puts \in Nat /\ ids \in Nat
      /\ store.rev <= puts /\ store.id <= ids /\ spent \subseteq 1 .. ids /\ store.id \notin spent
  BY TagTypes DEF Identities, Shared
<1>2. NoCopy.rev = 0 /\ NoCopy.id = 0
  BY DEF NoCopy
<1>3. Shared'
  <2>1. Sound(store)'
    BY NothingSound DEF Sound, SoundAs, Hardware
  <2>2. store.id # 0 => store.id \in 1 .. ids
    BY <1>1
  <2>5. 0 \notin spent
    BY <1>1
  <2>3. 0 \notin spent /\ spent' \subseteq 1 .. ids'
    BY <1>1, <2>2, <2>5
  <2>4. store'.id \notin spent'
    BY <1>2, <2>3
  <2> QED
    BY <1>1, <1>2, <2>1, <2>3, <2>4 DEF Shared
<1>4. TabsGood'
  BY DEF Keeps, Identities, TabsGood
<1>5. ASSUME NEW u \in Tabs, NEW g \in Tags(tabs[u]) PROVE InUse(g)'
  <2>1. InUse(g) /\ g[1] \in Nat /\ g[2] \in Nat
    BY TagTypes DEF Identities, TabsInUse
  <2> QED
    BY <1>1, <1>2, <2>1 DEF InUse
<1>6. ASSUME NEW g \in Tags(tabs'[t])
      PROVE  g \in Tags(tabs[t]) \/ g = <<0, 0>> \/ (g = Tag(store) /\ store.rev # 0)
  BY NothingSound DEF Keeps, Known, Identities, Shared
<1>7. ASSUME NEW g \in Tags(tabs'[t]) PROVE InUse(g)'
  <2>1. CASE g = <<0, 0>>
    BY <2>1 DEF InUse
  <2>2. CASE g = Tag(store) /\ store.rev # 0
    BY <1>1, <1>2, <2>2 DEF InUse, Tag
  <2> QED
    BY <1>5, <1>6, <2>1, <2>2
<1>8. TabsInUse'
  BY <1>5, <1>7 DEF TabsInUse
<1>9. ASSUME NEW u \in Tabs, u # t, NEW g \in Tags(tabs'[t]) \cap Tags(tabs[u]), g[1] = 0
      PROVE  g[2] = 0
  <2>1. CASE g \in Tags(tabs[t])
    BY <1>9, <2>1 DEF Identities, Apart
  <2> QED
    BY <1>6, <1>9, <2>1 DEF Tag
<1>10. Apart'
  BY <1>9 DEF Apart, Identities
<1> QED
  BY <1>3, <1>4, <1>8, <1>10 DEF Identities

\* Whatever changes neither the record nor the operations, but for their being
\* late, leaves the identities as they are.
LEMMA WorldIdentities ==
  ASSUME TypeOK, Identities, SetPolicy \/ (\E s \in Secrets : Edit(s)) \/ Expire \/ UNCHANGED vars
  PROVE  Identities'
<1>1. ASSUME NEW t \in Tabs PROVE Good(tabs'[t]) /\ Tags(tabs'[t]) = Tags(tabs[t])
  <2>1. CASE tabs' = tabs
    BY <1>1, <2>1 DEF Identities, TabsGood
  <2>2. ASSUME NEW b \in BOOLEAN, tabs'[t] = [tabs[t] EXCEPT !.op.late = b]
        PROVE  Good(tabs'[t]) /\ Tags(tabs'[t]) = Tags(tabs[t])
    <3> DEFINE tab == tabs[t]
               x == tabs'[t]
    <3>1. tab \in Tab /\ tab.op \in Op /\ Calm(tab) /\ Running(tab)
      BY DEF TypeOK, Tab, Identities, TabsGood, Good
    <3>2. /\ x.keyset = tab.keyset /\ x.env = tab.env /\ x.sk = tab.sk /\ x.key = tab.key
          /\ x.root = tab.root /\ x.profile = tab.profile /\ x.shown = tab.shown
          /\ x.mode = tab.mode /\ x.seen = tab.seen
      BY <2>2, <3>1 DEF Tab
    <3>3. /\ x.op.kind = tab.op.kind /\ x.op.pc = tab.op.pc /\ x.op.live = tab.op.live
          /\ x.op.profile = tab.op.profile /\ x.op.key = tab.op.key /\ x.op.prev = tab.op.prev
          /\ x.op.base = tab.op.base /\ x.op.drop = tab.op.drop /\ x.op.root = tab.op.root
          /\ x.op.draft = tab.op.draft
      BY <2>2, <3>1 DEF Tab, Op
    <3> HIDE DEF x
    <3>4. Calm(x)
      BY <3>1, <3>2 DEF Calm
    <3>5. Prepared(x.op)
      BY <3>1, <3>3 DEF Running, Prepared, WithBase
    <3>6. Drafted(x.op)
      BY <3>1, <3>3 DEF Running, Drafted
    <3>7. Running(x)
      BY <3>1, <3>2, <3>3, <3>5, <3>6 DEF Running, SessionOk
    <3>8. Tags(x) = Tags(tab)
      BY <3>2, <3>3 DEF Tags
    <3> QED
      BY <3>4, <3>7, <3>8 DEF Good, x
  <2>3. CASE SetPolicy
    <3>1. tabs'[t] = [tabs[t] EXCEPT !.op.late = (@ \/ tabs[t].op.pc = "put")]
      BY <2>3 DEF SetPolicy
    <3>2. (tabs[t].op.late \/ tabs[t].op.pc = "put") \in BOOLEAN
      OBVIOUS
    <3> QED
      BY <2>2, <3>1, <3>2
  <2> QED
    BY <2>1, <2>3 DEF Edit, Expire, vars
<1>2. UNCHANGED <<store, spent, puts, ids>>
  BY DEF SetPolicy, Edit, Expire, vars, outside
<1>3. Shared'
  BY <1>2 DEF Identities, Shared, Sound, SoundAs, Hardware
<1>4. TabsGood'
  BY <1>1 DEF TabsGood
<1>5. TabsInUse'
  BY <1>1, <1>2 DEF Identities, TabsInUse, InUse
<1>6. Apart'
  BY <1>1 DEF Identities, Apart
<1> QED
  BY <1>3, <1>4, <1>5, <1>6 DEF Identities

\* A step of one tab leaves the others as they are.
LEMMA OthersStay ==
  ASSUME TypeOK, NEW t \in Tabs,
         Begin(t) \/ Operation(t) \/ Other(t) \/ Lock(t) \/ Reload(t) \/ BeginRefresh(t)
  PROVE  \A u \in Tabs : u # t => tabs'[u] = tabs[u]
<1>1. ASSUME NEW x, Becomes(t, x) PROVE \A u \in Tabs : u # t => tabs'[u] = tabs[u]
  BY <1>1 DEF Becomes, TypeOK
<1>2. CASE Begin(t)
  BY <1>1, <1>2 DEF Begin, BeginSync, BeginRegister, BeginRemove, BeginTest, Wipe, LoadKey,
                    ChooseProfile
<1>3. CASE Policy1(t) \/ Policy2(t)
  BY <1>1, <1>3 DEF Policy1, Policy2, RefusedByPolicy
<1>4. CASE List(t) \/ Read(t) \/ Root(t) \/ Fetch(t) \/ Seal(t) \/ Put(t)
  BY <1>1, <1>4 DEF List, Read, Root, Fetch, Seal, Put, Fails
<1>5. CASE Device(t)
  BY <1>1, <1>5 DEF Device, Fails
<1>6. CASE Other(t) \/ Lock(t) \/ Reload(t) \/ BeginRefresh(t)
  BY <1>1, <1>6 DEF Other, Start, NoticeCopy, EndRefresh, Pick, OpenOffline, ReopenOffline,
                    Opening, Unlock, Lock, Reload, BeginRefresh
<1> QED
  BY <1>2, <1>3, <1>4, <1>5, <1>6 DEF Operation

\* A key that was registered goes into the copy that its set protects: a set
\* that the tab's copy has is the set of a copy.
LEMMA ProtectsCopy ==
  ASSUME TypeOK, Identities, NEW t \in Tabs,
         tabs[t].env.rev # 0, tabs[t].env.id = tabs[t].op.base.id, tabs[t].op.base.id # 0
  PROVE  tabs[t].op.base.rev # 0
<1>1. InUse(Tag(tabs[t].env)) /\ InUse(Tag(tabs[t].op.base))
  BY OpTags DEF Identities, TabsInUse
<1> QED
  BY <1>1 DEF InUse, Tag

\* A good step of a tab that leaves the record alone.
LEMMA KeepsIdentities ==
  ASSUME TypeOK, Identities, NEW t \in Tabs, Keeps(t), \A u \in Tabs : u # t => tabs'[u] = tabs[u],
         UNCHANGED <<store, spent, puts, ids>>
  PROVE  Identities'
<1>1. Learns(t)
  BY DEF Keeps, Learns
<1> QED
  BY <1>1, LearnsIdentities

\* The first visit of a browser, with or without a copy of an earlier one.
LEMMA IdentitiesInit == Init => Identities
<1> SUFFICES ASSUME Init PROVE Identities
  OBVIOUS
<1>1. \A t \in Tabs : Good(tabs[t]) /\ Tags(tabs[t]) = {<<0, 0>>}
  BY NothingSound DEF Init
<1>2. TabsGood /\ TabsInUse /\ Apart
  BY <1>1 DEF TabsGood, TabsInUse, InUse, Apart
<1>3. ASSUME store = NoCopy PROVE Shared
  <2>1. ids = 0 /\ puts = 0 /\ store.rev = 0 /\ store.id = 0
    BY <1>3 DEF Init, NoCopy
  <2>2. spent = {}
    BY DEF Init
  <2>3. Sound(store)
    BY <1>3, NothingSound
  <2>4. store.rev <= puts /\ store.id <= ids
    BY <2>1
  <2>5. spent \subseteq 1 .. ids /\ store.id \notin spent
    BY <2>2
  <2> QED
    BY <1>3, <2>3, <2>4, <2>5 DEF Shared
<1>4. ASSUME store \in Earlier PROVE Shared
  <2>1. PICK p \in EarlierProfiles :
          store = [NoCopy EXCEPT !.rev = 1, !.born = 1, !.rows = FirstRows, !.profile = p,
                     !.id = IF p = "STANDARD" THEN 0 ELSE 1, !.seal = 1,
                     !.slots = IF p = "STANDARD" THEN {}
                               ELSE {[hw |-> hw, sw |-> IF p = "COMBINED" THEN 1 ELSE 0,
                                      root |-> 1] : hw \in HwKeys}]
    BY <1>4 DEF Earlier
  <2>2. /\ store.rev = 1 /\ store.profile = p /\ store.seal = 1
        /\ store.id = (IF p = "STANDARD" THEN 0 ELSE 1)
        /\ store.slots = (IF p = "STANDARD" THEN {}
                          ELSE {[hw |-> hw, sw |-> IF p = "COMBINED" THEN 1 ELSE 0,
                                 root |-> 1] : hw \in HwKeys})
    BY <2>1 DEF NoCopy
  <2>3. Sound(store)
    <3>1. p \in {"STANDARD", "HARDWARE", "COMBINED"} /\ HwKeys # {}
      BY OfflineAssumption
    <3>2. CASE p = "STANDARD"
      BY <2>2, <3>2 DEF Sound, SoundAs, Hardware
    <3>3. CASE p # "STANDARD"
      <4>1. /\ store.id = 1 /\ store.slots # {}
            /\ \A s \in store.slots : s.root = 1 /\ s.sw = (IF p = "COMBINED" THEN 1 ELSE 0)
        <5>1. /\ store.id = 1
              /\ store.slots = {[hw |-> hw, sw |-> IF p = "COMBINED" THEN 1 ELSE 0,
                                 root |-> 1] : hw \in HwKeys}
          BY <2>2, <3>3
        <5>2. store.slots # {}
          BY <3>1, <5>1
        <5>3. ASSUME NEW s \in store.slots
              PROVE  s.root = 1 /\ s.sw = (IF p = "COMBINED" THEN 1 ELSE 0)
          <6>1. PICK hw \in HwKeys :
                  s = [hw |-> hw, sw |-> IF p = "COMBINED" THEN 1 ELSE 0, root |-> 1]
            BY <5>1
          <6> QED
            BY <6>1
        <5> QED
          BY <5>1, <5>2, <5>3
      <4> QED
        BY <2>2, <3>3, <4>1 DEF Sound, SoundAs, Hardware
    <3> QED
      BY <3>2, <3>3
  <2>4. ids = store.id /\ puts = 1 /\ spent = {} /\ store.id \in {0, 1}
    BY <2>2 DEF Init
  <2>5. store.rev <= puts /\ store.id <= ids
    BY <2>2, <2>4
  <2>6. spent \subseteq 1 .. ids /\ store.id \notin spent
    BY <2>4
  <2> QED
    BY <2>2, <2>3, <2>5, <2>6 DEF Shared
<1> QED
  BY <1>2, <1>3, <1>4 DEF Init, Identities

\* Every step keeps the identities apart and the copies sound.
LEMMA IdentitiesStep ==
  ASSUME Types, Identities, [Next]_vars PROVE Identities'
<1>1. TypeOK /\ ListWithin
  BY DEF Types
<1>2. Sound(store) /\ \A t \in Tabs : Good(tabs[t])
  BY DEF Identities, Shared, TabsGood
<1>3. ASSUME NEW t \in Tabs, Operation(t) PROVE Identities'
  <2>1. \A u \in Tabs : u # t => tabs'[u] = tabs[u]
    BY <1>1, <1>3, OthersStay
  <2>2. Good(tabs[t])
    BY <1>2
  <2>3. ASSUME Keeps(t), UNCHANGED <<store, spent, puts, ids>> PROVE Identities'
    BY <1>1, <2>1, <2>3, KeepsIdentities
  <2>4. ASSUME Learns(t), UNCHANGED <<store, spent, puts>>, ids' \in {ids, ids + 1}
        PROVE  Identities'
    BY <1>1, <2>1, <2>4, LearnsIdentities
  <2>5. CASE Policy1(t)
    <3>1. UNCHANGED <<store, spent, puts>> /\ ids' \in {ids, ids + 1}
      BY <2>5 DEF Policy1, RefusedByPolicy, outside
    <3> QED
      BY <1>1, <2>2, <2>4, <2>5, <3>1, Policy1Good
  <2>6. CASE List(t)
    BY <1>1, <2>2, <2>3, <2>6, ListGood DEF List, outside
  <2>7. CASE Read(t)
    BY <1>1, <1>2, <2>2, <2>3, <2>7, ReadGood DEF Read, outside
  <2>8. CASE Root(t)
    BY <1>1, <2>2, <2>3, <2>8, RootGood DEF Root, outside
  <2>9. CASE Fetch(t)
    BY <1>1, <2>2, <2>3, <2>9, FetchGood DEF Fetch, outside
  <2>10. CASE Device(t)
    <3>1. UNCHANGED <<store, spent, puts>> /\ ids' \in {ids, ids + 1}
      BY <2>10 DEF Device
    <3>2. Learns(t)
      BY <1>1, <2>2, <2>10, ProtectsCopy, DeviceGood
    <3> QED
      BY <2>4, <3>1, <3>2
  <2>11. CASE Seal(t)
    BY <1>1, <2>2, <2>3, <2>11, SealGood DEF Seal, outside
  <2>12. CASE Policy2(t)
    <3>1. UNCHANGED <<store, spent, puts, ids>>
      BY <2>12 DEF Policy2, RefusedByPolicy, outside
    <3> QED
      BY <1>1, <2>2, <2>3, <2>12, <3>1, Policy2Good
  <2>13. CASE Put(t)
    <3>1. store' \in Copy /\ UNCHANGED ids
      BY <1>1, <1>3, <2>13, OperationTyped DEF Typed, Put, outside
    <3>2. CASE Stored(t)
      BY <1>1, <2>1, <3>1, <3>2, StoredIdentities
    <3> QED
      BY <1>1, <2>2, <2>3, <2>13, <3>1, <3>2, PutGood
  <2> QED
    BY <1>3, <2>5, <2>6, <2>7, <2>8, <2>9, <2>10, <2>11, <2>12, <2>13 DEF Operation
<1>4. ASSUME NEW t \in Tabs, Other(t) \/ Lock(t) \/ Reload(t) \/ BeginRefresh(t)
      PROVE  Identities'
  <2>1. UNCHANGED <<store, spent, puts, ids>>
    BY <1>4 DEF Other, Start, NoticeCopy, EndRefresh, Pick, OpenOffline, ReopenOffline, Opening,
                Unlock, Lock, Reload, BeginRefresh, Elsewhere, outside
  <2> QED
    BY <1>1, <1>2, <1>4, <2>1, OtherGood, OthersStay, KeepsIdentities
<1>5. ASSUME NEW t \in Tabs, Begin(t) PROVE Identities'
  <2>1. Keeps(t) /\ \A u \in Tabs : u # t => tabs'[u] = tabs[u]
    BY <1>1, <1>2, <1>5, BeginGood, OthersStay
  <2>2. CASE Wipe(t)
    <3>1. /\ store' = NoCopy /\ spent' = spent \cup ({store.id} \ {0})
          /\ UNCHANGED <<ids, puts>>
      BY <2>2 DEF Wipe, outside
    <3> QED
      BY <1>1, <2>1, <3>1, WipedIdentities
  <2>3. CASE ~Wipe(t)
    <3>1. UNCHANGED <<store, spent, puts, ids>>
      BY <1>5, <2>3 DEF Begin, BeginSync, BeginRegister, BeginRemove, BeginTest, LoadKey,
                        ChooseProfile, Elsewhere, outside
    <3> QED
      BY <1>1, <2>1, <3>1, KeepsIdentities
  <2> QED
    BY <2>2, <2>3
<1>6. ASSUME SetPolicy \/ (\E s \in Secrets : Edit(s)) \/ Expire \/ UNCHANGED vars
      PROVE  Identities'
  BY <1>1, <1>6, WorldIdentities
<1> QED
  BY <1>3, <1>4, <1>5, <1>6 DEF Next, Event

\* Every copy and every set of keys leads to the root key it names, and a set
\* that was given up is known as such.
LEMMA IdentitiesAlways == Spec => [](Types /\ Identities)
<1>1. Init => Types /\ Identities
  BY TypesInit, IdentitiesInit
<1>2. Types /\ Identities /\ [Next]_vars => (Types /\ Identities)'
  BY TypesStep, IdentitiesStep
<1> QED
  BY <1>1, <1>2, PTL DEF Spec

-----------------------------------------------------------------------------
(* What follows for the copy and for a locked tab.                         *)

\* A sound copy opens.
LEMMA SoundOpens ==
  ASSUME Sound(store) PROVE CopyOpens
<1>1. ASSUME store.rev # 0 PROVE store.seal # 0
  BY <1>1 DEF Sound, SoundAs
<1>2. ASSUME store.rev # 0, Hardware(store) PROVE store.slots # {}
  BY <1>2 DEF Sound, SoundAs
<1>3. ASSUME store.rev # 0, NEW s \in store.slots
      PROVE  s.root = store.seal /\ (store.profile = "COMBINED" <=> s.sw # 0)
  <2>1. store.id # 0 /\ Hardware(store)
    BY <1>3 DEF Sound, SoundAs
  <2> QED
    BY <1>3, <2>1 DEF Sound, SoundAs
<1>4. \A s1, s2 \in store.slots : s1.sw = s2.sw
  BY DEF Sound, SoundAs
<1> QED
  BY <1>1, <1>2, <1>3, <1>4 DEF CopyOpens

\* What is stored opens with every key it names, whatever locks, reloads and
\* other tabs come between the steps of an operation.
THEOREM CopyOpensAlways == Spec => []CopyOpens
<1>1. Types /\ Identities => CopyOpens
  BY SoundOpens DEF Identities, Shared
<1> QED
  BY <1>1, IdentitiesAlways, PTL

\* A locked tab holds no key, and an operation that the lock overtook brings
\* none back.
THEOREM LockedKeepsNoKeys == Spec => []LockedHoldsNoKeys
<1>1. Types /\ Identities => LockedHoldsNoKeys
  BY DEF Identities, TabsGood, Good, Calm, LockedHoldsNoKeys
<1> QED
  BY <1>1, IdentitiesAlways, PTL

-----------------------------------------------------------------------------
(* The record implements the shelf.                                        *)

\* The record as the shelf has it.
OnShelf == [there |-> store.rev # 0, keyset |-> store.id, opens |-> CopyOpens]

\* What a copy that opens is on the shelf.
LEMMA ShelfTypes ==
  ASSUME TypeOK, Shared
  PROVE  /\ store.rev = 0 => OnShelf = Shelf!Empty
         /\ store.rev # 0 => OnShelf = [there |-> TRUE, keyset |-> store.id, opens |-> TRUE]
         /\ store.id \in 0 .. MaxKeysets /\ 0 \notin spent
<1>1. CopyOpens = TRUE
  BY SoundOpens DEF Shared
<1>2. store.rev = 0 => store.id = 0
  BY DEF Shared, NoCopy
<1>3. OnShelf = [there |-> store.rev # 0, keyset |-> store.id, opens |-> TRUE]
  BY <1>1 DEF OnShelf
<1>4. store.rev = 0 => OnShelf = Shelf!Empty
  BY <1>2, <1>3 DEF Shelf!Empty
<1>5. store.rev # 0 => OnShelf = [there |-> TRUE, keyset |-> store.id, opens |-> TRUE]
  BY <1>3
<1>6. store.id \in 0 .. MaxKeysets /\ 0 \notin spent
  BY DEF TypeOK, Copy
<1> QED
  BY <1>4, <1>5, <1>6

\* The first visit finds an empty shelf or a copy that opens.
LEMMA ShelfInit == Init => Shelf!Init
<1> SUFFICES ASSUME Init PROVE Shelf!Init
  OBVIOUS
<1>1. TypeOK /\ Shared /\ spent = {}
  BY TypesInit, IdentitiesInit DEF Types, Identities, Init
<1>2. OnShelf \in {Shelf!Empty} \cup Shelf!Copy
  <2>1. CASE store.rev = 0
    BY <1>1, <2>1, ShelfTypes
  <2>2. CASE store.rev # 0
    <3>1. store.id \in 1 .. MaxKeysets \cup {0}
      BY <1>1, ShelfTypes, OfflineAssumption
    <3>2. OnShelf \in Shelf!Copy
      <4>1. OnShelf = [there |-> TRUE, keyset |-> store.id, opens |-> TRUE]
        BY <1>1, <2>2, ShelfTypes
      <4> QED
        BY <3>1, <4>1 DEF Shelf!Copy
    <3> QED
      BY <3>2
  <2> QED
    BY <2>1, <2>2
<1> QED
  BY <1>1, <1>2 DEF Shelf!Init, OnShelf

\* A step changes the record by deleting it, by storing a copy, or not at all.
LEMMA RecordSteps ==
  ASSUME Types, Identities, [Next]_vars
  PROVE  \/ UNCHANGED <<store, spent>>
         \/ \E t \in Tabs : Wipe(t)
         \/ \E t \in Tabs : Stored(t)
<1>1. TypeOK /\ \A t \in Tabs : Good(tabs[t])
  BY DEF Types, Identities, TabsGood
<1>2. ASSUME NEW t \in Tabs, Operation(t), ~Stored(t) PROVE UNCHANGED <<store, spent>>
  <2>1. CASE Put(t)
    BY <1>1, <1>2, <2>1, PutGood
  <2> QED
    BY <1>2, <2>1 DEF Operation, Policy1, RefusedByPolicy, List, Read, Root, Fetch, Device, Seal,
                      Policy2
<1>3. ASSUME NEW t \in Tabs, Other(t) \/ Lock(t) \/ Reload(t) \/ BeginRefresh(t)
      PROVE  UNCHANGED <<store, spent>>
  BY <1>3 DEF Other, Start, NoticeCopy, EndRefresh, Pick, OpenOffline, ReopenOffline, Opening,
              Unlock, Lock, Reload, BeginRefresh, Elsewhere
<1>4. ASSUME NEW t \in Tabs, Begin(t), ~Wipe(t) PROVE UNCHANGED <<store, spent>>
  BY <1>4 DEF Begin, BeginSync, BeginRegister, BeginRemove, BeginTest, LoadKey, ChooseProfile,
              Elsewhere
<1>5. ASSUME SetPolicy \/ (\E s \in Secrets : Edit(s)) \/ Expire \/ UNCHANGED vars
      PROVE  UNCHANGED <<store, spent>>
  BY <1>5 DEF SetPolicy, Edit, Expire, vars
<1> QED
  BY <1>2, <1>3, <1>4, <1>5 DEF Next, Event

\* Every step is one of the shelf, or leaves it alone.
LEMMA ShelfStep ==
  ASSUME Types, Identities, [Next]_vars
  PROVE  [Shelf!Next]_<<OnShelf, spent>>
<1>1. TypeOK /\ Shared
  BY DEF Types, Identities
<1>2. (TypeOK /\ Shared)'
  BY TypesStep, IdentitiesStep DEF Types, Identities
<1>3. /\ store'.rev = 0 => OnShelf' = Shelf!Empty
      /\ store'.rev # 0 => OnShelf' = [there |-> TRUE, keyset |-> store'.id, opens |-> TRUE]
      /\ store'.id \in 0 .. MaxKeysets
  <2>1. /\ (store.rev = 0 => OnShelf = Shelf!Empty)'
        /\ (store.rev # 0 => OnShelf = [there |-> TRUE, keyset |-> store.id, opens |-> TRUE])'
        /\ (store.id \in 0 .. MaxKeysets)'
    BY <1>2, ShelfTypes, PTL
  <2> QED
    BY <2>1 DEF Shelf!Empty
<1>4. OnShelf.keyset = store.id /\ 0 \notin spent
  BY <1>1, ShelfTypes DEF OnShelf
<1>5. CASE UNCHANGED <<store, spent>>
  BY <1>5 DEF OnShelf, CopyOpens, Hardware
<1>6. ASSUME NEW t \in Tabs, Wipe(t) PROVE Shelf!Next
  <2>1. store' = NoCopy /\ spent' = spent \cup ({store.id} \ {0})
    BY <1>6 DEF Wipe
  <2>2. OnShelf' = Shelf!Empty
    BY <1>3, <2>1 DEF NoCopy
  <2>3. spent' = spent \cup ({OnShelf.keyset} \ {0, Shelf!Empty.keyset})
    BY <1>4, <2>1 DEF Shelf!Empty
  <2> QED
    BY <2>2, <2>3 DEF Shelf!Next, Shelf!Wipe, Shelf!GivenUp, OnShelf
<1>7. ASSUME NEW t \in Tabs, Stored(t) PROVE Shelf!Next
  <2> DEFINE c == [there |-> TRUE, keyset |-> store'.id, opens |-> TRUE]
  <2>1. /\ store'.rev = puts + 1 /\ puts \in Nat
        /\ spent' = spent \cup ({store.id} \ {0, store'.id})
    BY <1>1, <1>7, TagTypes DEF Stored
  <2>2. OnShelf' = c
    BY <1>3, <2>1
  <2>3. c \in Shelf!Copy
    <3>1. store'.id \in 1 .. MaxKeysets \cup {0}
      BY <1>3, OfflineAssumption
    <3> QED
      BY <3>1 DEF Shelf!Copy
  <2>4. store'.id \notin spent
    <3>1. CASE store'.id = 0 \/ store'.id = store.id
      BY <1>1, <1>4, <3>1 DEF Shared
    <3>2. CASE <<0, store'.id>> \in Tags(tabs[t])
      <4>1. InUse(<<0, store'.id>>)
        BY <3>2 DEF Identities, TabsInUse
      <4> QED
        BY <1>4, <4>1 DEF InUse
    <3> QED
      BY <1>1, <1>7, <3>1, <3>2, StoredIdentity
  <2>5. spent' = spent \cup ({OnShelf.keyset} \ {0, c.keyset})
    BY <1>4, <2>1
  <2>6. c.keyset \notin spent
    BY <2>4
  <2> HIDE DEF c
  <2>7. Shelf!Replace(c)
    BY <2>2, <2>5, <2>6 DEF Shelf!Replace, Shelf!GivenUp, OnShelf
  <2> QED
    BY <2>3, <2>7 DEF Shelf!Next
<1> QED
  BY <1>5, <1>6, <1>7, RecordSteps

\* The record implements the shelf: whatever the tabs do, it is one copy that
\* opens, and no set of keys that was given up comes back.
THEOREM OfflineImplementsShelf == Spec => ShelfSpec
<1>1. Init => Shelf!Init
  BY ShelfInit
<1>2. Types /\ Identities /\ [Next]_vars => [Shelf!Next]_<<OnShelf, spent>>
  BY ShelfStep
<1> QED
  BY <1>1, <1>2, IdentitiesAlways, PTL DEF Spec, ShelfSpec, Shelf!Spec, OnShelf

-----------------------------------------------------------------------------
(* What a sync stores: rows that are no older than the list it works with, *)
(* under a profile that the server was asked about.                        *)

\* The rows of one list are no newer than those of another.
NoNewer(rows, than) == \A s \in Secrets : rows[s].list <= than[s].list

\* The list of a tab is what the server had, and so is the one that its sync
\* works with; no row of the draft is older.
Follows(tab, rows) ==
  /\ NoNewer(tab.list, rows)
  /\ tab.op.kind = "sync" /\ tab.op.pc \in {"fetch", "policy2", "put"} => NoNewer(tab.op.list, rows)
  /\ tab.op.kind = "sync" /\ tab.op.pc \in {"policy2", "put"} => NoNewer(tab.op.list, tab.op.draft.rows)

\* An operation that is about to store was allowed to, unless it is late.
Asked(op, p) == op.pc = "put" => op.late \/ ProfileAllowed(p, op.profile)

\* A step that plans nothing: what the tab stores stays as it was planned.
Planned(op) == op.pc \in {"fetch", "put"} \/ (op.kind = "sync" /\ op.pc = "policy2")
SameWork(x, op) ==
  /\ x.kind = op.kind /\ x.pc = op.pc /\ x.profile = op.profile /\ x.late = op.late
  /\ x.list = op.list /\ x.draft = op.draft
Aside(t) ==
  /\ tabs'[t].list \in {tabs[t].list, server, NoRows}
  /\ ~Planned(tabs'[t].op) \/ SameWork(tabs'[t].op, tabs[t].op)

\* The rows of lists are numbers.
LEMMA RowTypes ==
  ASSUME TypeOK, NEW t \in Tabs
  PROVE  /\ server \in Rows /\ tabs[t].list \in Rows /\ tabs[t].op.list \in Rows
         /\ tabs[t].op.draft.rows \in Rows /\ NoRows \in Rows
         /\ \A rows \in Rows : \A s \in Secrets : rows[s].list \in Nat
         /\ \A rows \in Rows : NoNewer(NoRows, rows) /\ NoNewer(rows, rows)
<1>1. \A rows \in Rows : \A s \in Secrets : rows[s].list \in Nat
  BY OfflineAssumption DEF Rows, Revision
<1>2. NoRows \in Rows /\ \A s \in Secrets : NoRows[s].list = 0
  BY StartTypes, OfflineAssumption DEF NoRows, Rows, Revision
<1>3. server \in Rows /\ tabs[t].list \in Rows /\ tabs[t].op.list \in Rows
      /\ tabs[t].op.draft.rows \in Rows
  BY DEF TypeOK, Tab, Op, Copy
<1> QED
  BY <1>1, <1>2, <1>3 DEF NoNewer

\* Painting and the end of an operation leave the list alone.
LEMMA EndAside ==
  ASSUME NEW tab \in Tab
  PROVE  /\ Repaint(tab).op = tab.op /\ Repaint(tab).list = tab.list
         /\ Ended(tab) \in Tab /\ Ended(tab).op = NoOp /\ Ended(tab).list = tab.list
         /\ ~Planned(NoOp)
<1> DEFINE x == [tab EXCEPT !.op = NoOp]
<1>1. x \in Tab /\ x.op = NoOp /\ x.list = tab.list
  BY StartTypes DEF Tab
<1> HIDE DEF x
<1>2. Ended(tab).op = NoOp /\ Ended(tab).list = tab.list
  BY <1>1, RepaintGood DEF Ended, x
<1>3. ~Planned(NoOp)
  BY DEF Planned, NoOp
<1> QED
  BY <1>2, <1>3, TabTypes, RepaintGood

\* What a tab becomes, seen from what it stores.
LEMMA BecomesAside ==
  ASSUME TypeOK, NEW t \in Tabs, NEW x \in Tab, Becomes(t, x),
         x.list \in {tabs[t].list, server, NoRows},
         ~Planned(x.op) \/ SameWork(x.op, tabs[t].op)
  PROVE  Aside(t)
BY BecomesType DEF Aside

LEMMA FailsAside ==
  ASSUME TypeOK, NEW t \in Tabs, NEW x \in Tab, Becomes(t, Ended(x)), x.list = tabs[t].list
  PROVE  Aside(t)
BY EndAside, BecomesAside

\* Such a step keeps to the list and to the policy.
LEMMA AsideKeeps ==
  ASSUME TypeOK, NEW t \in Tabs, Follows(tabs[t], server), Asked(tabs[t].op, policy), Aside(t)
  PROVE  Follows(tabs'[t], server) /\ Asked(tabs'[t].op, policy)
<1>1. NoNewer(tabs'[t].list, server)
  BY RowTypes DEF Aside, Follows
<1>2. CASE ~Planned(tabs'[t].op)
  BY <1>1, <1>2 DEF Planned, Follows, Asked
<1>3. CASE SameWork(tabs'[t].op, tabs[t].op)
  BY <1>1, <1>3 DEF SameWork, Follows, Asked
<1> QED
  BY <1>2, <1>3 DEF Aside

\* What a user begins and what happens to a page plan nothing.
LEMMA BeginAside ==
  ASSUME TypeOK, NEW t \in Tabs, Begin(t) PROVE Aside(t)
<1> DEFINE tab == tabs[t]
           r == Repaint(tab)
<1>1. tab \in Tab /\ r \in Tab /\ r.list = tab.list /\ r.op = tab.op
  BY TabTypes, EndAside DEF TypeOK
<1>2. Typed
  BY BeginTyped
<1> HIDE DEF r
<1>3. ASSUME NEW o, o.pc \in {"policy1", "root"}, Becomes(t, [r EXCEPT !.op = o]) PROVE Aside(t)
  <2> DEFINE x == [r EXCEPT !.op = o]
  <2>1. x.op = o /\ x.list = tab.list /\ tabs'[t] = x
    BY <1>1, <1>3 DEF Tab, TypeOK, Becomes
  <2> HIDE DEF x
  <2> QED
    BY <1>3, <2>1 DEF Aside, Planned
<1>4. CASE BeginSync(t)
  <2> DEFINE o == [NoOp EXCEPT !.pc = "policy1", !.live = TRUE, !.profile = r.profile, !.key = r.key]
  <2>1. o.pc = "policy1"
    BY DEF NoOp
  <2>2. Becomes(t, [r EXCEPT !.op = o])
    BY <1>4 DEF BeginSync, r
  <2> HIDE DEF o
  <2> QED
    BY <1>3, <2>1, <2>2
<1>5. CASE BeginRegister(t)
  <2> DEFINE o == [NoOp EXCEPT !.kind = "register", !.pc = "policy1", !.live = TRUE,
                               !.profile = tab.profile, !.key = tab.key]
  <2>1. o.pc = "policy1"
    BY DEF NoOp
  <2>2. Becomes(t, [r EXCEPT !.op = o])
    BY <1>5 DEF BeginRegister, r
  <2> HIDE DEF o
  <2> QED
    BY <1>3, <2>1, <2>2
<1>6. CASE BeginTest(t)
  <2> DEFINE o == [NoOp EXCEPT !.kind = "test", !.pc = "root", !.live = TRUE,
                               !.profile = tab.profile, !.key = tab.key,
                               !.base = CurrentKeyset(tab)]
  <2>1. o.pc = "root"
    BY DEF NoOp
  <2>2. Becomes(t, [r EXCEPT !.op = o])
    BY <1>6 DEF BeginTest, r
  <2> HIDE DEF o
  <2> QED
    BY <1>3, <2>1, <2>2
<1>7. ASSUME NEW hw \in HwKeys, BeginRemove(t, hw) PROVE Aside(t)
  <2> DEFINE o == [NoOp EXCEPT !.kind = "remove", !.pc = "policy1", !.live = TRUE,
                               !.profile = tab.profile, !.key = tab.key,
                               !.base = CurrentKeyset(tab), !.drop = {hw}]
  <2>1. o.pc = "policy1"
    BY DEF NoOp
  <2>2. Becomes(t, [r EXCEPT !.op = o])
    BY <1>7 DEF BeginRemove, r
  <2> HIDE DEF o
  <2> QED
    BY <1>3, <2>1, <2>2
<1>8. ASSUME NEW x \in Tab, x.op = tab.op, x.list = tab.list, tab.op.pc = "idle",
             Becomes(t, x) \/ Becomes(t, Repaint(x))
      PROVE  Aside(t)
  <2>1. Repaint(x) \in Tab /\ Repaint(x).op = tab.op /\ Repaint(x).list = tab.list
    BY <1>8, TabTypes, EndAside
  <2>2. ~Planned(tab.op)
    BY <1>8 DEF Planned
  <2> QED
    BY <1>8, <2>1, <2>2, BecomesAside
<1>9. CASE Wipe(t)
  <2> DEFINE x == [ForgetRoot(tab) EXCEPT !.env = NoCopy, !.profile = "STANDARD", !.changed = FALSE]
  <2>1. x \in Tab /\ x.op = tab.op /\ x.list = tab.list
    BY <1>1, StartTypes, TabTypes DEF ForgetRoot, Tab, AllProfiles
  <2>2. tab.op.pc = "idle" /\ (Becomes(t, Page) \/ Becomes(t, Repaint(x)))
    BY <1>9 DEF Wipe, Idle, At
  <2> HIDE DEF x
  <2>3. Page \in Tab /\ Page.list = NoRows /\ ~Planned(Page.op)
    BY StartTypes, EndAside DEF Page
  <2> QED
    BY <1>8, <2>1, <2>2, <2>3, BecomesAside
<1>10. ASSUME NEW key \in 1 .. MaxSw, LoadKey(t, key) PROVE Aside(t)
  <2> DEFINE x == WithKey(tab, key)
  <2>1. key \in SwKeys
    BY OfflineAssumption DEF SwKeys
  <2>2. x \in Tab /\ x.op = tab.op /\ x.list = tab.list
    BY <1>1, <2>1, TabTypes DEF WithKey, ForgetRoot, Tab
  <2>3. tab.op.pc = "idle" /\ Becomes(t, Repaint(x))
    BY <1>10 DEF LoadKey, Ready, Idle, At
  <2> HIDE DEF x
  <2> QED
    BY <1>8, <2>2, <2>3
<1>11. ASSUME NEW p \in Profiles, ChooseProfile(t, p) PROVE Aside(t)
  <2> DEFINE x == [ForgetRoot(tab) EXCEPT !.profile = p, !.changed = TRUE]
  <2>1. x \in Tab /\ x.op = tab.op /\ x.list = tab.list
    BY <1>1, StartTypes, TabTypes, OfflineAssumption DEF ForgetRoot, Tab, AllProfiles
  <2>2. tab.op.pc = "idle" /\ Becomes(t, x)
    BY <1>11 DEF ChooseProfile, Ready, Idle, At
  <2> HIDE DEF x
  <2> QED
    BY <1>8, <2>1, <2>2
<1> QED
  BY <1>4, <1>5, <1>6, <1>7, <1>9, <1>10, <1>11 DEF Begin

LEMMA OtherAside ==
  ASSUME TypeOK, NEW t \in Tabs, Other(t) \/ Lock(t) \/ Reload(t) \/ BeginRefresh(t)
  PROVE  Aside(t)
<1> DEFINE tab == tabs[t]
<1>1. /\ tab \in Tab /\ tab.op \in Op /\ store \in Copy /\ policy \in Policy /\ server \in Rows
      /\ NoPolicy \in Policy /\ NoRows \in Rows
  BY StartTypes DEF TypeOK, Tab
<1>2. Page \in Tab /\ Page.list = NoRows /\ Page.op = NoOp /\ ~Planned(NoOp)
  BY StartTypes, EndAside DEF Page
<1>3. ASSUME NEW x, Becomes(t, x), x.list \in {tab.list, server, NoRows},
             x.op = NoOp \/ SameWork(x.op, tab.op)
      PROVE  Aside(t)
  BY <1>2, <1>3 DEF Aside, Becomes, TypeOK
<1>4. ASSUME Start(t) PROVE Aside(t)
  <2>1. PICK p \in {policy, NoPolicy} :
          Becomes(t, [Page EXCEPT !.mode = "online", !.loading = TRUE, !.sk = TRUE, !.seen = p])
    BY <1>4 DEF Start
  <2> DEFINE x == [Page EXCEPT !.mode = "online", !.loading = TRUE, !.sk = TRUE, !.seen = p]
  <2>2. x.list = NoRows /\ x.op = NoOp
    BY DEF Page
  <2> HIDE DEF x
  <2> QED
    BY <1>3, <2>1, <2>2 DEF x
<1>5. ASSUME NoticeCopy(t) PROVE Aside(t)
  <2> DEFINE x == [tab EXCEPT !.loading = FALSE, !.list = server, !.env = store]
  <2>1. x \in Tab /\ x.op = tab.op /\ x.list = server
    BY <1>1 DEF Tab
  <2>2. Becomes(t, Repaint(x))
    BY <1>5 DEF NoticeCopy
  <2> HIDE DEF x
  <2>3. Repaint(x).op = tab.op /\ Repaint(x).list = server
    BY <2>1, EndAside
  <2> QED
    BY <1>3, <2>2, <2>3 DEF SameWork
<1>6. ASSUME NEW x, Becomes(t, x), x.op = tab.op, x.list \in {tab.list, server, NoRows}
      PROVE  Aside(t)
  BY <1>3, <1>6 DEF SameWork
<1>7. ASSUME EndRefresh(t) \/ BeginRefresh(t) PROVE Aside(t)
  <2>1. PICK rows \in {server, NoRows} : Becomes(t, [tab EXCEPT !.list = rows])
    BY <1>7 DEF EndRefresh, BeginRefresh
  <2> DEFINE x == [tab EXCEPT !.list = rows]
  <2>2. x.op = tab.op /\ x.list = rows
    BY <1>1 DEF Tab
  <2> HIDE DEF x
  <2> QED
    BY <1>6, <2>1, <2>2 DEF x
<1>8. ASSUME Unlock(t) PROVE Aside(t)
  <2> DEFINE x == [tab EXCEPT !.sk = TRUE]
  <2>1. Becomes(t, x) /\ x.op = tab.op /\ x.list = tab.list
    BY <1>1, <1>8 DEF Unlock, Tab
  <2> HIDE DEF x
  <2> QED
    BY <1>6, <2>1
<1>9. ASSUME Lock(t) PROVE Aside(t)
  <2> DEFINE x == Locked(tab)
  <2>1. x.list = tab.list /\ SameWork(x.op, tab.op)
    BY <1>1 DEF Locked, ForgetRoot, Tab, Op, SameWork
  <2>2. Becomes(t, x)
    BY <1>9 DEF Lock
  <2> HIDE DEF x
  <2> QED
    BY <1>3, <2>1, <2>2
<1>10. ASSUME Pick(t) PROVE Aside(t)
  <2>1. PICK c \in Valid : Becomes(t, [Page EXCEPT !.mode = "picker", !.env = c])
    BY <1>10 DEF Pick
  <2> DEFINE x == [Page EXCEPT !.mode = "picker", !.env = c]
  <2>2. x.list = NoRows /\ x.op = NoOp
    BY DEF Page
  <2> HIDE DEF x
  <2> QED
    BY <1>3, <2>1, <2>2 DEF x
<1>11. ASSUME Opening(t) PROVE Aside(t)
  <2>1. PICK key \in SwKeys : Becomes(t, Opened(tab.env, key))
    BY <1>11 DEF Opening
  <2> DEFINE x == Opened(tab.env, key)
  <2>2. x.list = NoRows /\ x.op = NoOp
    BY DEF Opened, Page
  <2> HIDE DEF x
  <2> QED
    BY <1>3, <2>1, <2>2 DEF x
<1>12. ASSUME Reload(t) PROVE Aside(t)
  BY <1>2, <1>3, <1>12 DEF Reload
<1> QED
  BY <1>4, <1>5, <1>7, <1>8, <1>9, <1>10, <1>11, <1>12 DEF Other, OpenOffline, ReopenOffline

\* The steps of an operation that plan nothing.
LEMMA PlainAside ==
  ASSUME TypeOK, NEW t \in Tabs, Good(tabs[t]),
         Fails(t) \/ RefusedByPolicy(t) \/ Policy1(t) \/ List(t) \/ Device(t) \/ Seal(t)
  PROVE  Aside(t)
<1> DEFINE tab == tabs[t]
<1>1. /\ tab \in Tab /\ tab.op \in Op /\ policy \in Policy /\ NoPolicy \in Policy
      /\ server \in Rows
  BY StartTypes DEF TypeOK, Tab
<1>2. ASSUME NEW p \in Policy
      PROVE  [tab EXCEPT !.seen = p] \in Tab /\ [tab EXCEPT !.seen = p].list = tab.list
  BY <1>1 DEF Tab
<1>3. CASE Fails(t)
  BY <1>1, <1>3, FailsAside DEF Fails
<1>4. CASE RefusedByPolicy(t)
  BY <1>1, <1>2, <1>4, FailsAside DEF RefusedByPolicy, Answered
<1>5. ASSUME NEW x, Becomes(t, x), x.list \in {tab.list, server}, ~Planned(x.op) PROVE Aside(t)
  BY <1>5 DEF Aside, Becomes, TypeOK
<1>6. CASE Policy1(t)
  <2> DEFINE a == Answered(t)
             op == [a.op EXCEPT !.req = policy.req]
  <2>1. a \in Tab /\ a.list = tab.list
    BY <1>1, <1>2 DEF Answered
  <2> HIDE DEF a
  <2>2. op \in Op
    BY <1>1, <2>1 DEF Tab, Op, Policy
  <2> HIDE DEF op
  <2>3. ASSUME NEW o, o.pc \in {"list", "device", "root"}, Becomes(t, [a EXCEPT !.op = o])
        PROVE  Aside(t)
    <3> DEFINE x == [a EXCEPT !.op = o]
    <3>1. x.op = o /\ x.list = tab.list
      BY <2>1 DEF Tab
    <3> HIDE DEF x
    <3> QED
      BY <1>5, <2>3, <3>1 DEF x, Planned
  <2>4. ASSUME Becomes(t, Ended(a)) PROVE Aside(t)
    BY <2>1, <2>4, FailsAside
  <2> DEFINE keyset == CurrentKeyset(a)
             o1 == [op EXCEPT !.pc = "list"]
             o2 == [op EXCEPT !.pc = "device", !.root = ids + 1,
                              !.base = NewKeys(op.profile, ids + 1)]
             o3 == [op EXCEPT !.pc = "device", !.base = keyset, !.root = a.root]
             o4 == [op EXCEPT !.pc = "root", !.base = keyset]
             o5 == [op EXCEPT !.pc = "device"]
  <2>5. /\ o1.pc = "list" /\ o2.pc = "device" /\ o3.pc = "device" /\ o4.pc = "root"
        /\ o5.pc = "device"
    BY <2>2 DEF Op
  <2>6. \/ RefusedByPolicy(t) \/ Becomes(t, Ended(a))
        \/ Becomes(t, [a EXCEPT !.op = o1]) \/ Becomes(t, [a EXCEPT !.op = o2])
        \/ Becomes(t, [a EXCEPT !.op = o3]) \/ Becomes(t, [a EXCEPT !.op = o4])
        \/ Becomes(t, [a EXCEPT !.op = o5])
    BY <1>6 DEF Policy1, a, op
  <2> HIDE DEF o1, o2, o3, o4, o5
  <2> QED
    BY <1>4, <2>3, <2>4, <2>5, <2>6
<1>7. CASE List(t)
  <2> DEFINE rows == IF tab.list = NoRows /\ ~tab.loading THEN server ELSE tab.list
             x == [tab EXCEPT !.op.pc = "read", !.list = rows]
  <2>1. rows \in {tab.list, server}
    OBVIOUS
  <2>2. Fails(t) \/ Becomes(t, x)
    BY <1>1, <1>7 DEF List, Tab
  <2> HIDE DEF rows
  <2>3. x.list = rows /\ x.op.pc = "read"
    BY <1>1 DEF Tab, Op
  <2> HIDE DEF x
  <2> QED
    BY <1>3, <1>5, <2>1, <2>2, <2>3 DEF Planned
<1>8. ASSUME NEW keyset, NEW root, NEW b, Becomes(t, NewKeyset(tab, keyset, root, b)),
             keyset \in Copy, root \in Roots
      PROVE  Aside(t)
  <2>1. [tab EXCEPT !.root = root, !.keyset = keyset] \in Tab
        /\ [tab EXCEPT !.root = root, !.keyset = keyset].list = tab.list
    BY <1>1, <1>8 DEF Tab
  <2> DEFINE x == [tab EXCEPT !.op.pc = "seal", !.op.draft = keyset, !.op.root = root]
  <2>2. x.list = tab.list /\ x.op.pc = "seal"
    BY <1>1 DEF Tab, Op
  <2>3. \/ Becomes(t, Ended(tab)) \/ Becomes(t, x)
        \/ Becomes(t, Ended([tab EXCEPT !.root = root, !.keyset = keyset]))
    BY <1>8 DEF NewKeyset
  <2> HIDE DEF x
  <2> QED
    BY <1>1, <1>5, <2>1, <2>2, <2>3, FailsAside DEF Planned
<1>9. CASE Device(t)
  <2> DEFINE op == tab.op
  <2>1. /\ op.base \in Copy /\ op.root \in Roots /\ op.key \in SwKeys
        /\ Held(op, op.key) \in SwKeys /\ Held(op, op.root) \in Roots
    BY <1>1, OfflineAssumption DEF Op, Held, SwKeys, Roots
  <2>2. ASSUME NEW hw \in HwKeys,
               Becomes(t, NewKeyset(tab, Registered(op.base, hw, Held(op, op.key), Held(op, op.root)),
                                    op.root, tab.env.rev # 0 /\ tab.env.id = op.base.id))
        PROVE  Aside(t)
    <3>1. Registered(op.base, hw, Held(op, op.key), Held(op, op.root)) \in Copy
      BY <2>1, KeysetTypes
    <3> QED
      BY <1>8, <2>1, <2>2, <3>1
  <2>3. ASSUME ids < MaxKeysets,
               Becomes(t, NewKeyset(tab, Rotated(op.base, op.drop, Held(op, op.key), ids + 1),
                                    ids + 1, op.base.rev # 0))
        PROVE  Aside(t)
    <3>1. ids + 1 \in 0 .. MaxKeysets /\ ids + 1 \in Roots
      BY <2>3, OfflineAssumption DEF TypeOK, Roots
    <3>2. Rotated(op.base, op.drop, Held(op, op.key), ids + 1) \in Copy
      BY <2>1, <3>1, KeysetTypes
    <3> QED
      BY <1>8, <2>3, <3>1, <3>2
  <2> QED
    BY <1>3, <1>9, <2>2, <2>3 DEF Device
<1>10. CASE Seal(t)
  <2> DEFINE op == tab.op
             with == IF op.kind = "remove" THEN op.root ELSE Held(op, op.root)
             x == [tab EXCEPT !.op.pc = "policy2",
                              !.op.draft = HardwareCopy(op.draft, with, op.req, op.draft.rows)]
  <2>1. Becomes(t, x)
    BY <1>10 DEF Seal
  <2>2. x.list = tab.list /\ x.op.pc = "policy2" /\ x.op.kind = op.kind
    BY <1>1 DEF Tab, Op
  <2>3. op.kind # "sync"
    BY <1>10 DEF Seal, At, Good, Running, Prepared
  <2> HIDE DEF x
  <2> QED
    BY <1>5, <2>1, <2>2, <2>3 DEF Planned
<1> QED
  BY <1>3, <1>4, <1>6, <1>7, <1>9, <1>10

\* What a step leaves of a tab that followed the list and the policy.
Kept(t) == Follows(tabs'[t], server) /\ Asked(tabs'[t].op, policy)

\* A sync is planned with the list of its tab.
LEMMA PlansList ==
  ASSUME TypeOK, NEW t \in Tabs, Follows(tabs[t], server), NEW x, Becomes(t, x),
         x.list = tabs[t].list, x.op.pc = "fetch", x.op.list = x.list
  PROVE  Kept(t)
BY DEF Becomes, TypeOK, Kept, Follows, Asked

LEMMA WithRootFollows ==
  ASSUME TypeOK, NEW t \in Tabs, Follows(tabs[t], server), Asked(tabs[t].op, policy),
         NEW tab \in Tab, tab.list = tabs[t].list, NEW root, NEW keyset, NEW prev,
         Becomes(t, WithRoot(tab, root, keyset, prev))
  PROVE  Kept(t)
<1> DEFINE draft == IF Hardware(prev) /\ prev.id = keyset.id /\ ~Expired(prev) THEN prev ELSE NoCopy
           x == [tab EXCEPT !.op.pc = "fetch", !.op.prev = prev, !.op.base = keyset,
                            !.op.list = tab.list, !.op.root = root, !.op.draft = draft]
<1>1. CASE Becomes(t, Ended(tab))
  BY <1>1, FailsAside, AsideKeeps DEF Kept
<1>2. x.list = tab.list /\ x.op.pc = "fetch" /\ x.op.list = tab.list
  BY DEF Tab, Op
<1>3. Becomes(t, Ended(tab)) \/ Becomes(t, x)
  BY DEF WithRoot
<1> HIDE DEF x
<1> QED
  BY <1>1, <1>2, <1>3, PlansList

LEMMA ReadFollows ==
  ASSUME TypeOK, NEW t \in Tabs, Good(tabs[t]), Follows(tabs[t], server), Asked(tabs[t].op, policy),
         Read(t)
  PROVE  Kept(t)
<1> DEFINE tab == tabs[t]
           keyset == CurrentKeyset(tab)
<1>1. tab \in Tab /\ tab.op \in Op
  BY DEF TypeOK, Tab
<1>2. CASE Becomes(t, Ended(tab))
  BY <1>1, <1>2, FailsAside, AsideKeeps DEF Kept
<1>3. ASSUME NEW draft,
             Becomes(t, [tab EXCEPT !.op.pc = "fetch", !.op.prev = store, !.op.list = tab.list,
                                    !.op.draft = draft])
      PROVE  Kept(t)
  <2> DEFINE x == [tab EXCEPT !.op.pc = "fetch", !.op.prev = store, !.op.list = tab.list,
                              !.op.draft = draft]
  <2>1. x.list = tab.list /\ x.op.pc = "fetch" /\ x.op.list = tab.list
    BY <1>1 DEF Tab, Op
  <2>2. Becomes(t, x)
    BY <1>3
  <2> HIDE DEF x
  <2> QED
    BY <2>1, <2>2, PlansList
<1>4. CASE Becomes(t, WithRoot(tab, tab.root, keyset, store))
  BY <1>1, <1>4, WithRootFollows
<1>5. CASE Becomes(t, [tab EXCEPT !.op.pc = "root", !.op.prev = store, !.op.base = keyset])
  <2> DEFINE x == [tab EXCEPT !.op.pc = "root", !.op.prev = store, !.op.base = keyset]
  <2>1. x.list = tab.list /\ x.op.pc = "root" /\ tabs'[t] = x
    BY <1>1, <1>5 DEF Tab, Op, Becomes, TypeOK
  <2> HIDE DEF x
  <2> QED
    BY <2>1, AsideKeeps DEF Aside, Planned, Kept
<1> HIDE DEF keyset
<1> QED
  BY <1>2, <1>3, <1>4, <1>5 DEF Read, Fails, keyset

LEMMA RootFollows ==
  ASSUME TypeOK, NEW t \in Tabs, Good(tabs[t]), Follows(tabs[t], server), Asked(tabs[t].op, policy),
         Root(t)
  PROVE  Kept(t)
<1> DEFINE tab == tabs[t]
           op == tab.op
<1>1. tab \in Tab /\ op \in Op /\ op.base \in Copy
  BY DEF TypeOK, Tab, Op
<1>2. CASE Becomes(t, Ended(tab))
  BY <1>1, <1>2, FailsAside, AsideKeeps DEF Kept
<1> SUFFICES ASSUME NEW slot \in op.base.slots,
                    LET open == [tab EXCEPT !.root = slot.root, !.keyset = op.base] IN
                    Becomes(t, IF op.kind = "sync" THEN WithRoot(open, slot.root, op.base, op.prev)
                               ELSE IF op.kind = "test" THEN Ended(open)
                               ELSE [open EXCEPT !.op.pc = "device", !.op.root = slot.root])
             PROVE  Kept(t)
  BY <1>2 DEF Root, Fails
<1> DEFINE open == [tab EXCEPT !.root = slot.root, !.keyset = op.base]
           x == [open EXCEPT !.op.pc = "device", !.op.root = slot.root]
<1>3. open \in Tab /\ open.list = tab.list /\ open.op = op
  BY <1>1 DEF Tab, Copy, Slot
<1>4. \/ Becomes(t, WithRoot(open, slot.root, op.base, op.prev))
      \/ Becomes(t, Ended(open)) \/ Becomes(t, x)
  OBVIOUS
<1> HIDE DEF open
<1>5. CASE Becomes(t, WithRoot(open, slot.root, op.base, op.prev))
  BY <1>3, <1>5, WithRootFollows
<1>6. CASE Becomes(t, Ended(open))
  BY <1>3, <1>6, FailsAside, AsideKeeps DEF Kept
<1>7. CASE Becomes(t, x)
  <2>1. x.list = tab.list /\ x.op.pc = "device" /\ tabs'[t] = x
    BY <1>1, <1>3, <1>7 DEF Tab, Op, Becomes, TypeOK
  <2> HIDE DEF x
  <2> QED
    BY <2>1, AsideKeeps DEF Aside, Planned, Kept
<1> QED
  BY <1>4, <1>5, <1>6, <1>7

\* The rows that are put together are those of the list, or newer.
LEMMA AssembleFollows ==
  ASSUME NEW list \in Rows, server \in Rows, NEW prev, NoNewer(list, server)
  PROVE  NoNewer(list, Assemble(list, prev))
<1> SUFFICES ASSUME NEW s \in Secrets PROVE list[s].list <= Assemble(list, prev)[s].list
  BY DEF NoNewer
<1>1. list[s].list \in Nat /\ list[s].list <= server[s].list
  BY OfflineAssumption DEF Rows, Revision, NoNewer
<1>2. \/ Assemble(list, prev)[s] = list[s]
      \/ Assemble(list, prev)[s] = server[s]
      \/ Assemble(list, prev)[s].list = list[s].list
  BY DEF Assemble
<1> QED
  BY <1>1, <1>2

LEMMA FetchFollows ==
  ASSUME TypeOK, NEW t \in Tabs, Good(tabs[t]), Follows(tabs[t], server), Asked(tabs[t].op, policy),
         Fetch(t)
  PROVE  Kept(t)
<1> DEFINE tab == tabs[t]
           op == tab.op
           rows == Assemble(op.list, op.draft)
           draft == IF op.profile = "STANDARD" THEN SoftwareCopy(op.key, op.req, rows)
                    ELSE HardwareCopy(op.base, op.root, op.req, rows)
           x == [tab EXCEPT !.op.pc = "policy2", !.op.draft = draft]
<1>1. /\ tab \in Tab /\ op \in Op /\ op.base \in Copy /\ op.list \in Rows /\ server \in Rows
      /\ op.pc = "fetch"
  BY DEF TypeOK, Tab, Op, Fetch, At
<1>2. op.kind = "sync" /\ NoNewer(op.list, server)
  BY <1>1 DEF Good, Running, Prepared, Follows
<1>3. NoNewer(op.list, rows)
  BY <1>1, <1>2, AssembleFollows
<1> HIDE DEF rows
<1>4. draft.rows = rows
  BY <1>1, StartTypes DEF SoftwareCopy, HardwareCopy, NoCopy, Copy
<1>5. Fails(t) \/ Becomes(t, x)
  BY DEF Fetch, rows
<1> HIDE DEF draft
<1>6. CASE Fails(t)
  BY <1>6, PlainAside, AsideKeeps DEF Kept
<1>7. CASE Becomes(t, x)
  <2>1. /\ x.list = tab.list /\ x.op.pc = "policy2" /\ x.op.list = op.list /\ x.op.draft = draft
        /\ tabs'[t] = x
    BY <1>1, <1>7 DEF Tab, Op, Becomes, TypeOK
  <2> HIDE DEF x
  <2> QED
    BY <1>2, <1>3, <1>4, <2>1 DEF Kept, Follows, Asked
<1> QED
  BY <1>5, <1>6, <1>7

\* The policy was asked right before the step to store, and it allows it.
LEMMA Policy2Follows ==
  ASSUME TypeOK, NEW t \in Tabs, Good(tabs[t]), Follows(tabs[t], server), Asked(tabs[t].op, policy),
         Policy2(t)
  PROVE  Kept(t)
<1> DEFINE tab == Answered(t)
           x == [tab EXCEPT !.op.pc = "put", !.op.late = FALSE]
<1>1. /\ tabs[t] \in Tab /\ policy \in Policy
      /\ tab \in Tab /\ tab.list = tabs[t].list /\ tab.op = tabs[t].op /\ tab.seen = policy
      /\ tab.op.pc = "policy2"
  BY SeenGood DEF TypeOK, Answered, Policy2, At
<1> HIDE DEF tab
<1>2. CASE RefusedByPolicy(t)
  BY <1>2, PlainAside, AsideKeeps DEF Kept
<1>3. CASE Becomes(t, Ended(tab))
  BY <1>1, <1>3, FailsAside, AsideKeeps DEF Kept
<1>4. ASSUME SessionOk(tab), Becomes(t, x) PROVE Kept(t)
  <2>1. /\ x.list = tab.list /\ x.op.pc = "put" /\ x.op.kind = tab.op.kind
        /\ x.op.list = tab.op.list /\ x.op.draft = tab.op.draft /\ x.op.profile = tab.op.profile
        /\ tabs'[t] = x
    BY <1>1, <1>4 DEF Tab, Op, Becomes, TypeOK
  <2>2. ProfileAllowed(policy, tab.op.profile)
    BY <1>1, <1>4 DEF SessionOk
  <2> HIDE DEF x
  <2> QED
    BY <1>1, <2>1, <2>2 DEF Kept, Follows, Asked
<1> QED
  BY <1>2, <1>3, <1>4 DEF Policy2, tab

\* With the copy stored, or not, the operation ends.
LEMMA PutFollows ==
  ASSUME TypeOK, NEW t \in Tabs, Good(tabs[t]), Follows(tabs[t], server), Asked(tabs[t].op, policy),
         Put(t)
  PROVE  Kept(t)
<1> DEFINE tab == tabs[t]
           op == tab.op
           stored == [op.draft EXCEPT !.rev = puts + 1,
                                      !.born = IF op.kind = "sync" THEN puts + 1 ELSE @]
           kept == [tab EXCEPT !.env = stored]
           ofSync == [kept EXCEPT !.changed = FALSE,
                                  !.keyset = IF Hardware(stored) THEN stored ELSE @]
           ofKeys == [kept EXCEPT !.root = op.root, !.keyset = stored]
<1>1. tab \in Tab /\ op \in Op /\ op.root \in Roots
  BY DEF TypeOK, Tab, Op
<1>2. CASE Fails(t)
  BY <1>2, PlainAside, AsideKeeps DEF Kept
<1> SUFFICES ASSUME puts < MaxPuts,
                    Becomes(t, Ended(IF ~SessionOk(tab) THEN kept
                                     ELSE IF op.kind = "sync" THEN ofSync ELSE ofKeys))
             PROVE  Kept(t)
  BY <1>2 DEF Put
<1>3. stored \in Copy
  <2>1. op.draft \in Copy /\ puts + 1 \in 0 .. MaxPuts
    BY <1>1, OfflineAssumption DEF TypeOK, Op
  <2> QED
    BY <2>1 DEF Copy
<1> HIDE DEF stored
<1>4. kept \in Tab /\ kept.list = tab.list
  BY <1>1, <1>3 DEF Tab
<1> HIDE DEF kept
<1>5. ofSync \in Tab /\ ofSync.list = tab.list /\ ofKeys \in Tab /\ ofKeys.list = tab.list
  BY <1>1, <1>3, <1>4 DEF Tab
<1> HIDE DEF ofSync, ofKeys
<1> QED
  BY <1>4, <1>5, FailsAside, AsideKeeps DEF Kept

\* Every tab follows the list and the policy.
AllFollow == \A t \in Tabs : Follows(tabs[t], server) /\ Asked(tabs[t].op, policy)

LEMMA FollowInit == Init => AllFollow
<1> SUFFICES ASSUME Init, NEW t \in Tabs
             PROVE  Follows(tabs[t], server) /\ Asked(tabs[t].op, policy)
  BY DEF AllFollow
<1>1. TypeOK /\ tabs[t] = Page
  BY TypesInit DEF Types, Init
<1>2. tabs[t].op.pc = "idle" /\ tabs[t].list = NoRows
  BY <1>1 DEF Page, NoOp
<1> QED
  BY <1>1, <1>2, RowTypes DEF Follows, Asked

\* An edit of a secret and a change of the policy leave the tabs behind, and
\* make late what is about to store.
LEMMA WorldFollows ==
  ASSUME Types, AllFollow,
         SetPolicy \/ (\E s \in Secrets : Edit(s)) \/ Expire \/ UNCHANGED vars
  PROVE  AllFollow'
<1>1. TypeOK /\ ListWithin
  BY DEF Types
<1>2. CASE SetPolicy
  <2> SUFFICES ASSUME NEW t \in Tabs
               PROVE  Follows(tabs'[t], server') /\ Asked(tabs'[t].op, policy')
    BY DEF AllFollow
  <2>1. /\ tabs[t] \in Tab /\ tabs[t].op \in Op /\ server' = server
        /\ tabs'[t] = [tabs[t] EXCEPT !.op.late = (@ \/ tabs[t].op.pc = "put")]
    BY <1>1, <1>2 DEF SetPolicy, TypeOK, Tab
  <2>2. /\ tabs'[t].list = tabs[t].list /\ tabs'[t].op.kind = tabs[t].op.kind
        /\ tabs'[t].op.pc = tabs[t].op.pc /\ tabs'[t].op.list = tabs[t].op.list
        /\ tabs'[t].op.draft = tabs[t].op.draft
        /\ tabs'[t].op.late = (tabs[t].op.late \/ tabs[t].op.pc = "put")
    BY <2>1 DEF Tab, Op
  <2>3. Follows(tabs'[t], server')
    BY <2>1, <2>2 DEF AllFollow, Follows
  <2>4. Asked(tabs'[t].op, policy')
    BY <2>2 DEF Asked
  <2> QED
    BY <2>3, <2>4
<1>3. ASSUME NEW s \in Secrets, Edit(s) PROVE AllFollow'
  <2>1. server \in Rows /\ server' \in Rows
    BY <1>1, <1>3, WorldTyped DEF Typed, TypeOK
  <2>2. NoNewer(server, server')
    <3> SUFFICES ASSUME NEW u \in Secrets PROVE server[u].list <= server'[u].list
      BY DEF NoNewer
    <3>1. server[u] \in Revision /\ server[u].list \in Nat /\ server[s] \in Revision
      BY <2>1, OfflineAssumption DEF Rows, Revision
    <3>2. CASE u = s
      BY <1>3, <2>1, <3>1, <3>2 DEF Edit, Rows, Revision
    <3>3. CASE u # s
      BY <1>3, <2>1, <3>1, <3>3 DEF Edit, Rows
    <3> QED
      BY <3>2, <3>3
  <2>3. ASSUME NEW rows \in Rows, NoNewer(rows, server) PROVE NoNewer(rows, server')
    BY <2>1, <2>2, <2>3, OfflineAssumption DEF NoNewer, Rows, Revision
  <2>4. tabs' = tabs /\ policy' = policy
    BY <1>3 DEF Edit
  <2> SUFFICES ASSUME NEW t \in Tabs
               PROVE  Follows(tabs'[t], server') /\ Asked(tabs'[t].op, policy')
    BY DEF AllFollow
  <2>5. tabs[t].list \in Rows /\ tabs[t].op.list \in Rows
    BY <1>1, RowTypes
  <2> QED
    BY <2>3, <2>4, <2>5 DEF AllFollow, Follows
<1>4. CASE Expire \/ UNCHANGED vars
  BY <1>4 DEF Expire, vars, outside, AllFollow
<1> QED
  BY <1>2, <1>3, <1>4

LEMMA FollowStep ==
  ASSUME Types, Identities, AllFollow, [Next]_vars PROVE AllFollow'
<1>1. TypeOK /\ \A t \in Tabs : Good(tabs[t])
  BY DEF Types, Identities, TabsGood
<1>2. ASSUME NEW t \in Tabs, Kept(t), UNCHANGED <<server, policy>>,
             \A u \in Tabs : u # t => tabs'[u] = tabs[u]
      PROVE  AllFollow'
  BY <1>2 DEF AllFollow, Kept
<1>3. ASSUME NEW t \in Tabs, Operation(t) PROVE AllFollow'
  <2>1. Good(tabs[t]) /\ Follows(tabs[t], server) /\ Asked(tabs[t].op, policy)
    BY <1>1 DEF AllFollow
  <2>2. Kept(t)
    <3>1. CASE Policy1(t) \/ List(t) \/ Device(t) \/ Seal(t)
      <4>1. Aside(t)
        BY <1>1, <2>1, <3>1, PlainAside
      <4> QED
        BY <1>1, <2>1, <4>1, AsideKeeps DEF Kept
    <3> QED
      BY <1>1, <1>3, <2>1, <3>1, ReadFollows, RootFollows, FetchFollows, Policy2Follows, PutFollows
         DEF Operation
  <2>3. UNCHANGED <<server, policy>>
    BY <1>3 DEF Operation, Policy1, RefusedByPolicy, List, Read, Root, Fetch, Device, Seal, Policy2,
                Put, outside
  <2> QED
    BY <1>1, <1>2, <1>3, <2>2, <2>3, OthersStay
<1>4. ASSUME NEW t \in Tabs, Begin(t) \/ Other(t) \/ Lock(t) \/ Reload(t) \/ BeginRefresh(t)
      PROVE  AllFollow'
  <2>1. Aside(t)
    BY <1>1, <1>4, BeginAside, OtherAside
  <2>2. Kept(t)
    BY <1>1, <2>1, AsideKeeps DEF AllFollow, Kept
  <2>3. UNCHANGED <<server, policy>>
    BY <1>4 DEF Begin, BeginSync, BeginRegister, BeginRemove, BeginTest, Wipe, LoadKey,
                ChooseProfile, Other, Start, NoticeCopy, EndRefresh, Pick, OpenOffline,
                ReopenOffline, Opening, Unlock, Lock, Reload, BeginRefresh, Elsewhere, outside
  <2> QED
    BY <1>1, <1>2, <1>4, <2>2, <2>3, OthersStay
<1> QED
  BY <1>3, <1>4, WorldFollows DEF Next, Event

LEMMA FollowAlways == Spec => [](Types /\ Identities /\ AllFollow)
<1>1. Init => AllFollow
  BY FollowInit
<1>2. Types /\ Identities /\ AllFollow /\ [Next]_vars => AllFollow'
  BY FollowStep
<1> QED
  BY <1>1, <1>2, IdentitiesAlways, PTL DEF Spec

\* A sync stores no row whose title, envelope or key version is older than in
\* the list it worked with, however the previous copy came about.
THEOREM SyncsFollowTheList == Spec => SyncFollowsList
<1>1. ASSUME Types, Identities, AllFollow, [Next]_vars
      PROVE  \A t \in Tabs : Synced(t) =>
               \A s \in Secrets : store'.rows[s].list >= tabs[t].op.list[s].list
  <2> SUFFICES ASSUME NEW t \in Tabs, Synced(t), NEW s \in Secrets
               PROVE  store'.rows[s].list >= tabs[t].op.list[s].list
    OBVIOUS
  <2> DEFINE op == tabs[t].op
  <2>1. op \in Op /\ op.draft \in Copy /\ op.pc = "put" /\ op.kind = "sync"
    BY <1>1 DEF Types, TypeOK, Tab, Op, Synced, Put, At
  <2>2. NoNewer(op.list, op.draft.rows)
    BY <1>1, <2>1 DEF AllFollow, Follows
  <2>3. store'.rows = op.draft.rows
    BY <2>1 DEF Synced, Put, Copy
  <2>4. op.list[s].list \in Nat /\ op.draft.rows[s].list \in Nat
    BY <1>1, RowTypes DEF Types
  <2> QED
    BY <2>2, <2>3, <2>4 DEF NoNewer
<1>2. Types /\ Identities /\ AllFollow /\ [Next]_vars =>
        [\A t \in Tabs : Synced(t) =>
           \A s \in Secrets : store'.rows[s].list >= tabs[t].op.list[s].list]_vars
  BY <1>1
<1> QED
  BY <1>2, FollowAlways, PTL DEF Spec, SyncFollowsList

\* A copy is stored under a profile that the policy allows, or the policy was
\* changed between the last question and the storing.
THEOREM PolicyIsAskedLast == Spec => PolicyAskedLast
<1>1. ASSUME Types, Identities, AllFollow, [Next]_vars
      PROVE  \A t \in Tabs : Put(t) /\ store' # store =>
               ProfileAllowed(policy, store'.profile) \/ tabs[t].op.late
  <2> SUFFICES ASSUME NEW t \in Tabs, Put(t), store' # store
               PROVE  ProfileAllowed(policy, store'.profile) \/ tabs[t].op.late
    OBVIOUS
  <2> DEFINE op == tabs[t].op
  <2>1. op \in Op /\ op.draft \in Copy /\ op.pc = "put"
    BY <1>1 DEF Types, TypeOK, Tab, Op, Put, At
  <2>2. Prepared(op) /\ Drafted(op)
    BY <1>1 DEF Identities, TabsGood, Good, Running
  <2>3. op.draft.profile = op.profile
    BY <2>1, <2>2 DEF Prepared, Drafted, Op, Kinds
  <2>4. store'.profile = op.draft.profile
    BY <2>1 DEF Put, Copy
  <2> QED
    BY <1>1, <2>1, <2>3, <2>4 DEF AllFollow, Asked
<1>2. Types /\ Identities /\ AllFollow /\ [Next]_vars =>
        [\A t \in Tabs : Put(t) /\ store' # store =>
           ProfileAllowed(policy, store'.profile) \/ tabs[t].op.late]_vars
  BY <1>1
<1> QED
  BY <1>2, FollowAlways, PTL DEF Spec, PolicyAskedLast
=============================================================================
