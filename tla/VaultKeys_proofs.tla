------------------------- MODULE VaultKeys_proofs -------------------------
(***************************************************************************)
(* Theorems about VaultKeys when the requests of the user and the          *)
(* administrators do not overlap: a user's key copies hold one key, open   *)
(* with the stored parameters, and can be recovered, for any windows,      *)
(* administrators, parameters and bounds. The types, and that the master   *)
(* password opens what it sealed, hold however requests overlap.           *)
(***************************************************************************)
EXTENDS VaultKeys, TLAPS

-----------------------------------------------------------------------------
(* Types.                                                                  *)

\* Before the server is set up there is nothing but windows with the wizard.
NotSetUp ==
  tenant = None =>
    /\ row.pub = 0 /\ persists = {} /\ \A a \in Admins : admins[a] = Rest
    /\ \A t \in Tabs : tabs[t].page = "setup" /\ tabs[t].do.kind = "setup"

\* Who changes the password has unlocked the vault, so the window knows the mode;
\* who is onboarded is on the page for it.
RightPlace ==
  \A t \in Tabs : /\ tabs[t].do.kind = "save" => tabs[t].me # None
                  /\ tabs[t].do.kind = "onboard" => tabs[t].page = "onboard"

TypeInvariant == TypeOK /\ NotSetUp /\ RightPlace

\* What a window is about, by the step it waits at.
LEMMA DoingAt ==
  ASSUME NEW d \in Doing
  PROVE  /\ d.at = "rest" <=> d = Rest
         /\ d.at = "wizard" <=> d \in Drafts
         /\ d.kind = "setup" <=> d \in Drafts
         /\ d.at = "me" <=> d \in Beginning
         /\ d.at = "keys" <=> d \in Opening
         /\ d.at = "status" <=> d \in Sealing
         /\ d.at = "post" <=> d \in Sending
         /\ d.at \in {"in", "answer"} <=> d \in Waiting
         /\ d.at = "again" <=> d \in Reopening
<1> USE DEF Drafts, Beginning, Opening, Sealing, Sending, Waiting, Reopening, Rest, Kinds
<1>1. CASE d = Rest
  BY <1>1
<1>2. CASE d \in Drafts
  BY <1>2
<1>3. CASE d \in Beginning
  BY <1>3
<1>4. CASE d \in Opening
  BY <1>4
<1>5. CASE d \in Sealing
  BY <1>5
<1>6. CASE d \in Sending
  BY <1>6
<1>7. CASE d \in Waiting
  BY <1>7
<1>8. CASE d \in Reopening
  BY <1>8
<1> QED
  BY <1>1, <1>2, <1>3, <1>4, <1>5, <1>6, <1>7, <1>8 DEF Doing

LEMMA AdminAt ==
  ASSUME NEW d \in Admin
  PROVE  /\ d.at = "rest" <=> d = Rest
         /\ d.kind = "rest" <=> d = Rest
         /\ d.at = "checked" <=> d \in Checking
         /\ d.at = "listed" <=> d \in Listing
         /\ d.at = "show" <=> d \in Showing
         /\ d.at = "finish" <=> d \in Replacing
BY DEF Admin, Rest, Checking, Listing, Showing, Replacing

\* Only this window changes.
Only(t) == tabs' \in [Tabs -> Tab] /\ \A v \in Tabs \ {t} : tabs'[v] = tabs[v]

\* It is about something else now.
Redone(t, d) ==
  /\ Only(t) /\ tabs'[t].do = d
  /\ tabs'[t].page = tabs[t].page /\ tabs'[t].me = tabs[t].me /\ tabs'[t].sk = tabs[t].sk
  /\ tabs'[t].par = tabs[t].par /\ tabs'[t].locked = tabs[t].locked

LEMMA Redo ==
  ASSUME TypeOK, NEW t \in Tabs, NEW d \in Doing, tabs' = [tabs EXCEPT ![t].do = d]
  PROVE  Redone(t, d)
BY DEF TypeOK, Tab, Redone, Only

LEMMA Replace ==
  ASSUME TypeOK, NEW t \in Tabs, NEW w \in Tab, tabs' = [tabs EXCEPT ![t] = w]
  PROVE  Only(t) /\ tabs'[t] = w
BY DEF TypeOK, Only

LEMMA Stopped ==
  ASSUME TypeOK, NEW t \in Tabs, Stop(t)
  PROVE  Redone(t, Rest)
BY Redo DEF Stop, Doing

\* The steps of a window, by what they leave of it.
LEMMA FreshTab ==
  ASSUME NEW page \in Pages
  PROVE  /\ Fresh(page) \in Tab /\ Fresh(page).page = page /\ Fresh(page).do = Rest
         /\ Fresh(page).sk = 0 /\ Fresh(page).me = None
BY DEF Fresh, Tab, Doing

\* What is lost when a window is reloaded or an answer does not arrive.
LEMMA UnseenKit ==
  ASSUME TypeInvariant, NEW t \in Tabs
  PROVE  KitUnseen(t) \subseteq Number
<1>1. tabs[t].do \in Doing
  BY DEF TypeInvariant, TypeOK, Tab
<1>2. CASE tabs[t].do.at = "answer"
  <2>1. tabs[t].do \in Waiting
    BY <1>1, <1>2, DoingAt
  <2>2. tabs[t].do.body.kit \in Blob \cup {None}
    BY <2>1 DEF Waiting, Posted
  <2> QED
    BY <2>2 DEF KitUnseen, Blob
<1>3. CASE tabs[t].do.at # "answer"
  BY <1>3 DEF KitUnseen
<1> QED
  BY <1>2, <1>3

LEMMA LossesGrow ==
  ASSUME TypeInvariant, NEW t \in Tabs, UNCHANGED gone \/ KitGone(t)
  PROVE  /\ gone' \in Losses
         /\ gone'.shares = gone.shares /\ gone'.keys = gone.keys /\ gone.kits \subseteq gone'.kits
         /\ KitGone(t) => KitUnseen(t) \subseteq gone'.kits
<1>1. gone \in Losses /\ KitUnseen(t) \subseteq Number
  BY UnseenKit DEF TypeInvariant, TypeOK
<1> QED
  BY <1>1 DEF Losses, KitGone

\* A page that is loaded or left.
PageStep(t) ==
  HasSession(t) \/ SignIn(t) \/ CodeStep(t) \/ SecondFactor(t) \/ GoApp(t) \/ Reload(t) \/ Commit(t)

LEMMA PageStepLeaves ==
  ASSUME TypeInvariant, NEW t \in Tabs, PageStep(t)
  PROVE  /\ Only(t)
         /\ tabs'[t].sk = 0 /\ tabs'[t].do.kind \in {"rest", "setup"} /\ tabs'[t].do \in {Rest} \cup Drafts
         /\ tenant' = None => tabs'[t].page = "setup" /\ tabs'[t].do.kind = "setup"
<1>1. Landing \in Pages
  BY DEF Landing, Pages
<1>2. ASSUME NEW page \in Pages, tabs' = [tabs EXCEPT ![t] = Fresh(page)], tenant' # None
      PROVE  /\ Only(t)
             /\ tabs'[t].sk = 0 /\ tabs'[t].do.kind \in {"rest", "setup"} /\ tabs'[t].do \in {Rest} \cup Drafts
             /\ tenant' = None => tabs'[t].page = "setup" /\ tabs'[t].do.kind = "setup"
  <2>1. Only(t) /\ tabs'[t] = Fresh(page)
    BY <1>2, FreshTab, Replace DEF TypeInvariant
  <2>2. Rest.kind = "rest"
    BY DEF Rest
  <2> QED
    BY <1>2, <2>1, <2>2, FreshTab
<1>3. CASE HasSession(t) \/ SignIn(t)
  <2>1. \E page \in Pages : tabs' = [tabs EXCEPT ![t] = Fresh(page)]
    BY <1>1, <1>3 DEF HasSession, SignIn, Land, Pages
  <2>2. tenant' # None
    BY <1>3 DEF HasSession, SignIn, server
  <2> QED
    BY <1>2, <2>1, <2>2
<1>4. CASE CodeStep(t) \/ SecondFactor(t) \/ GoApp(t)
  <2>1. \E page \in Pages : tabs' = [tabs EXCEPT ![t] = Fresh(page)]
    BY <1>1, <1>4 DEF CodeStep, SecondFactor, GoApp, Land, Pages
  <2>2. tenant' # None
    BY <1>4 DEF CodeStep, SecondFactor, GoApp, server, TypeInvariant, NotSetUp
  <2> QED
    BY <1>2, <2>1, <2>2
<1>5. CASE Reload(t)
  <2>1. tabs[t] \in Tab /\ tabs[t].page \in Pages
    BY DEF TypeInvariant, TypeOK, Tab
  <2>2. tabs' = [tabs EXCEPT ![t] = Boot(tabs[t].page)] /\ tenant' = tenant
    BY <1>5 DEF Reload, server
  <2>3. CASE tenant = None
    <3> DEFINE w == [Fresh("setup") EXCEPT !.do = Draft("user_kit", defaults)]
    <3>1. Draft("user_kit", defaults) \in Drafts
      BY DEF Draft, Drafts, TypeInvariant, TypeOK, Modes
    <3>2. w \in Tab /\ w.page = "setup" /\ w.sk = 0 /\ w.do = Draft("user_kit", defaults)
      BY <3>1, FreshTab DEF Fresh, Tab, Doing, Pages
    <3>3. tabs' = [tabs EXCEPT ![t] = w]
      BY <2>2, <2>3 DEF Boot
    <3>4. Draft("user_kit", defaults).kind = "setup"
      BY DEF Draft
    <3> HIDE DEF w
    <3> QED
      BY <3>1, <3>2, <3>3, <3>4, Replace DEF TypeInvariant
  <2>4. CASE tenant # None
    <3>1. \E page \in Pages : Boot(tabs[t].page) = Fresh(page)
      BY <2>1, <2>4 DEF Boot, Pages
    <3> QED
      BY <1>2, <2>2, <2>4, <3>1
  <2> QED
    BY <2>3, <2>4
<1>6. CASE Commit(t)
  <2>1. tenant' \in Tenant
    <3>1. tabs[t].do \in Drafts
      BY <1>6, DoingAt DEF Commit, TypeInvariant, TypeOK, Tab
    <3> QED
      BY <1>6, <3>1 DEF Commit, Drafts, Tenant
  <2>2. tabs' = [tabs EXCEPT ![t] = Fresh("login")] /\ "login" \in Pages
    BY <1>6 DEF Commit, Pages
  <2> QED
    BY <1>2, <2>1, <2>2, VaultKeysAssumption
<1> QED
  BY <1>3, <1>4, <1>5, <1>6 DEF PageStep

\* The wizard goes forth and back.
WizardStep(t) == StepPlain(t) \/ StepCrypto(t) \/ StepRecovery(t) \/ StepBack(t)

LEMMA WizardStepLeaves ==
  ASSUME TypeInvariant, NEW t \in Tabs, WizardStep(t)
  PROVE  tabs[t].do \in Drafts /\ \E d \in Drafts : Redone(t, d)
<1> DEFINE d == tabs[t].do
<1>1. d \in Drafts
  <2>1. d.kind = "setup" /\ d \in Doing
    BY DEF WizardStep, StepPlain, StepCrypto, StepRecovery, StepBack, TypeInvariant, TypeOK, Tab
  <2> QED
    BY <2>1, DoingAt
<1>2. ASSUME NEW e \in Drafts, Turn(t, e)
      PROVE  Redone(t, e)
  BY <1>2, Redo DEF Turn, Doing, TypeInvariant
<1>3. \E e \in Drafts : Turn(t, e)
  <2>1. CASE StepPlain(t)
    <3>1. PICK step \in {d.step - 1, d.step + 1} \cap Nat : Turn(t, [d EXCEPT !.step = step])
      BY <2>1 DEF StepPlain
    <3>2. d.step \in 0 .. 2
      BY <2>1 DEF StepPlain
    <3>3. [d EXCEPT !.step = step] \in Drafts
      BY <1>1, <3>2 DEF Drafts
    <3> QED
      BY <3>1, <3>3
  <2>2. CASE StepCrypto(t)
    <3>0. [d EXCEPT !.step = 2] \in Drafts
      BY <1>1 DEF Drafts
    <3>1. ASSUME NEW p \in Params
          PROVE  [d EXCEPT !.step = 4, !.par = p] \in Drafts
      <4>1. [d EXCEPT !.step = 4] \in Drafts
        BY <1>1 DEF Drafts
      <4>2. \A x \in Drafts : [x EXCEPT !.par = p] \in Drafts
        BY <3>1 DEF Drafts
      <4> QED
        BY <4>1, <4>2
    <3>2. \/ Turn(t, [d EXCEPT !.step = 2])
          \/ \E p \in Params : Turn(t, [d EXCEPT !.step = 4, !.par = p])
      BY <2>2 DEF StepCrypto
    <3> QED
      BY <3>0, <3>1, <3>2
  <2>3. CASE StepRecovery(t)
    <3>0. [d EXCEPT !.step = 3] \in Drafts
      BY <1>1 DEF Drafts
    <3>1. ASSUME NEW m \in Modes
          PROVE  [d EXCEPT !.step = 5, !.mode = m] \in Drafts
      <4>1. [d EXCEPT !.step = 5] \in Drafts
        BY <1>1 DEF Drafts
      <4>2. \A x \in Drafts : [x EXCEPT !.mode = m] \in Drafts
        BY <3>1 DEF Drafts
      <4> QED
        BY <4>1, <4>2
    <3>2. \/ Turn(t, [d EXCEPT !.step = 3])
          \/ \E m \in Modes : Turn(t, [d EXCEPT !.step = 5, !.mode = m])
      BY <2>3 DEF StepRecovery
    <3> QED
      BY <3>0, <3>1, <3>2
  <2>4. CASE StepBack(t)
    <3>1. [d EXCEPT !.step = 4] \in Drafts
      BY <1>1 DEF Drafts
    <3> QED
      BY <2>4, <3>1 DEF StepBack
  <2> QED
    BY <2>1, <2>2, <2>3, <2>4 DEF WizardStep
<1> QED
  BY <1>1, <1>2, <1>3

\* What the user starts.
StartStep(t) == StartOnboard(t) \/ StartUnlock(t) \/ StartSave(t) \/ StartRecover(t)

LEMMA StartStepLeaves ==
  ASSUME TypeInvariant, NEW t \in Tabs, StartStep(t)
  PROVE  /\ tabs[t].do = Rest
         /\ \E d \in Beginning \cup Opening :
              /\ Redone(t, d)
              /\ d.kind = "save" => tabs[t].me # None
              /\ d.kind = "onboard" => tabs[t].page = "onboard"
              /\ d.kind = "recover" => d.kit \in kits
         /\ made' \in Nat
<1>0. made \in Nat /\ kits \subseteq Number /\ tabs[t].do \in Doing
  BY DEF TypeInvariant, TypeOK, Tab
<1>1. tabs[t].do = Rest
  BY <1>0, DoingAt
     DEF StartStep, StartOnboard, StartUnlock, StartSave, StartRecover, InApp, Resting, Doing, Drafts,
     Beginning, Opening, Sealing, Sending, Waiting, Reopening, Kinds
<1>2. ASSUME Make PROVE made' \in Number
  BY <1>0, <1>2 DEF Make, Number
<1>3. ASSUME NEW d \in Beginning \cup Opening, tabs' = [tabs EXCEPT ![t].do = d]
      PROVE  Redone(t, d)
  BY <1>3, Redo DEF Doing, TypeInvariant
<1>4. CASE StartOnboard(t)
  <2> DEFINE d == [kind |-> "onboard", at |-> "me", new |-> made']
  <2>1. d \in Beginning
    BY <1>2, <1>4 DEF StartOnboard, Beginning
  <2>2. tabs[t].page = "onboard" /\ tabs' = [tabs EXCEPT ![t].do = d]
    BY <1>4 DEF StartOnboard
  <2>3. Redone(t, d) /\ d.kind = "onboard" /\ made' \in Nat
    BY <1>2, <1>3, <1>4, <2>1, <2>2 DEF StartOnboard, Number
  <2> HIDE DEF d
  <2> QED
    BY <1>1, <2>1, <2>2, <2>3
<1>5. CASE StartUnlock(t)
  <2>1. PICK pw \in 1 .. made :
          tabs' = [tabs EXCEPT ![t].do = [kind |-> "unlock", at |-> "keys", lock |-> pw]]
    BY <1>5 DEF StartUnlock
  <2> DEFINE d == [kind |-> "unlock", at |-> "keys", lock |-> pw]
  <2>2. d \in Opening
    BY <1>0 DEF Opening, Number
  <2>3. Redone(t, d) /\ d.kind = "unlock" /\ made' \in Nat
    BY <1>0, <1>3, <1>5, <2>1, <2>2 DEF StartUnlock, outside
  <2> HIDE DEF d
  <2> QED
    BY <1>1, <2>2, <2>3
<1>6. CASE StartSave(t)
  <2> DEFINE d == [kind |-> "save", at |-> "keys", new |-> made']
  <2>1. d \in Opening
    BY <1>2, <1>6 DEF StartSave, Opening
  <2>2. tabs[t].me # None /\ tabs' = [tabs EXCEPT ![t].do = d]
    BY <1>6 DEF StartSave, InApp
  <2>3. Redone(t, d) /\ d.kind = "save" /\ made' \in Nat
    BY <1>2, <1>3, <1>6, <2>1, <2>2 DEF StartSave, Number
  <2> HIDE DEF d
  <2> QED
    BY <1>1, <2>1, <2>2, <2>3
<1>7. CASE StartRecover(t)
  <2>1. PICK kit \in kits : /\ Make
          /\ tabs' = [tabs EXCEPT ![t].do =
                        [kind |-> "recover", at |-> "keys", new |-> made', kit |-> kit]]
    BY <1>7 DEF StartRecover
  <2> DEFINE d == [kind |-> "recover", at |-> "keys", new |-> made', kit |-> kit]
  <2>2. d \in Opening
    BY <1>0, <1>2, <2>1 DEF Opening
  <2>3. Redone(t, d) /\ d.kind = "recover" /\ d.kit = kit /\ made' \in Nat
    BY <1>2, <1>3, <2>1, <2>2 DEF Number
  <2> HIDE DEF d
  <2> QED
    BY <1>1, <2>2, <2>3
<1> QED
  BY <1>4, <1>5, <1>6, <1>7 DEF StartStep

\* What a window about to seal has, by what it read.
LEMMA AskMeLeaves ==
  ASSUME TypeInvariant, NEW t \in Tabs, AskMe(t)
  PROVE  /\ tabs[t].do \in Beginning
         /\ \/ Redone(t, Rest)
            \/ \E d \in Sealing : d.kind = "onboard" /\ Redone(t, d)
<1>1. tabs[t].do \in Beginning
  BY DoingAt DEF AskMe, At, TypeInvariant, TypeOK, Tab
<1>2. CASE Stop(t)
  BY <1>1, <1>2, Stopped DEF TypeInvariant
<1>3. CASE ~Stop(t)
  <2> DEFINE new == tabs[t].do.new
             d == [kind |-> "onboard", at |-> "status", new |-> new, kit |-> new, sk |-> new,
                   mode |-> tenant.mode, par |-> defaults]
  <2>1. tenant # None
    BY <1>1 DEF TypeInvariant, NotSetUp, Beginning
  <2>2. d \in Sealing
    BY <1>1, <2>1 DEF Sealing, Beginning, TypeInvariant, TypeOK, Tenant
  <2>3. tabs' = [tabs EXCEPT ![t].do = d]
    BY <1>3 DEF AskMe
  <2>4. d.kind = "onboard"
    OBVIOUS
  <2> HIDE DEF d
  <2> QED
    BY <1>1, <2>2, <2>3, <2>4, Redo DEF Doing, TypeInvariant
<1> QED
  BY <1>2, <1>3

LEMMA OpenForChangeLeaves ==
  ASSUME TypeInvariant, NEW t \in Tabs, OpenForChange(t)
  PROVE  /\ tabs[t].do \in Opening /\ tabs[t].do.kind = "save"
         /\ \/ Redone(t, Rest)
            \/ /\ row.pub # 0 /\ row.sealed # None
               /\ \E d \in Sealing :
                    d.kind = "save" /\ d.sk = row.sealed.sk /\ Redone(t, d)
<1>1. tabs[t].do \in Opening /\ tabs[t].do.kind = "save"
  BY DoingAt DEF OpenForChange, At, TypeInvariant, TypeOK, Tab
<1>2. CASE Stop(t)
  BY <1>1, <1>2, Stopped DEF TypeInvariant
<1>3. CASE ~Stop(t)
  <2> DEFINE new == tabs[t].do.new
             d == [kind |-> "save", at |-> "status", new |-> new, kit |-> new,
                   sk |-> row.sealed.sk, mode |-> tabs[t].me, par |-> tabs[t].par]
  <2>1. /\ row.pub # 0 /\ row.sealed # None /\ row.sealed.par = tabs[t].par
        /\ tabs' = [tabs EXCEPT ![t].do = d]
    BY <1>3 DEF OpenForChange, Opens, Keys
  <2>2. row.sealed \in Blob /\ tabs[t].me \in Modes
    BY <1>1, <2>1 DEF TypeInvariant, TypeOK, Row, Tab, RightPlace
  <2>3. d \in Sealing
    BY <1>1, <2>1, <2>2 DEF Sealing, Opening, Blob
  <2>4. d.kind = "save" /\ d.sk = row.sealed.sk
    OBVIOUS
  <2> HIDE DEF d
  <2> QED
    BY <1>1, <2>1, <2>3, <2>4, Redo DEF Doing, TypeInvariant
<1> QED
  BY <1>2, <1>3

\* One key, sealed for the mode the window knows of.
LEMMA BodySeals ==
  ASSUME NEW d, d.new \in Number, d.kit \in Number, d.mode \in Modes, d.par \in Params,
         NEW sk \in Number, NEW e, d.mode = "admin_escrow" => e \in Number
  PROVE  LET b == Body(d, sk, e)
         IN  /\ b \in Posted /\ b.sk = sk /\ b.mode = d.mode
             /\ b.sealed.sk = b.sk /\ b.sealed.par = b.par
             /\ IF b.mode = "user_kit"
                THEN /\ b.escrow = None /\ b.kit # None
                     /\ b.kit.sk = b.sk /\ b.kit.par = b.par /\ b.kit.lock = d.kit
                ELSE b.kit = None /\ b.escrow # None /\ b.escrow.sk = b.sk /\ b.escrow.to = e
<1> DEFINE sealed == [sk |-> sk, lock |-> d.new, par |-> d.par]
           kit == [sk |-> sk, lock |-> d.kit, par |-> d.par]
           escrow == [sk |-> sk, to |-> e]
<1>1. sealed \in Blob /\ kit \in Blob /\ (d.mode = "admin_escrow" => escrow \in EscrowCopy)
  BY DEF Blob, EscrowCopy
<1>2. kit # None /\ (d.mode = "admin_escrow" => escrow # None)
  BY <1>1, VaultKeysAssumption
<1>3. /\ sealed.sk = sk /\ sealed.par = d.par
      /\ kit.sk = sk /\ kit.par = d.par /\ kit.lock = d.kit
      /\ escrow.sk = sk /\ escrow.to = e
  OBVIOUS
<1>4. Body(d, sk, e) =
        [sk |-> sk, par |-> d.par, mode |-> d.mode, sealed |-> sealed,
         kit |-> IF d.mode = "user_kit" THEN kit ELSE None,
         escrow |-> IF d.mode = "admin_escrow" THEN escrow ELSE None]
  BY DEF Body, Seal
<1> HIDE DEF sealed, kit, escrow
<1> QED
  BY <1>1, <1>2, <1>3, <1>4 DEF Posted, Modes

\* What a window that posts has sealed; who comes back to the tab with a change
\* sees the kit first.
Sealed(d) ==
  LET b == d.body IN
  /\ b.sealed.sk = b.sk /\ b.sealed.par = b.par
  /\ IF b.mode = "user_kit"
     THEN b.escrow = None /\ b.kit # None /\ b.kit.sk = b.sk /\ b.kit.par = b.par
     ELSE b.kit = None /\ b.escrow # None /\ b.escrow.sk = b.sk

LEMMA PrepareLeaves ==
  ASSUME TypeInvariant, NEW t \in Tabs, Prepare(t)
  PROVE  /\ tabs[t].do \in Sealing
         /\ kits \subseteq kits' /\ kits' \subseteq Number
         /\ \/ Redone(t, Rest)
            \/ \E d \in Sending :
                 /\ Redone(t, d) /\ Sealed(d)
                 /\ d.kind = tabs[t].do.kind /\ d.body.sk = tabs[t].do.sk
                 /\ d.kind = "save" /\ d.body.mode = "user_kit" => d.body.kit.lock \in kits'
                 /\ d.body.mode = "admin_escrow" =>
                      d.body.escrow.to = tenant.escrow /\ tenant.escrow # 0
<1> DEFINE q == tabs[t].do
<1>1. q \in Sealing
  BY DoingAt DEF Prepare, At, TypeInvariant, TypeOK, Tab
<1>2. kits \subseteq Number
  BY DEF TypeInvariant, TypeOK
<1>3. CASE Stop(t) /\ UNCHANGED kits
  BY <1>1, <1>2, <1>3, Stopped DEF TypeInvariant
<1>4. CASE ~(Stop(t) /\ UNCHANGED kits)
  <2> DEFINE e == tenant.escrow
             b == Body(q, q.sk, e)
             d == [kind |-> q.kind, at |-> "post", new |-> q.new, body |-> b]
  <2>1. /\ ~(q.mode = "admin_escrow" /\ e = 0)
        /\ tabs' = [tabs EXCEPT ![t].do = d] /\ kits' = kits \cup KitInField(t)
    BY <1>4 DEF Prepare, Posting
  <2>2. q.mode = "admin_escrow" => e \in Number
    <3>1. tenant \in Tenant
      BY <1>1 DEF TypeInvariant, TypeOK, NotSetUp, Sealing
    <3> QED
      BY <2>1, <3>1 DEF Tenant, Number
  <2>3. /\ q.new \in Number /\ q.kit \in Number /\ q.sk \in Number
        /\ q.mode \in Modes /\ q.par \in Params /\ q.kind \in Kinds
    BY <1>1 DEF Sealing, Kinds
  <2>4. KitInField(t) = IF q.kind = "save" /\ q.mode = "user_kit" THEN {q.kit} ELSE {}
    BY DEF KitInField
  <2> HIDE DEF e, q
  <2>5. /\ b \in Posted /\ b.sk = q.sk /\ b.mode = q.mode
        /\ b.sealed.sk = b.sk /\ b.sealed.par = b.par
        /\ IF b.mode = "user_kit"
           THEN /\ b.escrow = None /\ b.kit # None
                /\ b.kit.sk = b.sk /\ b.kit.par = b.par /\ b.kit.lock = q.kit
           ELSE b.kit = None /\ b.escrow # None /\ b.escrow.sk = b.sk /\ b.escrow.to = e
    BY <2>2, <2>3, BodySeals
  <2> HIDE DEF b
  <2>6. d \in Sending /\ d.kind = q.kind /\ d.body = b
    BY <2>3, <2>5 DEF Sending
  <2> HIDE DEF d
  <2>7. Redone(t, d)
    BY <2>1, <2>6, Redo DEF Doing, TypeInvariant
  <2>8. Sealed(d)
    BY <2>5, <2>6 DEF Sealed
  <2>9. kits \subseteq kits' /\ kits' \subseteq Number
    BY <1>2, <2>1, <2>3, <2>4
  <2>10. d.kind = "save" /\ d.body.mode = "user_kit" => d.body.kit.lock \in kits'
    BY <2>1, <2>4, <2>5, <2>6
  <2>11. d.body.mode = "admin_escrow" => d.body.escrow.to = e /\ e # 0
    BY <2>2, <2>5, <2>6 DEF Number
  <2> QED
    BY <1>1, <2>5, <2>6, <2>7, <2>8, <2>9, <2>10, <2>11 DEF e, q
<1> QED
  BY <1>3, <1>4

LEMMA OpenWithKitLeaves ==
  ASSUME TypeInvariant, NEW t \in Tabs, OpenWithKit(t)
  PROVE  /\ tabs[t].do \in Opening /\ tabs[t].do.kind = "recover"
         /\ \/ Redone(t, Rest)
            \/ /\ row.pub # 0 /\ row.kit # None
               /\ \E d \in Sending :
                    /\ Redone(t, d) /\ Sealed(d) /\ d.kind = "recover"
                    /\ d.body.sk = row.kit.sk /\ d.body.mode = "user_kit"
                    /\ d.body.kit.lock = tabs[t].do.kit
<1> DEFINE q == tabs[t].do
<1>1. q \in Opening /\ q.kind = "recover"
  BY DoingAt DEF OpenWithKit, At, TypeInvariant, TypeOK, Tab
<1>2. CASE Stop(t)
  BY <1>1, <1>2, Stopped DEF TypeInvariant
<1>3. CASE ~Stop(t)
  <2> DEFINE s == [new |-> q.new, kit |-> q.kit, mode |-> "user_kit", par |-> Keys.kit.par]
             b == Body(s, Keys.kit.sk, 0)
             d == Posting(q, b)
  <2>1. row.pub # 0 /\ Keys.kit # None /\ tabs' = [tabs EXCEPT ![t].do = d]
    BY <1>3 DEF OpenWithKit, Opens
  <2>2. Keys.kit = row.kit /\ row.kit # None
    BY <2>1 DEF Keys
  <2>3. row.kit \in Blob
    BY <2>2 DEF TypeInvariant, TypeOK, Row
  <2>4. /\ s.new \in Number /\ s.kit \in Number /\ s.mode = "user_kit" /\ s.par \in Params
        /\ s.kit = q.kit /\ Keys.kit.sk \in Number
    BY <1>1, <2>2, <2>3 DEF Opening, Blob
  <2> HIDE DEF s
  <2>5. /\ b \in Posted /\ b.sk = Keys.kit.sk /\ b.mode = "user_kit"
        /\ b.sealed.sk = b.sk /\ b.sealed.par = b.par
        /\ b.escrow = None /\ b.kit # None
        /\ b.kit.sk = b.sk /\ b.kit.par = b.par /\ b.kit.lock = s.kit
    BY <2>4, BodySeals DEF Modes
  <2> HIDE DEF b
  <2>6. d \in Sending /\ d.kind = "recover" /\ d.body = b
    BY <1>1, <2>5 DEF Sending, Posting, Kinds, Opening
  <2> HIDE DEF d
  <2>7. Redone(t, d) /\ Sealed(d)
    BY <2>1, <2>5, <2>6, Redo DEF Doing, TypeInvariant, Sealed
  <2> QED
    BY <1>1, <2>1, <2>2, <2>4, <2>5, <2>6, <2>7
<1> QED
  BY <1>2, <1>3

\* The steps of a request, and what its answer does.
LEMMA ArriveLeaves ==
  ASSUME TypeInvariant, NEW t \in Tabs, Arrive(t)
  PROVE  /\ tabs[t].do \in Sending
         /\ \/ Redone(t, Rest)
            \/ /\ Takes(row, tenant, tabs[t].do)
               /\ \E d \in Waiting :
                    /\ Redone(t, d) /\ d.at = "in"
                    /\ d.kind = tabs[t].do.kind /\ d.body = tabs[t].do.body
                    /\ d.write = Filed(row, tenant, tabs[t].do)
<1> DEFINE q == tabs[t].do
<1>1. q \in Sending
  BY DoingAt DEF Arrive, At, TypeInvariant, TypeOK, Tab
<1>2. CASE Stop(t)
  BY <1>1, <1>2, Stopped DEF TypeInvariant
<1>3. CASE ~Stop(t)
  <2> DEFINE write == Filed(row, tenant, q)
             d == [kind |-> q.kind, at |-> "in", new |-> q.new, body |-> q.body, write |-> write]
  <2>1. Takes(row, tenant, q) /\ tabs' = [tabs EXCEPT ![t].do = d]
    BY <1>3 DEF Arrive
  <2>2. write \in Row
    <3>1. row \in Row /\ q.body \in Posted
      BY <1>1 DEF TypeInvariant, TypeOK, Sending
    <3>2. q.body.sk \in Nat /\ q.body.par \in Params /\ q.body.sealed \in Blob
      BY <3>1 DEF Posted, Number
    <3> QED
      BY <3>1, <3>2 DEF Filed, Row, Posted
  <2> HIDE DEF write
  <2>3. d \in Waiting /\ d.at = "in" /\ d.kind = q.kind /\ d.body = q.body /\ d.write = write
    BY <1>1, <2>2 DEF Sending, Waiting
  <2> HIDE DEF d
  <2>4. Redone(t, d)
    BY <2>1, <2>3, Redo DEF Doing, TypeInvariant
  <2> QED
    BY <1>1, <2>1, <2>3, <2>4 DEF write
<1> QED
  BY <1>2, <1>3

LEMMA StoreLeaves ==
  ASSUME TypeInvariant, NEW t \in Tabs, Store(t)
  PROVE  /\ tabs[t].do \in Waiting /\ tabs[t].do.at = "in" /\ row' = tabs[t].do.write
         /\ \E d \in Waiting :
              /\ Redone(t, d) /\ d.at = "answer"
              /\ d.kind = tabs[t].do.kind /\ d.body = tabs[t].do.body
<1> DEFINE q == tabs[t].do
           d == [q EXCEPT !.at = "answer"]
<1>1. q \in Waiting /\ q.at = "in"
  BY DoingAt DEF Store, At, TypeInvariant, TypeOK, Tab
<1>2. tabs' = [tabs EXCEPT ![t].do = d] /\ row' = q.write
  <2>1. tabs' = [tabs EXCEPT ![t].do.at = "answer"]
    BY DEF Store, Go
  <2> QED
    BY <2>1 DEF Store
<1>3. d \in Waiting /\ d.at = "answer" /\ d.kind = q.kind /\ d.body = q.body
  BY <1>1 DEF Waiting
<1> HIDE DEF d
<1>4. Redone(t, d)
  BY <1>2, <1>3, Redo DEF Doing, TypeInvariant
<1> QED
  BY <1>1, <1>2, <1>3, <1>4

\* The window opens: the key in memory is the one in the blob.
Opened(t, sk, par) ==
  /\ Only(t) /\ tabs'[t].do = Rest /\ tabs'[t].sk = sk /\ tabs'[t].par = par
  /\ tabs'[t].page = tabs[t].page /\ tabs'[t].me = tabs[t].me

LEMMA OpenedAs ==
  ASSUME TypeOK, NEW t \in Tabs, NEW blob, NEW par \in Params \cup {None}, blob.sk \in Nat,
         Unlocked(t, blob, par)
  PROVE  Opened(t, blob.sk, par)
<1> DEFINE w == [tabs[t] EXCEPT !.sk = blob.sk, !.par = par, !.locked = FALSE, !.do = Rest]
<1>1. tabs[t] \in Tab /\ Rest \in Doing
  BY DEF TypeOK, Doing
<1>2. w \in Tab
  BY <1>1 DEF Tab
<1>3. /\ w.sk = blob.sk /\ w.par = par /\ w.do = Rest
      /\ w.page = tabs[t].page /\ w.me = tabs[t].me
  BY <1>1 DEF Tab
<1>4. tabs' = [tabs EXCEPT ![t] = w]
  BY DEF Unlocked, TypeOK
<1> HIDE DEF w
<1> QED
  BY <1>2, <1>3, <1>4, Replace DEF Opened

LEMMA UnlockLeaves ==
  ASSUME TypeInvariant, NEW t \in Tabs, Unlock(t)
  PROVE  /\ tabs[t].do \in Opening /\ tabs[t].do.kind = "unlock"
         /\ \/ Redone(t, Rest) /\ UNCHANGED persists
            \/ /\ row.pub # 0 /\ row.sealed \in Blob /\ Opened(t, row.sealed.sk, row.sealed.par)
               /\ \/ UNCHANGED persists
                  \/ persists' = persists \cup {[par |-> row.sealed.par, row |-> None]}
<1> DEFINE q == tabs[t].do
<1>1. q \in Opening /\ q.kind = "unlock"
  BY DoingAt DEF Unlock, At, TypeInvariant, TypeOK, Tab
<1>2. CASE Stop(t) /\ UNCHANGED persists
  BY <1>1, <1>2, Stopped DEF TypeInvariant
<1>3. CASE ~(Stop(t) /\ UNCHANGED persists)
  <2>1. /\ row.pub # 0 /\ row.sealed # None /\ Unlocked(t, row.sealed, row.sealed.par)
        /\ \/ UNCHANGED persists
           \/ persists' = persists \cup {[par |-> row.sealed.par, row |-> None]}
    BY <1>3 DEF Unlock, Opens, Keys
  <2>2. row.sealed \in Blob
    BY <2>1 DEF TypeInvariant, TypeOK, Row
  <2>3. row.sealed.sk \in Nat /\ row.sealed.par \in Params
    BY <2>2 DEF Blob, Number
  <2> QED
    BY <1>1, <2>1, <2>2, <2>3, OpenedAs DEF TypeInvariant
<1> QED
  BY <1>2, <1>3

LEMMA UnlockAgainLeaves ==
  ASSUME TypeInvariant, NEW t \in Tabs, UnlockAgain(t)
  PROVE  /\ tabs[t].do \in Reopening
         /\ \/ row.pub # 0 /\ row.sealed \in Blob /\ Opened(t, row.sealed.sk, row.sealed.par)
            \/ Opened(t, tabs[t].sk, tabs[t].par)
<1> DEFINE q == tabs[t].do
<1>1. q \in Reopening /\ tabs[t].sk \in Nat /\ tabs[t].par \in Params \cup {None}
  BY DoingAt DEF UnlockAgain, At, TypeInvariant, TypeOK, Tab
<1>2. CASE Unlocked(t, [sk |-> tabs[t].sk], tabs[t].par)
  BY <1>1, <1>2, OpenedAs DEF TypeInvariant
<1>3. CASE ~Unlocked(t, [sk |-> tabs[t].sk], tabs[t].par)
  <2>1. row.pub # 0 /\ row.sealed # None /\ Unlocked(t, row.sealed, row.sealed.par)
    BY <1>3 DEF UnlockAgain, Opens, Keys
  <2>2. row.sealed \in Blob
    BY <2>1 DEF TypeInvariant, TypeOK, Row
  <2>3. row.sealed.sk \in Nat /\ row.sealed.par \in Params
    BY <2>2 DEF Blob, Number
  <2> QED
    BY <1>1, <2>1, <2>2, <2>3, OpenedAs DEF TypeInvariant
<1> QED
  BY <1>2, <1>3

LEMMA AnsweredLeaves ==
  ASSUME TypeInvariant, NEW t \in Tabs, Answered(t)
  PROVE  /\ tabs[t].do \in Waiting /\ tabs[t].do.at = "answer"
         /\ Only(t)
         /\ kits \subseteq kits' /\ kits' \subseteq Number
         /\ tabs[t].do.body.kit # None => tabs[t].do.body.kit.lock \in kits'
         /\ \/ tabs[t].do.kind = "onboard" /\ tabs'[t] = Fresh("kit")
            \/ /\ tabs[t].do.kind # "onboard"
               /\ tabs'[t].sk = tabs[t].do.body.sk /\ tabs'[t].do \in {Rest} \cup Reopening
<1> DEFINE q == tabs[t].do
<1>1. q \in Waiting /\ q.at = "answer" /\ tabs[t] \in Tab
  BY DoingAt DEF Answered, At, TypeInvariant, TypeOK, Tab
<1>2. q.kind \in Kinds /\ q.new \in Number /\ q.body.sk \in Nat /\ q.body.par \in Params
      /\ (q.body.kit # None => q.body.kit.lock \in Number)
  BY <1>1 DEF Waiting, Posted, Number, Blob
<1>3. kits' = IF q.body.kit = None THEN kits ELSE kits \cup {q.body.kit.lock}
  BY DEF Answered
<1>4. /\ kits \subseteq kits' /\ kits' \subseteq Number
      /\ q.body.kit # None => q.body.kit.lock \in kits'
  BY <1>2, <1>3 DEF TypeInvariant, TypeOK
<1>5. CASE q.kind = "onboard"
  <2>1. tabs' = [tabs EXCEPT ![t] = Fresh("kit")]
    BY <1>5 DEF Answered
  <2> QED
    BY <1>1, <1>4, <1>5, <2>1, FreshTab, Replace DEF Pages, TypeInvariant
<1>6. CASE q.kind = "save"
  <2> DEFINE w == [tabs[t] EXCEPT !.sk = q.body.sk, !.do = Rest]
  <2>1. tabs' = [tabs EXCEPT ![t].sk = q.body.sk, ![t].do = Rest]
    BY <1>6 DEF Answered
  <2>2. tabs' = [tabs EXCEPT ![t] = w]
    BY <2>1 DEF TypeInvariant, TypeOK
  <2>3. w \in Tab /\ w.sk = q.body.sk /\ w.do = Rest
    BY <1>1, <1>2 DEF Tab, Doing
  <2> HIDE DEF w
  <2> QED
    BY <1>1, <1>4, <1>6, <2>2, <2>3, Replace DEF TypeInvariant
<1>7. CASE q.kind = "recover"
  <2> DEFINE d == [kind |-> "again", at |-> "again", lock |-> q.new]
             w == [tabs[t] EXCEPT !.sk = q.body.sk, !.par = q.body.par, !.do = d]
  <2>1. tabs' = [tabs EXCEPT ![t].sk = q.body.sk, ![t].par = q.body.par, ![t].do = d]
    BY <1>7 DEF Answered
  <2>2. d \in Reopening
    BY <1>2 DEF Reopening
  <2> HIDE DEF d
  <2>3. tabs' = [tabs EXCEPT ![t] = w]
    BY <2>1 DEF TypeInvariant, TypeOK
  <2>4. w \in Tab /\ w.sk = q.body.sk /\ w.do = d
    BY <1>1, <1>2, <2>2 DEF Tab, Doing
  <2> HIDE DEF w
  <2> QED
    BY <1>1, <1>4, <1>7, <2>2, <2>3, <2>4, Replace DEF TypeInvariant
<1> QED
  BY <1>2, <1>5, <1>6, <1>7 DEF Kinds

\* Steps that leave alone what the window is about.
LEMMA LockLeaves ==
  ASSUME TypeInvariant, NEW t \in Tabs, Lock(t)
  PROVE  /\ Only(t) /\ tabs'[t].sk = 0 /\ tabs'[t].do = tabs[t].do
         /\ tabs'[t].page = tabs[t].page /\ tabs'[t].me = tabs[t].me
<1> DEFINE w == [tabs[t] EXCEPT !.sk = 0, !.locked = TRUE]
<1>1. tabs' = [tabs EXCEPT ![t] = w] /\ w \in Tab
  BY DEF Lock, TypeInvariant, TypeOK, Tab
<1>2. w.sk = 0 /\ w.do = tabs[t].do /\ w.page = tabs[t].page /\ w.me = tabs[t].me
  BY DEF TypeInvariant, TypeOK, Tab
<1> HIDE DEF w
<1> QED
  BY <1>1, <1>2, Replace DEF TypeInvariant

LEMMA OpenAppLeaves ==
  ASSUME TypeInvariant, NEW t \in Tabs, OpenApp(t)
  PROVE  /\ Only(t) /\ tabs'[t].sk = tabs[t].sk /\ tabs'[t].do = tabs[t].do
         /\ tabs[t].page = "app" /\ tabs[t].me = None /\ tenant # None
<1> DEFINE page == Landing
           me == IF Landing = "app" THEN tenant.mode ELSE None
           w == [tabs[t] EXCEPT !.page = page, !.me = me]
<1>1. tabs[t].page = "app" /\ tabs[t].me = None /\ tenant # None
  BY DEF OpenApp, TypeInvariant, NotSetUp
<1>2. page \in Pages /\ me \in Modes \cup {None}
  BY <1>1 DEF Landing, Pages, Tenant, TypeInvariant, TypeOK
<1>3. tabs' = [tabs EXCEPT ![t].page = page, ![t].me = me]
  BY DEF OpenApp
<1> HIDE DEF page, me
<1>4. tabs' = [tabs EXCEPT ![t] = w]
  BY <1>3 DEF TypeInvariant, TypeOK
<1>5. w \in Tab /\ w.sk = tabs[t].sk /\ w.do = tabs[t].do
  BY <1>2 DEF TypeInvariant, TypeOK, Tab
<1> HIDE DEF w
<1> QED
  BY <1>1, <1>4, <1>5, Replace DEF TypeInvariant

\* What the rest of the types needs of a step of a window.
LEMMA WindowTypes ==
  ASSUME TypeInvariant, NEW t \in Tabs, Only(t),
         UNCHANGED <<ceremony, secrets, admins, shares, escrows>>,
         row' \in Row, tenant' \in Tenant \cup {None}, tenant' = None => tenant = None /\ row' = row,
         defaults' \in Params, totp' \in BOOLEAN, kits' \subseteq Number, made' \in Nat,
         moves' = moves \/ Move,
         persists' \subseteq [par : Params, row : Row \cup {None}], gone' \in Losses,
         tenant' = None => persists' = {} /\ tabs'[t].page = "setup" /\ tabs'[t].do.kind = "setup",
         tabs'[t].do.kind = "save" => tabs'[t].me # None,
         tabs'[t].do.kind = "onboard" => tabs'[t].page = "onboard"
  PROVE  TypeInvariant'
<1>1. moves' \in 0 .. MaxMoves
  BY VaultKeysAssumption DEF Move, TypeInvariant, TypeOK
<1>2. TypeOK'
  BY <1>1 DEF TypeInvariant, TypeOK, Only
<1>3. NotSetUp'
  BY DEF TypeInvariant, NotSetUp, Only
<1>4. RightPlace'
  BY DEF TypeInvariant, RightPlace, Only
<1> QED
  BY <1>2, <1>3, <1>4 DEF TypeInvariant

\* A window that is about nothing of the server yet keeps the types.
LEMMA QuietTypes ==
  ASSUME TypeInvariant, NEW t \in Tabs, Only(t), UNCHANGED <<server, persists, admins, shares, escrows>>,
         kits' \subseteq Number, made' \in Nat, moves' = moves \/ Move, gone' \in Losses,
         tenant = None => tabs'[t].page = "setup" /\ tabs'[t].do.kind = "setup",
         tabs'[t].do.kind = "save" => tabs'[t].me # None,
         tabs'[t].do.kind = "onboard" => tabs'[t].page = "onboard"
  PROVE  TypeInvariant'
BY WindowTypes DEF server, TypeInvariant, TypeOK, NotSetUp

LEMMA KindOf ==
  /\ \A d \in Drafts : d.kind = "setup"
  /\ \A d \in Reopening : d.kind = "again"
  /\ \A d \in Beginning : d.kind = "onboard"
  /\ \A d \in Opening : d.kind \in {"unlock", "save", "recover"}
  /\ \A d \in Sealing : d.kind \in {"onboard", "save"}
  /\ \A d \in Sending : d.kind \in Kinds
  /\ \A d \in Waiting : d.kind \in Kinds
  /\ Rest.kind = "rest"
BY DEF Drafts, Reopening, Beginning, Opening, Sealing, Sending, Waiting, Kinds, Rest

\* A window that waits for something knows that the server is set up.
LEMMA SetUpFor ==
  ASSUME TypeInvariant, NEW t \in Tabs, tabs[t].do \notin Drafts
  PROVE  tenant # None
<1>1. tabs[t].do \in Doing
  BY DEF TypeInvariant, TypeOK, Tab
<1>2. tabs[t].do.kind # "setup"
  BY <1>1, DoingAt
<1> QED
  BY <1>2 DEF TypeInvariant, NotSetUp

\* The steps of a window that read the server and write nothing there.
ReadStep(t) ==
  WizardStep(t) \/ OpenApp(t) \/ StartStep(t) \/ AskMe(t) \/ Prepare(t) \/ OpenForChange(t)
  \/ OpenWithKit(t) \/ Arrive(t) \/ Answered(t) \/ UnlockAgain(t) \/ Lost(t) \/ Lock(t)

LEMMA ReadStepTypes ==
  ASSUME TypeInvariant, NEW t \in Tabs, ReadStep(t)
  PROVE  TypeInvariant'
<1>a. /\ UNCHANGED <<server, persists, admins, shares, escrows>> /\ (moves' = moves \/ Move)
      /\ UNCHANGED gone \/ KitGone(t)
  BY DEF ReadStep, WizardStep, StepPlain, StepCrypto, StepRecovery, StepBack, Turn, OpenApp, StartStep,
     StartOnboard, StartUnlock, StartSave, StartRecover, AskMe, Prepare, OpenForChange, OpenWithKit,
     Arrive, Answered, UnlockAgain, Lost, Lock, outside
<1>1. UNCHANGED <<server, persists, admins, shares, escrows>> /\ (moves' = moves \/ Move) /\ gone' \in Losses
  BY <1>a, LossesGrow
<1>0. kits \subseteq Number /\ made \in Nat
  BY DEF TypeInvariant, TypeOK
<1> DEFINE Kept == kits' = kits /\ made' = made
<1>2. ASSUME NEW d, Redone(t, d), tabs[t].do \notin Drafts, d.kind = "save" => tabs[t].me # None,
             d.kind = "onboard" => tabs[t].page = "onboard", kits' \subseteq Number, made' \in Nat
      PROVE  TypeInvariant'
  BY <1>1, <1>2, SetUpFor, QuietTypes DEF Redone
<1>3. ASSUME NEW d, Redone(t, d), tabs[t].do \notin Drafts, d.kind = tabs[t].do.kind,
             kits' \subseteq Number, made' \in Nat
      PROVE  TypeInvariant'
  BY <1>2, <1>3 DEF TypeInvariant, RightPlace
<1>4. ASSUME tabs[t].do \notin Drafts, Redone(t, Rest), kits' \subseteq Number, made' \in Nat
      PROVE  TypeInvariant'
  BY <1>2, <1>4, KindOf
<1>5. CASE WizardStep(t)
  <2>1. Kept
    BY <1>5 DEF WizardStep, StepPlain, StepCrypto, StepRecovery, StepBack, Turn, outside
  <2>2. tabs[t].do \in Drafts /\ \E d \in Drafts : Redone(t, d)
    BY <1>5, WizardStepLeaves
  <2>3. tabs'[t].do.kind = "setup" /\ tabs'[t].page = tabs[t].page
    BY <2>2, KindOf DEF Redone
  <2>4. tenant = None => tabs[t].page = "setup"
    BY DEF TypeInvariant, NotSetUp
  <2> QED
    BY <1>0, <1>1, <2>1, <2>2, <2>3, <2>4, QuietTypes DEF Redone
<1>6. CASE OpenApp(t)
  <2>1. Kept
    BY <1>6 DEF OpenApp, outside
  <2>2. tabs'[t].do.kind \notin {"save", "onboard"}
    BY <1>6, OpenAppLeaves DEF TypeInvariant, RightPlace
  <2> QED
    BY <1>0, <1>1, <1>6, <2>1, <2>2, OpenAppLeaves, QuietTypes
<1>7. CASE StartStep(t)
  <2>1. kits' = kits
    BY <1>7 DEF StartStep, StartOnboard, StartUnlock, StartSave, StartRecover, outside
  <2>2. Rest \notin Drafts
    BY KindOf
  <2> QED
    BY <1>0, <1>2, <1>7, <2>1, <2>2, StartStepLeaves
<1>8. CASE AskMe(t)
  <2>1. Kept
    BY <1>8 DEF AskMe, outside
  <2>2. tabs[t].do.kind = "onboard" /\ tabs[t].do \notin Drafts
    BY <1>8, AskMeLeaves, KindOf
  <2> QED
    BY <1>0, <1>3, <1>4, <1>8, <2>1, <2>2, AskMeLeaves
<1>9. CASE Prepare(t)
  <2>1. made' = made
    BY <1>9 DEF Prepare
  <2>2. tabs[t].do \notin Drafts
    BY <1>9, PrepareLeaves, KindOf
  <2> QED
    BY <1>0, <1>3, <1>4, <1>9, <2>1, <2>2, PrepareLeaves
<1>10. CASE OpenForChange(t)
  <2>1. Kept
    BY <1>10 DEF OpenForChange, outside
  <2>2. tabs[t].do.kind = "save" /\ tabs[t].do \notin Drafts
    BY <1>10, OpenForChangeLeaves, KindOf
  <2> QED
    BY <1>0, <1>3, <1>4, <1>10, <2>1, <2>2, OpenForChangeLeaves
<1>11. CASE OpenWithKit(t)
  <2>1. Kept
    BY <1>11 DEF OpenWithKit, outside
  <2>2. tabs[t].do.kind = "recover" /\ tabs[t].do \notin Drafts
    BY <1>11, OpenWithKitLeaves, KindOf
  <2> QED
    BY <1>0, <1>3, <1>4, <1>11, <2>1, <2>2, OpenWithKitLeaves
<1>12. CASE Arrive(t)
  <2>1. Kept
    BY <1>12 DEF Arrive, outside
  <2>2. tabs[t].do \notin Drafts
    BY <1>12, ArriveLeaves, KindOf DEF Kinds
  <2> QED
    BY <1>0, <1>3, <1>4, <1>12, <2>1, <2>2, ArriveLeaves
<1>13. CASE Answered(t)
  <2>1. made' = made
    BY <1>13 DEF Answered
  <2>2. tabs[t].do \notin Drafts
    BY <1>13, AnsweredLeaves, KindOf DEF Kinds
  <2>3. tabs'[t].do.kind \in {"rest", "again"}
    BY <1>13, AnsweredLeaves, KindOf, FreshTab DEF Pages
  <2> QED
    BY <1>0, <1>1, <1>13, <2>1, <2>2, <2>3, AnsweredLeaves, SetUpFor, QuietTypes
<1>14. CASE UnlockAgain(t)
  <2>1. Kept
    BY <1>14 DEF UnlockAgain, outside
  <2>2. tabs[t].do \notin Drafts
    BY <1>14, UnlockAgainLeaves, KindOf
  <2> QED
    BY <1>0, <1>1, <1>14, <2>1, <2>2, UnlockAgainLeaves, SetUpFor, QuietTypes, KindOf DEF Opened
<1>15. CASE Lost(t)
  <2>1. Kept
    BY <1>15 DEF Lost, outside
  <2>2. tabs[t].do \in Waiting
    BY <1>15, DoingAt DEF Lost, At, TypeInvariant, TypeOK, Tab
  <2>3. tabs[t].do \notin Drafts
    BY <2>2, KindOf DEF Kinds
  <2>4. Redone(t, Rest)
    BY <1>15, Stopped DEF Lost, TypeInvariant
  <2> QED
    BY <1>0, <1>4, <2>1, <2>3, <2>4
<1>16. CASE Lock(t)
  <2>1. Kept
    BY <1>16 DEF Lock, outside
  <2> QED
    BY <1>0, <1>1, <1>16, <2>1, LockLeaves, QuietTypes DEF TypeInvariant, NotSetUp, RightPlace
<1> QED
  BY <1>5, <1>6, <1>7, <1>8, <1>9, <1>10, <1>11, <1>12, <1>13, <1>14, <1>15, <1>16 DEF ReadStep

LEMMA WriteStepTypes ==
  ASSUME TypeInvariant, NEW t \in Tabs, PageStep(t) \/ Unlock(t) \/ Store(t) \/ Secret(t)
  PROVE  TypeInvariant'
<1>0. /\ row \in Row /\ tenant \in Tenant \cup {None} /\ defaults \in Params /\ totp \in BOOLEAN
      /\ kits \subseteq Number /\ made \in Nat /\ persists \subseteq [par : Params, row : Row \cup {None}]
      /\ gone \in Losses
  BY DEF TypeInvariant, TypeOK
<1>1. CASE PageStep(t)
  <2>1. /\ UNCHANGED <<ceremony, secrets, row, persists, admins, kits, shares, made, escrows>>
        /\ moves' = moves \/ Move
        /\ UNCHANGED gone \/ KitGone(t)
    BY <1>1 DEF PageStep, HasSession, SignIn, CodeStep, SecondFactor, GoApp, Reload, Commit, server, outside
  <2>2. UNCHANGED <<tenant, defaults>> \/ Commit(t)
    BY <1>1 DEF PageStep, HasSession, SignIn, CodeStep, SecondFactor, GoApp, Reload, server
  <2>3. totp' \in BOOLEAN
    BY <1>0, <1>1 DEF PageStep, HasSession, SignIn, CodeStep, SecondFactor, GoApp, Reload, Commit, server
  <2>4. ASSUME Commit(t) PROVE tenant' \in Tenant /\ defaults' \in Params
    <3>1. tabs[t].do \in Drafts
      BY <2>4, DoingAt DEF Commit, TypeInvariant, TypeOK, Tab
    <3> QED
      BY <2>4, <3>1 DEF Commit, Drafts, Tenant
  <2>5. /\ tenant' \in Tenant \cup {None} /\ defaults' \in Params
        /\ tenant' = None => tenant = None
    BY <1>0, <2>2, <2>4, VaultKeysAssumption
  <2>6. tenant' = None => persists' = {}
    BY <2>1, <2>5 DEF TypeInvariant, NotSetUp
  <2> QED
    BY <1>0, <1>1, <2>1, <2>3, <2>5, <2>6, PageStepLeaves, LossesGrow, WindowTypes
<1>2. CASE Unlock(t)
  <2>1. UNCHANGED <<server, admins, outside, moves>>
    BY <1>2 DEF Unlock
  <2>2. tabs[t].do \notin Drafts
    BY <1>2, UnlockLeaves, KindOf
  <2>3. tenant # None
    BY <2>2, SetUpFor
  <2>4. persists' \subseteq [par : Params, row : Row \cup {None}]
    BY <1>0, <1>2, UnlockLeaves DEF Blob
  <2>5. tabs'[t].do = Rest /\ Only(t)
    BY <1>2, UnlockLeaves DEF Redone, Opened
  <2> QED
    BY <1>0, <2>1, <2>3, <2>4, <2>5, WindowTypes, KindOf DEF server, outside
<1>3. CASE Store(t)
  <2>1. UNCHANGED <<tenant, ceremony, defaults, totp, secrets, persists, admins, outside, moves>>
    BY <1>3 DEF Store
  <2>2. PICK d \in Waiting : Redone(t, d) /\ d.kind = tabs[t].do.kind
    BY <1>3, StoreLeaves
  <2>3. tabs[t].do \in Waiting /\ row' = tabs[t].do.write
    BY <1>3, StoreLeaves
  <2>4. tenant # None
    BY <2>3, SetUpFor, KindOf DEF Kinds
  <2>5. row' \in Row
    BY <2>3 DEF Waiting
  <2>6. /\ tabs'[t].do.kind = "save" => tabs'[t].me # None
        /\ tabs'[t].do.kind = "onboard" => tabs'[t].page = "onboard"
    BY <2>2 DEF Redone, TypeInvariant, RightPlace
  <2> QED
    BY <1>0, <2>1, <2>2, <2>4, <2>5, <2>6, WindowTypes DEF outside, Redone
<1>4. CASE Secret(t)
  <2>1. /\ UNCHANGED <<row, tenant, ceremony, defaults, totp, tabs, persists, admins, outside>> /\ Move
        /\ secrets' = secrets \cup {tabs[t].sk} \/ secrets' \subseteq secrets
    BY <1>4 DEF Secret
  <2>2. tabs[t].sk \in Number
    BY <1>4 DEF Secret, TypeInvariant, TypeOK, Tab, Number
  <2>3. moves' \in 0 .. MaxMoves
    BY <2>1, VaultKeysAssumption DEF Move, TypeInvariant, TypeOK
  <2> QED
    BY <2>1, <2>2, <2>3 DEF TypeInvariant, TypeOK, NotSetUp, RightPlace, outside
<1> QED
  BY <1>1, <1>2, <1>3, <1>4

\* What an administrator's step leaves of it.
AdminBecomes(a, r) == admins' = [admins EXCEPT ![a] = r]

LEMMA AdminTypes ==
  ASSUME TypeInvariant, NEW a \in Admins, NEW r \in Admin, AdminBecomes(a, r), tenant # None,
         UNCHANGED <<defaults, totp, secrets, persists, made, kits>>, row' \in Row, tenant' \in Tenant,
         ceremony' \in Admins \cup {None}, shares' \subseteq Number, escrows' \in Nat,
         moves' = moves \/ Move, gone' \in Losses, UNCHANGED tabs
  PROVE  TypeInvariant'
<1>1. admins' \in [Admins -> Admin]
  BY DEF AdminBecomes, TypeInvariant, TypeOK
<1>2. moves' \in 0 .. MaxMoves
  BY VaultKeysAssumption DEF Move, TypeInvariant, TypeOK
<1>3. tabs' \in [Tabs -> Tab] /\ RightPlace'
  BY DEF TypeInvariant, TypeOK, RightPlace
<1>4. tenant' # None
  BY VaultKeysAssumption
<1>5. TypeOK'
  BY <1>1, <1>2, <1>3 DEF TypeInvariant, TypeOK
<1>6. NotSetUp'
  BY <1>4 DEF NotSetUp
<1> QED
  BY <1>3, <1>5, <1>6 DEF TypeInvariant

AdminStep(a) ==
  Switch(a) \/ PutMode(a) \/ WipeKeys(a) \/ GenerateEscrow(a) \/ BeginReplace(a)
  \/ FinishReplace(a) \/ ShowShares(a)

\* An administrator in the middle of something knows that the server is set up.
LEMMA AdminSetUp ==
  ASSUME TypeInvariant, NEW a \in Admins, AdminStep(a)
  PROVE  tenant \in Tenant /\ tenant # None
<1>1. tenant # None
  BY KindOf DEF AdminStep, Switch, PutMode, WipeKeys, GenerateEscrow, BeginReplace, FinishReplace, ShowShares,
     Free, TypeInvariant, NotSetUp, Rest
<1> QED
  BY <1>1 DEF TypeInvariant, TypeOK

\* The tenant with its recovery mode switched.
Toggled(ten) == [ten EXCEPT !.mode = CHOOSE m \in Modes : m # ten.mode]

LEMMA SwitchLeaves ==
  ASSUME TypeInvariant, NEW a \in Admins, Switch(a)
  PROVE  \E r \in Checking :
           /\ AdminBecomes(a, r)
           /\ r.tenant = Toggled(tenant)
<1> DEFINE new == [tenant EXCEPT !.mode = CHOOSE m \in Modes : m # tenant.mode]
           r == [kind |-> "switch", at |-> "checked", tenant |-> new]
<1>1. tenant \in Tenant
  BY AdminSetUp DEF AdminStep
<1>2. \E m \in Modes : m # tenant.mode
  BY DEF Modes
<1>3. (CHOOSE m \in Modes : m # tenant.mode) \in Modes
  BY <1>2
<1>4. new \in Tenant
  BY <1>1, <1>3 DEF Tenant
<1>5. AdminBecomes(a, r)
  BY DEF Switch, Step, AdminBecomes
<1> HIDE DEF new
<1>6. r \in Checking /\ r.tenant = new
  BY <1>4 DEF Checking
<1> QED
  BY <1>5, <1>6 DEF new, Toggled

LEMMA AdminStepTypes ==
  ASSUME TypeInvariant, NEW a \in Admins, AdminStep(a)
  PROVE  TypeInvariant'
<1>0. /\ row \in Row /\ tenant \in Tenant /\ tenant # None /\ ceremony \in Admins \cup {None}
      /\ shares \subseteq Number /\ escrows \in Nat /\ admins[a] \in Admin /\ gone \in Losses
  BY AdminSetUp DEF TypeInvariant, TypeOK
<1>r. Rest \in Admin
  BY DEF Admin
<1>1. CASE Switch(a)
  <2>1. UNCHANGED <<row, tenant, ceremony, defaults, totp, secrets, persists, tabs, kits, shares, made, escrows, gone>> /\ Move
    BY <1>1 DEF Switch, server, outside
  <2>2. Checking \subseteq Admin
    BY DEF Admin
  <2> QED
    BY <1>0, <1>1, <2>1, <2>2, SwitchLeaves, AdminTypes
<1>2. CASE PutMode(a)
  <2> DEFINE r == [kind |-> "switch", at |-> "listed", row |-> row]
  <2>1. AdminBecomes(a, r) /\ tenant' = admins[a].tenant
    BY <1>2 DEF PutMode, Step, AdminBecomes
  <2>2. r \in Admin
    BY <1>0 DEF Admin, Listing
  <2>3. tenant' \in Tenant
    BY <1>0, <1>2, <2>1, AdminAt DEF PutMode, Checking
  <2>4. UNCHANGED <<row, ceremony, defaults, totp, secrets, persists, tabs, kits, shares, made, escrows, gone, moves>>
    BY <1>2 DEF PutMode, outside
  <2> HIDE DEF r
  <2> QED
    BY <1>0, <2>1, <2>2, <2>3, <2>4, AdminTypes
<1>3. CASE WipeKeys(a)
  <2>1. row' \in Row
    <3>1. admins[a].row \in Row
      BY <1>0, <1>3, AdminAt DEF WipeKeys, Listing
    <3> QED
      BY <1>3, <3>1 DEF WipeKeys, Wiped, NewRow, Row
  <2>2. AdminBecomes(a, Rest)
    BY <1>3 DEF WipeKeys, Step, AdminBecomes
  <2>3. UNCHANGED <<tenant, ceremony, defaults, totp, secrets, tabs, persists, kits, shares, made, escrows, moves>>
    BY <1>3 DEF WipeKeys
  <2>4. gone' \in Losses
    <3>1. {row.pub} \ (secrets \cup {0}) \subseteq Number
      BY <1>0 DEF Row, Number
    <3> QED
      BY <1>0, <1>3, <3>1 DEF WipeKeys, Losses
  <2> QED
    BY <1>0, <1>r, <2>1, <2>2, <2>3, <2>4, AdminTypes
<1>4. CASE GenerateEscrow(a)
  <2> DEFINE r == [kind |-> "escrow", at |-> "show", key |-> escrows']
  <2>1. escrows' \in Number
    BY <1>0, <1>4 DEF GenerateEscrow, NewPair, Number
  <2>2. AdminBecomes(a, r) /\ tenant' = [tenant EXCEPT !.escrow = escrows']
    BY <1>4 DEF GenerateEscrow, Step, AdminBecomes
  <2>3. r \in Admin /\ tenant' \in Tenant
    BY <1>0, <2>1, <2>2 DEF Admin, Showing, Tenant, Number
  <2>4. UNCHANGED <<row, ceremony, defaults, totp, secrets, persists, tabs, kits, shares, made, gone, moves>>
    BY <1>4 DEF GenerateEscrow
  <2> HIDE DEF r
  <2> QED
    BY <1>0, <2>1, <2>2, <2>3, <2>4, AdminTypes DEF Number
<1>5. CASE BeginReplace(a)
  <2> DEFINE r == IF tenant.escrow \in shares THEN [kind |-> "escrow", at |-> "finish"] ELSE Rest
  <2>1. AdminBecomes(a, r) /\ ceremony' = a /\ Move
    BY <1>5 DEF BeginReplace, Step, AdminBecomes
  <2>2. r \in Admin
    BY DEF Admin, Replacing
  <2>3. UNCHANGED <<row, tenant, defaults, totp, secrets, persists, tabs, kits, shares, made, escrows, gone>>
    BY <1>5 DEF BeginReplace, outside
  <2> HIDE DEF r
  <2> QED
    BY <1>0, <2>1, <2>2, <2>3, AdminTypes
<1>6. CASE FinishReplace(a)
  <2>0. UNCHANGED <<row, defaults, totp, secrets, persists, tabs, kits, shares, made, gone, moves>>
    BY <1>6 DEF FinishReplace
  <2>1. CASE AdminBecomes(a, Rest) /\ UNCHANGED <<tenant, ceremony, escrows>>
    BY <1>0, <1>r, <2>0, <2>1, AdminTypes
  <2>2. CASE ~(AdminBecomes(a, Rest) /\ UNCHANGED <<tenant, ceremony, escrows>>)
    <3> DEFINE r == [kind |-> "escrow", at |-> "show", key |-> escrows']
    <3>1. /\ NewPair /\ AdminBecomes(a, r) /\ ceremony' = None
          /\ tenant' = [tenant EXCEPT !.escrow = escrows']
      BY <1>6, <2>2 DEF FinishReplace, Step, AdminBecomes
    <3>2. escrows' \in Number
      BY <1>0, <3>1 DEF NewPair, Number
    <3>3. r \in Admin /\ tenant' \in Tenant
      BY <1>0, <3>1, <3>2 DEF Admin, Showing, Tenant, Number
    <3> HIDE DEF r
    <3> QED
      BY <1>0, <2>0, <3>1, <3>2, <3>3, AdminTypes DEF Number
  <2> QED
    BY <2>1, <2>2
<1>7. CASE ShowShares(a)
  <2>1. admins[a].key \in Number
    BY <1>0, <1>7, AdminAt DEF ShowShares, Showing
  <2>2. AdminBecomes(a, Rest) /\ shares' \subseteq shares \cup {admins[a].key}
    BY <1>7 DEF ShowShares, Step, AdminBecomes
  <2>3. UNCHANGED <<row, tenant, ceremony, defaults, totp, secrets, persists, tabs, kits, made, escrows, moves>>
    BY <1>7 DEF ShowShares, server
  <2>4. gone' \in Losses
    BY <1>0, <1>7, <2>1 DEF ShowShares, Losses
  <2> QED
    BY <1>0, <1>r, <2>1, <2>2, <2>3, <2>4, AdminTypes
<1> QED
  BY <1>1, <1>2, <1>3, <1>4, <1>5, <1>6, <1>7 DEF AdminStep

LEMMA NextTypes ==
  ASSUME TypeInvariant, [Next]_vars
  PROVE  TypeInvariant'
<1>1. CASE UNCHANGED vars
  BY <1>1 DEF vars, server, outside, TypeInvariant, TypeOK, NotSetUp, RightPlace
<1>2. ASSUME NEW t \in Tabs, PageStep(t) \/ ReadStep(t) \/ Unlock(t) \/ Store(t) \/ Secret(t)
      PROVE  TypeInvariant'
  BY <1>2, ReadStepTypes, WriteStepTypes
<1>3. ASSUME NEW a \in Admins, AdminStep(a)
      PROVE  TypeInvariant'
  BY <1>3, AdminStepTypes
<1>4. CASE PersistParams
  <2>1. PICK p \in persists :
          \/ /\ persists' = (persists \ {p}) \cup
                  (IF StillBlank THEN {[p EXCEPT !.row = [row EXCEPT !.kdf = p.par]]} ELSE {})
             /\ UNCHANGED row
          \/ p.row # None /\ row' = p.row /\ persists' = persists \ {p}
    BY <1>4 DEF PersistParams
  <2>2. /\ p \in [par : Params, row : Row \cup {None}] /\ row \in Row
        /\ persists \subseteq [par : Params, row : Row \cup {None}]
    BY DEF TypeInvariant, TypeOK
  <2>3. [p EXCEPT !.row = [row EXCEPT !.kdf = p.par]] \in [par : Params, row : Row \cup {None}]
    <3>1. [row EXCEPT !.kdf = p.par] \in Row
      BY <2>2 DEF Row
    <3> QED
      BY <2>2, <3>1
  <2>4. persists' \subseteq [par : Params, row : Row \cup {None}]
    BY <2>1, <2>2, <2>3
  <2>5. row' \in Row
    BY <2>1, <2>2
  <2>6. UNCHANGED <<tenant, ceremony, defaults, totp, secrets, tabs, admins, outside, moves>>
    BY <1>4 DEF PersistParams
  <2>7. tenant # None
    BY DEF TypeInvariant, NotSetUp
  <2> QED
    BY <2>4, <2>5, <2>6, <2>7 DEF outside, TypeInvariant, TypeOK, NotSetUp, RightPlace
<1>5. CASE SetParams
  <2>1. defaults' \in Params /\ Move /\ UNCHANGED <<row, tenant, ceremony, totp, secrets, tabs, persists, admins, outside>>
    BY <1>5 DEF SetParams
  <2>2. moves' \in 0 .. MaxMoves
    BY <2>1, VaultKeysAssumption DEF Move, TypeInvariant, TypeOK
  <2> QED
    BY <2>1, <2>2 DEF outside, TypeInvariant, TypeOK, NotSetUp, RightPlace
<1>6. CASE Expire
  <2>1. ceremony' = None /\ Move /\ UNCHANGED <<row, tenant, defaults, totp, secrets, tabs, persists, admins, outside>>
    BY <1>6 DEF Expire
  <2>2. moves' \in 0 .. MaxMoves
    BY <2>1, VaultKeysAssumption DEF Move, TypeInvariant, TypeOK
  <2> QED
    BY <2>1, <2>2 DEF outside, TypeInvariant, TypeOK, NotSetUp, RightPlace
<1> QED
  BY <1>1, <1>2, <1>3, <1>4, <1>5, <1>6
     DEF Next, PageStep, ReadStep, WizardStep, StartStep, AdminStep

LEMMA InitTypes == Init => TypeInvariant
<1> SUFFICES ASSUME Init PROVE TypeInvariant
  OBVIOUS
<1>1. NewRow \in Row /\ OldRow(defaults) \in Row /\ NewRow.pub = 0
  <2>1. NewRow \in Row /\ NewRow.pub = 0
    BY DEF NewRow, Row
  <2>2. [sk |-> 1, lock |-> 1, par |-> defaults] \in Blob
    BY DEF Blob, Number, Init
  <2> QED
    BY <2>1, <2>2 DEF OldRow, Row, NewRow
<1>2. tenant \in Tenant \cup {None} /\ row \in Row /\ (tenant = None => row.pub = 0)
  BY <1>1, VaultKeysAssumption DEF Init, Tenant, Modes
<1>3. /\ Boot("login") \in Tab /\ Boot("login").do \in {Rest} \cup Drafts
      /\ tenant = None => Boot("login").page = "setup" /\ Boot("login").do.kind = "setup"
  <2>1. Draft("user_kit", defaults) \in Drafts /\ Draft("user_kit", defaults).kind = "setup"
    BY DEF Draft, Drafts, Modes, Init
  <2>2. CASE tenant = None
    <3> DEFINE w == [Fresh("setup") EXCEPT !.do = Draft("user_kit", defaults)]
    <3>1. w \in Tab /\ w.page = "setup" /\ w.do = Draft("user_kit", defaults)
      BY <2>1, FreshTab DEF Fresh, Tab, Doing, Pages
    <3>2. Boot("login") = w
      BY <2>2 DEF Boot
    <3> HIDE DEF w
    <3> QED
      BY <2>1, <3>1, <3>2
  <2>3. CASE tenant # None
    <3>1. Boot("login") = Fresh("login")
      BY <2>3 DEF Boot
    <3> QED
      BY <2>3, <3>1, FreshTab DEF Pages
  <2> QED
    BY <2>2, <2>3
<1>4. tabs \in [Tabs -> Tab] /\ \A t \in Tabs : tabs[t] = Boot("login")
  BY <1>3 DEF Init
<1>5. admins \in [Admins -> Admin] /\ \A a \in Admins : admins[a] = Rest
  BY DEF Init, Admin
<1>6. made \in Nat /\ kits \subseteq Number
  <2>1. made \in Nat /\ kits = 1 .. made
    BY <1>2 DEF Init, Row
  <2> QED
    BY <2>1 DEF Number
<1>7. TypeOK
  <2>0. gone \in Losses
    BY DEF Init, Losses
  <2>1. /\ ceremony = None /\ defaults \in Params /\ secrets = {} /\ persists = {} /\ shares = {}
        /\ escrows = 0 /\ moves = 0
    BY DEF Init
  <2>2. totp \in BOOLEAN
    BY DEF Init
  <2>3. moves \in 0 .. MaxMoves
    BY <2>1, VaultKeysAssumption
  <2> QED
    BY <1>2, <1>4, <1>5, <1>6, <2>0, <2>1, <2>2, <2>3 DEF TypeOK
<1>8. RightPlace
  BY <1>3, <1>4, KindOf DEF RightPlace
<1>9. NotSetUp
  BY <1>2, <1>3, <1>4, <1>5 DEF NotSetUp, Init
<1> QED
  BY <1>7, <1>8, <1>9 DEF TypeInvariant

\* Every variable keeps to its type, whether or not requests overlap.
THEOREM VaultKeysTypes == Spec => []TypeOK
<1>1. TypeInvariant => TypeOK
  BY DEF TypeInvariant
<1> QED
  BY <1>1, InitTypes, NextTypes, PTL DEF Spec

-----------------------------------------------------------------------------
(* The invariant of requests that do not overlap.                          *)

\* The escrow keys whose shares somebody was shown or is being shown, or whose page
\* went away before.
Shown == shares \cup gone.shares \cup {admins[a].key : a \in {a \in Admins : admins[a].at = "show"}}

\* A row from before the parameters were stored.
Blank == row.pub # 0 /\ row.kdf = None

\* The row by itself: one key, one set of parameters.
RowAgrees ==
  /\ row.pub = 0 => row.sealed = None /\ row.kit = None /\ row.escrow = None
  /\ row.pub # 0 => /\ row.sealed # None /\ row.sealed.sk = row.pub
                    /\ row.kit # None => row.kit.sk = row.pub /\ row.kit.par = row.sealed.par
                    /\ row.escrow # None => row.escrow.sk = row.pub
                    /\ row.kdf # None => row.sealed.par = row.kdf
  /\ Blank => \A p \in persists : p.par = row.sealed.par

\* This window waits for the answer upon which it shows the kit.
WillShow(t) ==
  tabs[t].do.at = "answer" /\ tabs[t].do.kind = "onboard" /\ tabs[t].do.body.kit # None

\* Somebody was shown the kit, or will be, or the page that was to show it is gone.
KitShown ==
  \/ row.kit.lock \in kits \cup gone.kits
  \/ \E t \in Tabs : WillShow(t) /\ tabs[t].do.body.kit.lock = row.kit.lock

\* The row has the copy of the tenant's mode only, except while a switch of the
\* mode has yet to wipe it.
CopyOfMode ==
  row.pub # 0 /\ (\A a \in Admins : admins[a].at # "listed") =>
    IF tenant.mode = "user_kit"
    THEN row.kit # None /\ row.escrow = None /\ KitShown
    ELSE row.escrow # None /\ row.kit = None /\ row.escrow.to \in Shown

\* What is posted can be recovered, and if it is a change it is of the user's key.
BodyAgrees(d) ==
  /\ Sealed(d)
  /\ d.body.mode = "admin_escrow" => d.body.escrow.to \in Shown
  /\ d.kind # "onboard" => /\ d.body.sk = row.pub
                           /\ d.body.mode = "user_kit" => d.body.kit.lock \in kits

\* What a window has taken along is the user's, but for a key in memory that a switch
\* of the mode has thrown away.
TabAgrees(w) ==
  /\ w.sk # 0 => w.sk \in {row.pub} \cup gone.keys
  /\ w.do.kind = "recover" /\ w.do.at = "keys" => w.do.kit \in kits
  /\ w.do.kind = "save" /\ w.do.at = "status" => w.do.sk = row.pub
  /\ w.do.at \in {"post", "in", "answer"} => BodyAgrees(w.do)
  /\ w.do.at = "in" => Takes(row, tenant, w.do) /\ w.do.write = Filed(row, tenant, w.do)

\* The handlers of the server that have read and not yet written.
Reading == {t \in Tabs : tabs[t].do.at = "in"}
Completing == {p \in persists : p.row # None}
Switching == {a \in Admins : admins[a].at \in {"checked", "listed"}}

NoHandler == Reading = {} /\ Completing = {} /\ Switching = {}

\* There is at most one of them.
OneHandler ==
  /\ \A t, v \in Reading : t = v
  /\ \A p, q \in Completing : p = q
  /\ \A a, b \in Switching : a = b
  /\ Reading # {} => Completing = {} /\ Switching = {}
  /\ Completing # {} => Switching = {}

\* What a window may be about while the mode is switched: it has read no key that it
\* is going to seal again, and the server has nothing of it.
Away(d) ==
  /\ d.at \notin {"in", "answer"}
  /\ d.at \in {"status", "post"} => d.kind = "onboard"

SwitchedApart == Switching # {} => \A t \in Tabs : Away(tabs[t].do)

\* What it has read is still there.
ReadIsCurrent ==
  /\ \A p \in Completing : Blank /\ p.row = [row EXCEPT !.kdf = p.par]
  /\ \A a \in Switching :
       /\ secrets = {}
       /\ admins[a].at = "checked" =>
            admins[a].tenant = Toggled(tenant)
       /\ admins[a].at = "listed" => admins[a].row = row

KeysInvariant ==
  /\ RowAgrees
  /\ CopyOfMode
  /\ \A t \in Tabs : TabAgrees(tabs[t])
  /\ OneHandler
  /\ ReadIsCurrent
  /\ SwitchedApart
  /\ secrets \subseteq {row.pub} \cup gone.keys
  /\ tenant # None => tenant.escrow \in Shown \cup {0}

LEMMA AloneMeans ==
  ASSUME Overlap = FALSE, Alone
  PROVE  NoHandler
BY DEF Alone, At, NoHandler, Reading, Completing, Switching

\* A step of a window that writes nothing into the row or the tenant.
LEMMA WindowKeeps ==
  ASSUME TypeInvariant, KeysInvariant, NEW t \in Tabs, Only(t),
         UNCHANGED <<row, tenant, secrets, admins, shares>>, kits \subseteq kits',
         UNCHANGED gone \/ KitGone(t), NoHandler \/ Switching = {} \/ Away(tabs'[t].do),
         \/ UNCHANGED persists
         \/ persists' = persists \cup {[par |-> row.sealed.par, row |-> None]},
         TabAgrees(tabs[t])',
         tabs'[t].do.at = "in" => tabs[t].do.at = "in" \/ NoHandler,
         WillShow(t) => \/ tabs[t].do.body.kit.lock \in kits' \cup gone'.kits
                        \/ tabs'[t].do = tabs[t].do
  PROVE  KeysInvariant'
<1>g. gone'.shares = gone.shares /\ gone'.keys = gone.keys /\ gone.kits \subseteq gone'.kits
  BY LossesGrow
<1>s. Shown' = Shown
  BY <1>g DEF Shown
<1>p. Completing' = Completing /\ (Blank => \A p \in persists' : p.par = row.sealed.par)
  BY DEF Completing, KeysInvariant, RowAgrees
<1>1. RowAgrees'
  BY <1>p DEF KeysInvariant, RowAgrees, Blank
<1>2. CopyOfMode'
  <2>1. ASSUME KitShown PROVE KitShown'
    <3>1. CASE row.kit.lock \in kits \cup gone.kits
      BY <1>g, <3>1 DEF KitShown
    <3>2. CASE \E v \in Tabs : WillShow(v) /\ tabs[v].do.body.kit.lock = row.kit.lock
      <4>1. PICK v \in Tabs : WillShow(v) /\ tabs[v].do.body.kit.lock = row.kit.lock
        BY <3>2
      <4>2. CASE tabs'[v].do = tabs[v].do
        BY <4>1, <4>2 DEF KitShown, WillShow
      <4>3. CASE tabs'[v].do # tabs[v].do
        BY <4>1, <4>3 DEF KitShown, Only
      <4> QED
        BY <4>2, <4>3
    <3> QED
      BY <2>1, <3>1, <3>2 DEF KitShown
  <2> QED
    BY <1>s, <2>1 DEF KeysInvariant, CopyOfMode
<1>3. ASSUME NEW v \in Tabs PROVE TabAgrees(tabs[v])'
  <2>1. CASE v = t
    BY <2>1
  <2>2. CASE v # t
    <3>1. tabs'[v] = tabs[v] /\ TabAgrees(tabs[v])
      BY <2>2 DEF Only, KeysInvariant
    <3>2. tabs[v].do.at \in {"post", "in", "answer"} => BodyAgrees(tabs[v].do)'
      BY <1>s, <3>1 DEF TabAgrees, BodyAgrees, Sealed
    <3> QED
      BY <1>g, <3>1, <3>2 DEF TabAgrees, Takes, Filed
  <2> QED
    BY <2>1, <2>2
<1>4. OneHandler'
  <2>1. Reading' \subseteq Reading \/ (NoHandler /\ Reading' \subseteq {t})
    BY DEF Reading, Only, NoHandler
  <2>2. Switching' = Switching
    BY DEF Switching
  <2> QED
    BY <1>p, <2>1, <2>2 DEF KeysInvariant, OneHandler, NoHandler
<1>5. ReadIsCurrent'
  BY <1>p DEF KeysInvariant, ReadIsCurrent, Blank, Switching
<1>6. SwitchedApart'
  <2>1. ASSUME Switching' # {}, NEW v \in Tabs PROVE Away(tabs'[v].do)
    <3>1. Switching # {} /\ ~NoHandler
      BY <2>1 DEF Switching, NoHandler
    <3>2. v # t => tabs'[v] = tabs[v]
      BY DEF Only
    <3> QED
      BY <3>1, <3>2 DEF KeysInvariant, SwitchedApart
  <2> QED
    BY <2>1 DEF SwitchedApart, Away
<1> QED
  BY <1>1, <1>2, <1>3, <1>4, <1>5, <1>6, <1>s, <1>g DEF KeysInvariant

\* What a window is about, by its kind.
LEMMA AtOf ==
  /\ \A d \in Drafts : d.at = "wizard"
  /\ \A d \in Reopening : d.at = "again"
  /\ \A d \in Beginning : d.at = "me"
  /\ \A d \in Opening : d.at = "keys"
  /\ \A d \in Sealing : d.at = "status"
  /\ \A d \in Sending : d.at = "post"
  /\ \A d \in Waiting : d.at \in {"in", "answer"}
  /\ Rest.at = "rest"
BY DEF Drafts, Reopening, Beginning, Opening, Sealing, Sending, Waiting, Rest

\* The steps of a window that write nothing keep what it takes along the user's.
LEMMA ReadStepKeeps ==
  ASSUME Overlap = FALSE, TypeInvariant, KeysInvariant, NEW t \in Tabs, ReadStep(t)
  PROVE  KeysInvariant'
<1> DEFINE q == tabs[t].do
<1>0. TabAgrees(tabs[t]) /\ tabs[t] \in Tab /\ q \in Doing
  BY DEF KeysInvariant, TypeInvariant, TypeOK, Tab
<1>u. UNCHANGED <<row, tenant, secrets, admins, shares, persists>>
  BY DEF ReadStep, WizardStep, StepPlain, StepCrypto, StepRecovery, StepBack, Turn, OpenApp, StartStep,
     StartOnboard, StartUnlock, StartSave, StartRecover, AskMe, Prepare, OpenForChange, OpenWithKit,
     Arrive, Answered, UnlockAgain, Lost, Lock, outside, server
<1>g. /\ UNCHANGED gone \/ KitGone(t)
      /\ gone'.shares = gone.shares /\ gone'.keys = gone.keys /\ gone.kits \subseteq gone'.kits
  <2>1. UNCHANGED gone \/ KitGone(t)
    BY DEF ReadStep, WizardStep, StepPlain, StepCrypto, StepRecovery, StepBack, Turn, OpenApp, StartStep,
       StartOnboard, StartUnlock, StartSave, StartRecover, AskMe, Prepare, OpenForChange, OpenWithKit,
       Arrive, Answered, UnlockAgain, Lost, Lock, outside
  <2> QED
    BY <2>1, LossesGrow
<1>s. Shown' = Shown
  BY <1>g, <1>u DEF Shown
<1>sk. tabs[t].sk # 0 => tabs[t].sk \in {row.pub} \cup gone.keys
  BY <1>0 DEF TabAgrees
<1>q. NoHandler \/ Switching = {} \/ Away(q)
  BY DEF KeysInvariant, SwitchedApart
<1>pub. row.pub # 0 => row.sealed.sk = row.pub /\ (row.kit # None => row.kit.sk = row.pub)
  BY DEF KeysInvariant, RowAgrees
\* The window ends up with nothing to hand over.
<1>1. ASSUME Only(t), tabs'[t].do \in {Rest} \cup Drafts \cup Reopening \cup Beginning,
             tabs'[t].sk # 0 => tabs'[t].sk \in {row.pub} \cup gone.keys, kits \subseteq kits',
             WillShow(t) => q.body.kit.lock \in kits' \cup gone'.kits
      PROVE  KeysInvariant'
  <2>1. TabAgrees(tabs[t])'
    BY <1>1, <1>u, <1>g, AtOf, KindOf DEF TabAgrees
  <2>2. tabs'[t].do.at # "in" /\ Away(tabs'[t].do)
    BY <1>1, AtOf DEF Away
  <2> QED
    BY <1>1, <1>u, <1>g, <2>1, <2>2, WindowKeeps
<1>2. ASSUME NEW d \in Doing, Redone(t, d), q.at # "answer", kits \subseteq kits',
             d.kind = "recover" /\ d.at = "keys" => d.kit \in kits',
             d.kind = "save" /\ d.at = "status" => d.sk = row.pub,
             d.at \in {"post", "in", "answer"} => BodyAgrees(d)',
             d.at = "in" => NoHandler /\ Takes(row, tenant, d) /\ d.write = Filed(row, tenant, d),
             NoHandler \/ Switching = {} \/ Away(d)
      PROVE  KeysInvariant'
  <2>1. TabAgrees(tabs[t])'
    BY <1>2, <1>u, <1>g, <1>sk DEF TabAgrees, Redone
  <2> QED
    BY <1>2, <1>u, <1>g, <2>1, WindowKeeps DEF Redone, WillShow
<1>3. CASE WizardStep(t)
  <2>1. kits' = kits
    BY <1>3 DEF WizardStep, StepPlain, StepCrypto, StepRecovery, StepBack, Turn, outside
  <2> QED
    BY <1>1, <1>3, <1>sk, <2>1, WizardStepLeaves, AtOf DEF Redone, WillShow
<1>4. CASE OpenApp(t) \/ Lock(t)
  <2>1. /\ kits' = kits /\ Only(t) /\ tabs'[t].do = q
        /\ tabs'[t].sk # 0 => tabs'[t].sk = tabs[t].sk
    BY <1>4, OpenAppLeaves, LockLeaves DEF OpenApp, Lock, outside
  <2>2. Shown' = Shown
    BY <1>s
  <2>3. q.at \in {"post", "in", "answer"} => BodyAgrees(q)'
    BY <1>0, <1>u, <2>1, <2>2 DEF TabAgrees, BodyAgrees, Sealed
  <2>4. TabAgrees(tabs[t])'
    BY <1>0, <1>u, <1>g, <1>sk, <2>1, <2>3 DEF TabAgrees
  <2> QED
    BY <1>u, <1>g, <1>q, <2>1, <2>4, WindowKeeps
<1>5. CASE StartStep(t)
  <2>1. kits' = kits /\ q.at = "rest"
    BY <1>5, StartStepLeaves, AtOf
       DEF StartStep, StartOnboard, StartUnlock, StartSave, StartRecover, outside
  <2>2. PICK d \in Beginning \cup Opening :
          Redone(t, d) /\ (d.kind = "recover" => d.kit \in kits)
    BY <1>5, StartStepLeaves
  <2>3. d \in Doing /\ d.at \in {"me", "keys"} /\ Away(d)
    BY <2>2, AtOf DEF Doing, Away
  <2> QED
    BY <1>2, <2>1, <2>2, <2>3
<1>6. CASE AskMe(t)
  <2>1. kits' = kits /\ q.at = "me"
    BY <1>6, AskMeLeaves, AtOf DEF AskMe, outside
  <2>2. CASE Redone(t, Rest)
    BY <1>1, <1>sk, <2>1, <2>2 DEF Redone, WillShow
  <2>3. CASE \E d \in Sealing : d.kind = "onboard" /\ Redone(t, d)
    <3>1. PICK d \in Sealing : d.kind = "onboard" /\ Redone(t, d)
      BY <2>3
    <3>2. d \in Doing /\ d.at = "status" /\ Away(d)
      BY <3>1, AtOf DEF Doing, Away
    <3> QED
      BY <1>2, <2>1, <3>1, <3>2
  <2> QED
    BY <1>6, <2>2, <2>3, AskMeLeaves
<1>7. CASE Prepare(t)
  <2>1. q \in Sealing /\ q.at = "status" /\ kits \subseteq kits'
    BY <1>7, PrepareLeaves, AtOf
  <2>2. CASE Redone(t, Rest)
    BY <1>1, <1>sk, <2>1, <2>2 DEF Redone, WillShow
  <2>3. CASE ~Redone(t, Rest)
    <3>1. PICK d \in Sending :
            /\ Redone(t, d) /\ Sealed(d)
            /\ d.kind = q.kind /\ d.body.sk = q.sk
            /\ d.kind = "save" /\ d.body.mode = "user_kit" => d.body.kit.lock \in kits'
            /\ d.body.mode = "admin_escrow" =>
                 d.body.escrow.to = tenant.escrow /\ tenant.escrow # 0
      BY <1>7, <2>3, PrepareLeaves
    <3>2. d \in Doing /\ d.at = "post" /\ d.kind \in {"onboard", "save"}
      BY <2>1, <3>1, AtOf, KindOf DEF Doing
    <3>3. d.kind = "save" => d.body.sk = row.pub
      BY <1>0, <2>1, <3>1 DEF TabAgrees
    <3>4. tenant # None
      BY <2>1, SetUpFor, KindOf
    <3>5. d.body.mode = "admin_escrow" => d.body.escrow.to \in Shown
      BY <3>1, <3>4 DEF KeysInvariant
    <3>6. BodyAgrees(d)'
      BY <1>u, <1>s, <3>1, <3>2, <3>3, <3>5 DEF BodyAgrees, Sealed
    <3>7. NoHandler \/ Switching = {} \/ Away(d)
      BY <1>q, <2>1, <3>1, <3>2 DEF Away
    <3> QED
      BY <1>2, <2>1, <3>1, <3>2, <3>6, <3>7
  <2> QED
    BY <2>2, <2>3
<1>8. CASE OpenForChange(t)
  <2>1. kits' = kits /\ q.at = "keys" /\ NoHandler
    BY <1>8, OpenForChangeLeaves, AtOf, AloneMeans DEF OpenForChange, outside
  <2>2. CASE Redone(t, Rest)
    BY <1>1, <1>sk, <2>1, <2>2 DEF Redone, WillShow
  <2>3. CASE ~Redone(t, Rest)
    <3>1. PICK d \in Sealing : row.pub # 0 /\ d.kind = "save" /\ d.sk = row.sealed.sk /\ Redone(t, d)
      BY <1>8, <2>3, OpenForChangeLeaves
    <3>2. d \in Doing /\ d.at = "status"
      BY <3>1, AtOf DEF Doing
    <3> QED
      BY <1>2, <1>pub, <2>1, <3>1, <3>2
  <2> QED
    BY <2>2, <2>3
<1>9. CASE OpenWithKit(t)
  <2>1. kits' = kits /\ q.at = "keys" /\ q.kind = "recover" /\ NoHandler
    BY <1>9, OpenWithKitLeaves, AtOf, AloneMeans DEF OpenWithKit, outside
  <2>2. CASE Redone(t, Rest)
    BY <1>1, <1>sk, <2>1, <2>2 DEF Redone, WillShow
  <2>3. CASE ~Redone(t, Rest)
    <3>1. PICK d \in Sending :
            /\ row.pub # 0 /\ row.kit # None
            /\ Redone(t, d) /\ Sealed(d) /\ d.kind = "recover"
            /\ d.body.sk = row.kit.sk /\ d.body.mode = "user_kit" /\ d.body.kit.lock = q.kit
      BY <1>9, <2>3, OpenWithKitLeaves
    <3>2. d \in Doing /\ d.at = "post"
      BY <3>1, AtOf DEF Doing
    <3>3. q.kit \in kits /\ d.body.sk = row.pub
      BY <1>0, <1>pub, <2>1, <3>1 DEF TabAgrees
    <3>4. BodyAgrees(d)'
      BY <1>u, <2>1, <3>1, <3>3 DEF BodyAgrees, Sealed
    <3> QED
      BY <1>2, <2>1, <3>1, <3>2, <3>4
  <2> QED
    BY <2>2, <2>3
<1>10. CASE Arrive(t)
  <2>1. kits' = kits /\ q.at = "post" /\ NoHandler
    BY <1>10, ArriveLeaves, AtOf, AloneMeans DEF Arrive, outside
  <2>2. CASE Redone(t, Rest)
    BY <1>1, <1>sk, <2>1, <2>2 DEF Redone, WillShow
  <2>3. CASE ~Redone(t, Rest)
    <3>1. PICK d \in Waiting :
            /\ Takes(row, tenant, q)
            /\ Redone(t, d) /\ d.at = "in" /\ d.kind = q.kind /\ d.body = q.body
            /\ d.write = Filed(row, tenant, q)
      BY <1>10, <2>3, ArriveLeaves
    <3>2. d \in Doing
      BY DEF Doing
    <3>3. Takes(row, tenant, d) /\ d.write = Filed(row, tenant, d)
      BY <3>1 DEF Takes, Filed
    <3>4. BodyAgrees(q)
      BY <1>0, <2>1 DEF TabAgrees
    <3>5. Shown' = Shown
      BY <1>s
    <3>6. BodyAgrees(d)'
      BY <1>u, <2>1, <3>1, <3>4, <3>5 DEF BodyAgrees, Sealed
    <3> QED
      BY <1>2, <2>1, <3>1, <3>2, <3>3, <3>6
  <2> QED
    BY <2>2, <2>3
<1>11. CASE Answered(t)
  <2>1. /\ q \in Waiting /\ q.at = "answer" /\ Only(t) /\ kits \subseteq kits'
        /\ q.body.kit # None => q.body.kit.lock \in kits'
    BY <1>11, AnsweredLeaves
  <2>2. BodyAgrees(q)
    BY <1>0, <2>1 DEF TabAgrees
  <2>3. CASE q.kind = "onboard"
    <3>1. tabs'[t].sk = 0 /\ tabs'[t].do = Rest
      BY <1>11, <2>3, AnsweredLeaves, FreshTab DEF Pages
    <3> QED
      BY <1>1, <2>1, <3>1 DEF WillShow
  <2>4. CASE q.kind # "onboard"
    <3>1. tabs'[t].sk = q.body.sk /\ tabs'[t].do \in {Rest} \cup Reopening
      BY <1>11, <2>4, AnsweredLeaves
    <3>2. q.body.sk = row.pub
      BY <2>2, <2>4 DEF BodyAgrees
    <3> QED
      BY <1>1, <2>1, <3>1, <3>2 DEF WillShow
  <2> QED
    BY <2>3, <2>4
<1>12. CASE UnlockAgain(t)
  <2>1. kits' = kits /\ q.at = "again"
    BY <1>12, UnlockAgainLeaves, AtOf DEF UnlockAgain, outside
  <2>2. Only(t) /\ tabs'[t].do = Rest /\ (tabs'[t].sk # 0 => tabs'[t].sk \in {row.pub} \cup gone.keys)
    BY <1>12, <1>pub, <1>sk, UnlockAgainLeaves DEF Opened
  <2> QED
    BY <1>1, <2>1, <2>2 DEF WillShow
<1>13. CASE Lost(t)
  <2>1. kits' = kits /\ (WillShow(t) => q.body.kit.lock \in gone'.kits)
    BY <1>13, LossesGrow DEF Lost, KitUnseen, WillShow
  <2>2. Redone(t, Rest)
    BY <1>13, Stopped DEF Lost, TypeInvariant
  <2> QED
    BY <1>1, <1>sk, <2>1, <2>2 DEF Redone
<1> QED
  BY <1>3, <1>4, <1>5, <1>6, <1>7, <1>8, <1>9, <1>10, <1>11, <1>12, <1>13 DEF ReadStep

\* Leaving a page loses at most the kit that it was to show.
LEMMA PageStepKeeps ==
  ASSUME Overlap = FALSE, TypeInvariant, KeysInvariant, NEW t \in Tabs, PageStep(t)
  PROVE  KeysInvariant'
<1>1. /\ Only(t) /\ tabs'[t].sk = 0 /\ Away(tabs'[t].do)
      /\ tabs'[t].do.at \notin {"keys", "status", "post", "in", "answer"}
  BY PageStepLeaves, AtOf DEF Away
<1>2. /\ UNCHANGED <<row, secrets, persists, admins, shares, kits>>
      /\ TabAgrees(tabs[t])'
  <2>1. UNCHANGED <<row, secrets, persists, admins, shares, kits>>
    BY DEF PageStep, HasSession, SignIn, CodeStep, SecondFactor, GoApp, Reload, Commit, server, outside
  <2> QED
    BY <1>1, <2>1 DEF TabAgrees
<1>3. CASE ~Commit(t)
  <2>1. tenant' = tenant
    BY <1>3 DEF PageStep, HasSession, SignIn, CodeStep, SecondFactor, GoApp, Reload, server
  <2>2. UNCHANGED gone \/ KitGone(t)
    BY <1>3 DEF PageStep, HasSession, SignIn, CodeStep, SecondFactor, GoApp, Reload, outside
  <2>3. tabs[t].do.kind # "onboard" \/ KitGone(t)
    BY <1>3 DEF PageStep, HasSession, SignIn, CodeStep, SecondFactor, GoApp, Reload,
       TypeInvariant, RightPlace
  <2>4. WillShow(t) => tabs[t].do.body.kit.lock \in gone'.kits
    BY <2>3, LossesGrow DEF WillShow, KitUnseen
  <2> QED
    BY <1>1, <1>2, <2>1, <2>2, <2>4, WindowKeeps
<1>4. CASE Commit(t)
  <2>1. /\ row.pub = 0 /\ persists = {} /\ \A a \in Admins : admins[a] = Rest
        /\ \A v \in Tabs : tabs[v].do.kind = "setup"
    BY <1>4 DEF Commit, TypeInvariant, NotSetUp
  <2>2. \A v \in Tabs : tabs[v].do.at = "wizard"
    BY <2>1, DoingAt DEF TypeInvariant, TypeOK, Tab
  <2>3. RowAgrees' /\ CopyOfMode'
    BY <1>2, <2>1 DEF KeysInvariant, RowAgrees, CopyOfMode, Blank
  <2>4. ASSUME NEW v \in Tabs PROVE TabAgrees(tabs[v])'
    <3>1. CASE v = t
      BY <1>2, <3>1
    <3>2. CASE v # t
      <4>1. tabs'[v] = tabs[v] /\ TabAgrees(tabs[v])
        BY <1>1, <3>2 DEF Only, KeysInvariant
      <4>2. tabs[v].do.at = "wizard" /\ row' = row /\ gone' = gone
        BY <1>2, <1>4, <2>2 DEF Commit, outside
      <4> QED
        BY <4>1, <4>2 DEF TabAgrees
    <3> QED
      BY <3>1, <3>2
  <2>5. Reading' = {} /\ Completing' = {} /\ Switching' = {}
    <3>1. Reading' = {}
      BY <1>1, <2>2 DEF Reading, Only
    <3>2. Completing' = {}
      BY <1>2, <2>1 DEF Completing
    <3>3. Switching' = {}
      BY <1>2, <2>1, AtOf DEF Switching
    <3> QED
      BY <3>1, <3>2, <3>3
  <2>6. OneHandler' /\ ReadIsCurrent' /\ SwitchedApart'
    BY <2>5 DEF OneHandler, ReadIsCurrent, SwitchedApart
  <2>7. tenant'.escrow = 0 /\ gone' = gone
    BY <1>4 DEF Commit, outside
  <2> QED
    BY <1>2, <2>3, <2>4, <2>6, <2>7 DEF KeysInvariant
<1> QED
  BY <1>3, <1>4

\* An unlock puts the user's key into memory, and asks for the parameters of an old
\* row to be stored that its keys were sealed with.
LEMMA UnlockKeeps ==
  ASSUME TypeInvariant, KeysInvariant, NEW t \in Tabs, Unlock(t)
  PROVE  KeysInvariant'
<1>1. UNCHANGED <<row, tenant, secrets, admins, shares, kits>>
  BY DEF Unlock, server, outside
<1>2. tabs[t].do.at = "keys" /\ (tabs[t].sk # 0 => tabs[t].sk \in {row.pub} \cup gone.keys) /\ gone' = gone
  BY UnlockLeaves, AtOf DEF KeysInvariant, TabAgrees, Unlock, outside
<1>3. /\ Only(t) /\ tabs'[t].do = Rest /\ (tabs'[t].sk # 0 => tabs'[t].sk \in {row.pub} \cup gone.keys)
      /\ \/ UNCHANGED persists
         \/ persists' = persists \cup {[par |-> row.sealed.par, row |-> None]}
  BY <1>2, UnlockLeaves DEF Redone, Opened, KeysInvariant, RowAgrees
<1>4. TabAgrees(tabs[t])' /\ tabs'[t].do.at # "in" /\ Away(tabs'[t].do)
  BY <1>1, <1>2, <1>3, AtOf, KindOf DEF TabAgrees, Away
<1> QED
  BY <1>1, <1>2, <1>3, <1>4, WindowKeeps DEF WillShow

\* The handler of the master password writes what it has read anew: nobody has
\* written in between.
LEMMA StoreKeeps ==
  ASSUME TypeInvariant, KeysInvariant, NEW t \in Tabs, Store(t)
  PROVE  KeysInvariant'
<1> DEFINE q == tabs[t].do
<1>1. UNCHANGED <<tenant, secrets, persists, admins, shares, kits, gone>>
  BY DEF Store, outside
<1>2. PICK d \in Waiting : Redone(t, d) /\ d.at = "answer" /\ d.kind = q.kind /\ d.body = q.body
  BY StoreLeaves
<1>3. q \in Waiting /\ q.at = "in" /\ row' = q.write
  BY StoreLeaves
<1>4. BodyAgrees(q) /\ Takes(row, tenant, q) /\ row' = Filed(row, tenant, q)
  BY <1>3 DEF KeysInvariant, TabAgrees
<1>5. /\ q.body \in Posted /\ q.body.sk # 0 /\ q.body.sealed # None /\ q.body.par # None
      /\ q.body.mode \in Modes
  BY <1>3, VaultKeysAssumption DEF Waiting, Posted, Number
<1>6. Reading = {t} /\ Completing = {} /\ Switching = {}
  BY <1>3 DEF KeysInvariant, OneHandler, Reading
<1>7. tenant # None /\ tenant.mode = q.body.mode
  BY <1>3, <1>4, SetUpFor, KindOf DEF Takes, Kinds
\* The row that was filed.
<1>8. /\ row'.pub = q.body.sk /\ row'.sealed = q.body.sealed /\ row'.kdf = q.body.par
      /\ q.kind = "onboard" <=> row.pub = 0
      /\ q.kind # "onboard" => row.pub = q.body.sk
  BY <1>4 DEF Filed, Takes, BodyAgrees
<1>9. /\ tenant.mode = "user_kit" => row'.kit = q.body.kit /\ row'.escrow = row.escrow
      /\ tenant.mode = "admin_escrow" => row'.escrow = q.body.escrow /\ row'.kit = row.kit
  BY <1>4 DEF Filed
\* The copy of the other mode is not there.
<1>10. /\ tenant.mode = "user_kit" => row'.escrow = None
       /\ tenant.mode = "admin_escrow" => row'.kit = None
  <2>1. CASE row.pub = 0
    BY <1>9, <2>1 DEF KeysInvariant, RowAgrees
  <2>2. CASE row.pub # 0
    <3>1. \A a \in Admins : admins[a].at # "listed"
      BY <1>6 DEF Switching
    <3> QED
      BY <1>9, <2>2, <3>1 DEF KeysInvariant, CopyOfMode
  <2> QED
    BY <2>1, <2>2
<1>11. RowAgrees'
  BY <1>4, <1>5, <1>7, <1>8, <1>9, <1>10 DEF RowAgrees, Blank, BodyAgrees, Sealed, Modes
<1>12. Shown' = Shown
  BY <1>1 DEF Shown
<1>13. CopyOfMode'
  <2>1. CASE tenant.mode = "user_kit"
    <3>1. row'.kit = q.body.kit /\ row'.kit # None /\ row'.escrow = None
      BY <1>4, <1>7, <1>9, <1>10, <2>1 DEF BodyAgrees, Sealed
    <3>2. CASE q.kind = "onboard"
      <4>1. WillShow(t)' /\ tabs'[t].do.body.kit.lock = row'.kit.lock
        BY <1>2, <3>1, <3>2 DEF WillShow, Redone
      <4> QED
        BY <1>1, <2>1, <3>1, <4>1 DEF CopyOfMode, KitShown
    <3>3. CASE q.kind # "onboard"
      <4>1. row'.kit.lock \in kits'
        BY <1>1, <1>4, <1>7, <2>1, <3>1, <3>3 DEF BodyAgrees
      <4> QED
        BY <1>1, <2>1, <3>1, <4>1 DEF CopyOfMode, KitShown
    <3> QED
      BY <3>2, <3>3
  <2>2. CASE tenant.mode = "admin_escrow"
    <3>1. row'.escrow = q.body.escrow /\ row'.escrow # None /\ row'.kit = None
          /\ row'.escrow.to \in Shown
      BY <1>4, <1>7, <1>9, <1>10, <2>2 DEF BodyAgrees, Sealed
    <3> QED
      BY <1>1, <1>12, <2>2, <3>1 DEF CopyOfMode
  <2> QED
    BY <1>5, <1>7, <2>1, <2>2 DEF Modes
\* The other windows: no change of the password is under way before there are keys.
<1>14. ASSUME NEW v \in Tabs PROVE TabAgrees(tabs[v])'
  <2>1. tabs[v] \in Tab /\ TabAgrees(tabs[v]) /\ (v # t => tabs'[v] = tabs[v])
    BY <1>2 DEF TypeInvariant, TypeOK, KeysInvariant, Redone, Only
  <2>2. tabs[v].sk # 0 => tabs[v].sk \in {row'.pub} \cup gone'.keys
    BY <1>1, <1>5, <1>8, <2>1 DEF TabAgrees
  <2>3. CASE v = t
    <3>1. BodyAgrees(d)'
      BY <1>1, <1>2, <1>4, <1>8, <1>12 DEF BodyAgrees, Sealed
    <3> QED
      BY <1>2, <2>2, <2>3, <3>1, AtOf DEF TabAgrees, Redone
  <2>4. CASE v # t
    <3> DEFINE w == tabs[v].do
    <3>1. w.at # "in" /\ tabs'[v] = tabs[v]
      BY <1>6, <2>1, <2>4 DEF Reading
    <3>2. w.kind = "save" /\ w.at = "status" => w.sk = row'.pub
      <4>1. ASSUME w.kind = "save", w.at = "status" PROVE w.sk = row'.pub
        <5>1. w.sk = row.pub /\ w.sk # 0
          BY <2>1, <4>1, DoingAt DEF TabAgrees, Tab, Sealing, Number
        <5> QED
          BY <1>8, <5>1
      <4> QED
        BY <4>1
    <3>3. w.at \in {"post", "answer"} => BodyAgrees(w)'
      <4>1. ASSUME w.at \in {"post", "answer"} PROVE BodyAgrees(w)'
        <5>1. BodyAgrees(w)
          BY <2>1, <4>1 DEF TabAgrees
        <5>2. w.kind # "onboard" => w.body.sk = row'.pub
          <6>1. w.body.sk # 0
            BY <2>1, <4>1, DoingAt DEF Tab, Sending, Waiting, Posted, Number
          <6> QED
            BY <1>8, <5>1, <6>1 DEF BodyAgrees
        <5> QED
          BY <1>1, <1>12, <5>1, <5>2, <3>1 DEF BodyAgrees, Sealed
      <4> QED
        BY <4>1
    <3> QED
      BY <1>1, <2>1, <2>2, <3>1, <3>2, <3>3 DEF TabAgrees
  <2> QED
    BY <2>3, <2>4
<1>15. Reading' = {} /\ Completing' = {} /\ Switching' = {}
  <2>1. Reading' = {}
    BY <1>2, <1>6 DEF Reading, Redone, Only
  <2>2. Completing' = {} /\ Switching' = {}
    BY <1>1, <1>6 DEF Completing, Switching
  <2> QED
    BY <2>1, <2>2
<1>16. OneHandler' /\ ReadIsCurrent' /\ SwitchedApart'
  BY <1>15 DEF OneHandler, ReadIsCurrent, SwitchedApart
<1>17. secrets' \subseteq {row'.pub} \cup gone'.keys
  <2>1. secrets \subseteq {row.pub} \cup gone.keys /\ secrets \subseteq Number
    BY DEF KeysInvariant, TypeInvariant, TypeOK
  <2> QED
    BY <1>1, <1>8, <2>1 DEF Number
<1>18. tenant' # None => tenant'.escrow \in Shown' \cup {0}
  BY <1>1, <1>12 DEF KeysInvariant
<1> QED
  BY <1>11, <1>13, <1>14, <1>16, <1>17, <1>18 DEF KeysInvariant

\* A secret is created only for a key the row has or had, while no switch of the mode
\* that has seen none is under way.
LEMMA SecretKeeps ==
  ASSUME Overlap = FALSE, TypeInvariant, KeysInvariant, NEW t \in Tabs, Secret(t)
  PROVE  KeysInvariant'
<1>1. /\ UNCHANGED <<row, tenant, tabs, persists, admins, shares, kits, gone>>
      /\ Alone /\ tabs[t].sk # 0
      /\ secrets' = secrets \cup {tabs[t].sk} \/ secrets' \subseteq secrets
  BY DEF Secret, outside
<1>2. NoHandler
  BY <1>1, AloneMeans
<1>3. Shown' = Shown
  BY <1>1 DEF Shown
<1>4. RowAgrees' /\ CopyOfMode'
  BY <1>1, <1>3 DEF KeysInvariant, RowAgrees, CopyOfMode, KitShown, WillShow, Blank
<1>5. ASSUME NEW v \in Tabs PROVE TabAgrees(tabs[v])'
  <2>1. tabs'[v] = tabs[v] /\ TabAgrees(tabs[v])
    BY <1>1 DEF KeysInvariant
  <2>2. tabs[v].do.at \in {"post", "in", "answer"} => BodyAgrees(tabs[v].do)'
    BY <1>1, <1>3, <2>1 DEF TabAgrees, BodyAgrees, Sealed
  <2> QED
    BY <1>1, <2>1, <2>2 DEF TabAgrees, Takes, Filed
<1>6. OneHandler' /\ ReadIsCurrent' /\ SwitchedApart'
  <2>1. Reading' = {} /\ Completing' = {} /\ Switching' = {}
    BY <1>1, <1>2 DEF NoHandler, Reading, Completing, Switching
  <2> QED
    BY <2>1 DEF OneHandler, ReadIsCurrent, SwitchedApart
<1>7. secrets' \subseteq {row'.pub} \cup gone'.keys
  <2>1. tabs[t].sk \in {row.pub} \cup gone.keys
    BY <1>1 DEF KeysInvariant, TabAgrees
  <2> QED
    BY <1>1, <2>1 DEF KeysInvariant
<1>8. tenant' # None => tenant'.escrow \in Shown' \cup {0}
  BY <1>1, <1>3 DEF KeysInvariant
<1> QED
  BY <1>4, <1>5, <1>6, <1>7, <1>8 DEF KeysInvariant

\* The request that completes an old row finds it old, and nobody has written since.
LEMMA PersistParamsKeeps ==
  ASSUME Overlap = FALSE, TypeInvariant, KeysInvariant, PersistParams
  PROVE  KeysInvariant'
<1>1. UNCHANGED <<tenant, secrets, tabs, admins, shares, kits, gone>>
  BY DEF PersistParams, outside
<1>2. PICK p \in persists :
        \/ /\ p.row = None /\ Alone
           /\ persists' = (persists \ {p}) \cup
                (IF StillBlank THEN {[p EXCEPT !.row = [row EXCEPT !.kdf = p.par]]} ELSE {})
           /\ UNCHANGED row
        \/ p.row # None /\ row' = p.row /\ persists' = persists \ {p}
  BY DEF PersistParams
<1>3. p \in [par : Params, row : Row \cup {None}] /\ row \in Row
  BY DEF TypeInvariant, TypeOK
<1>4. Shown' = Shown
  BY <1>1 DEF Shown
<1>5. Reading' = Reading /\ Switching' = Switching
  BY <1>1 DEF Reading, Switching
\* All but the parameters of the row stays.
<1>6. ASSUME row'.pub = row.pub, row'.sealed = row.sealed, row'.kit = row.kit,
             row'.escrow = row.escrow, NoHandler \/ Reading = {}, Reading = {} \/ row' = row
      PROVE  /\ CopyOfMode' /\ secrets' \subseteq {row'.pub} \cup gone'.keys
             /\ \A v \in Tabs : TabAgrees(tabs[v])'
             /\ tenant' # None => tenant'.escrow \in Shown' \cup {0}
  <2>1. KitShown => KitShown'
    BY <1>1, <1>6 DEF KitShown, WillShow
  <2>2. CopyOfMode'
    BY <1>1, <1>4, <1>6, <2>1 DEF KeysInvariant, CopyOfMode
  <2>3. ASSUME NEW v \in Tabs PROVE TabAgrees(tabs[v])'
    <3>1. tabs'[v] = tabs[v] /\ TabAgrees(tabs[v]) /\ tabs[v].do.at # "in"
      BY <1>1, <1>6 DEF KeysInvariant, NoHandler, Reading
    <3>2. tabs[v].do.at \in {"post", "in", "answer"} => BodyAgrees(tabs[v].do)'
      BY <1>1, <1>4, <1>6, <3>1 DEF TabAgrees, BodyAgrees, Sealed
    <3> QED
      BY <1>1, <1>6, <3>1, <3>2 DEF TabAgrees
  <2>4. secrets' \subseteq {row'.pub} \cup gone'.keys /\ (tenant' # None => tenant'.escrow \in Shown' \cup {0})
    BY <1>1, <1>4, <1>6 DEF KeysInvariant
  <2> QED
    BY <2>2, <2>3, <2>4
<1>7. CASE p.row = None
  <2> DEFINE r == [p EXCEPT !.row = [row EXCEPT !.kdf = p.par]]
  <2>1. NoHandler /\ row' = row
        /\ persists' = (persists \ {p}) \cup (IF StillBlank THEN {r} ELSE {})
    BY <1>2, <1>7, AloneMeans
  <2>2. r.par = p.par /\ r.row = [row EXCEPT !.kdf = p.par]
    BY <1>3
  <2> HIDE DEF r
  <2>3. RowAgrees'
    BY <2>1, <2>2 DEF KeysInvariant, RowAgrees, Blank, StillBlank
  <2>4. Completing' \subseteq {r} /\ (Completing' # {} => Blank)
    BY <2>1 DEF NoHandler, Completing, StillBlank, Blank
  <2>5. OneHandler'
    BY <1>5, <2>1, <2>4 DEF OneHandler, NoHandler
  <2>6. ReadIsCurrent'
    <3>1. Switching' = {}
      BY <1>5, <2>1 DEF NoHandler
    <3>2. \A x \in Completing' : Blank' /\ x.row = [row' EXCEPT !.kdf = x.par]
      BY <2>1, <2>2, <2>4 DEF Blank
    <3> QED
      BY <3>1, <3>2 DEF ReadIsCurrent
  <2>7. SwitchedApart'
    BY <1>5, <2>1 DEF NoHandler, SwitchedApart
  <2> QED
    BY <1>6, <2>1, <2>3, <2>5, <2>6, <2>7 DEF KeysInvariant
<1>8. CASE p.row # None
  <2>1. p \in Completing /\ row' = p.row /\ persists' = persists \ {p}
    BY <1>2, <1>8 DEF Completing
  <2>2. Blank /\ row' = [row EXCEPT !.kdf = p.par]
    BY <2>1 DEF KeysInvariant, ReadIsCurrent
  <2>3. Reading = {} /\ Switching = {} /\ Completing = {p}
    BY <2>1 DEF KeysInvariant, OneHandler
  <2>4. /\ row'.pub = row.pub /\ row'.sealed = row.sealed /\ row'.kit = row.kit
        /\ row'.escrow = row.escrow /\ row'.kdf = p.par /\ p.par # None
    BY <1>3, <2>2, VaultKeysAssumption DEF Row
  <2>5. p.par = row.sealed.par
    BY <2>2 DEF KeysInvariant, RowAgrees
  <2>6. RowAgrees'
    BY <2>2, <2>4, <2>5 DEF KeysInvariant, RowAgrees, Blank
  <2>7. Completing' = {}
    BY <2>1, <2>3 DEF Completing
  <2>8. OneHandler' /\ ReadIsCurrent' /\ SwitchedApart'
    BY <1>5, <2>3, <2>7 DEF OneHandler, ReadIsCurrent, SwitchedApart
  <2> QED
    BY <1>6, <2>3, <2>4, <2>6, <2>8 DEF KeysInvariant
<1> QED
  BY <1>7, <1>8

\* Another administrator's key is one more whose shares are shown.
LEMMA AdminKeeps ==
  ASSUME TypeInvariant, KeysInvariant, NEW a \in Admins, NEW r, AdminBecomes(a, r),
         UNCHANGED <<row, tabs, secrets, persists, kits>>, Shown \subseteq Shown', tenant # None,
         gone'.kits = gone.kits, gone'.keys = gone.keys,
         admins[a].at \notin {"checked", "listed"}, r.at \notin {"checked", "listed"},
         tenant' = tenant \/ (tenant'.mode = tenant.mode /\ NoHandler),
         tenant'.escrow \in Shown' \cup {0}
  PROVE  KeysInvariant'
<1>1. admins'[a] = r /\ \A b \in Admins \ {a} : admins'[b] = admins[b]
  BY DEF AdminBecomes, TypeInvariant, TypeOK
<1>2. Reading' = Reading /\ Completing' = Completing /\ Switching' = Switching
  BY <1>1 DEF Reading, Completing, Switching
<1>3. RowAgrees' /\ secrets' \subseteq {row'.pub} \cup gone'.keys
  BY DEF KeysInvariant, RowAgrees, Blank
<1>4. CopyOfMode'
  <2>1. tenant'.mode = tenant.mode /\ (KitShown => KitShown')
    BY DEF KitShown, WillShow
  <2>2. (\A b \in Admins : admins'[b].at # "listed") => \A b \in Admins : admins[b].at # "listed"
    BY <1>1
  <2> QED
    BY <2>1, <2>2 DEF KeysInvariant, CopyOfMode
<1>5. ASSUME NEW v \in Tabs PROVE TabAgrees(tabs[v])'
  <2>1. tabs'[v] = tabs[v] /\ TabAgrees(tabs[v])
    BY DEF KeysInvariant
  <2>2. tabs[v].do.at \in {"post", "in", "answer"} => BodyAgrees(tabs[v].do)'
    BY <2>1 DEF TabAgrees, BodyAgrees, Sealed
  <2>3. tabs[v].do.at = "in" => tenant' = tenant
    BY DEF NoHandler, Reading
  <2> QED
    BY <2>1, <2>2, <2>3 DEF TabAgrees, Takes, Filed
<1>6. OneHandler'
  BY <1>2 DEF KeysInvariant, OneHandler
<1>7. ReadIsCurrent'
  <2>1. \A p \in Completing' : Blank' /\ p.row = [row' EXCEPT !.kdf = p.par]
    BY <1>2 DEF KeysInvariant, ReadIsCurrent, Blank
  <2>2. ASSUME NEW b \in Switching'
        PROVE  /\ b \in Switching /\ admins'[b] = admins[b] /\ tenant' = tenant
    BY <1>1, <1>2 DEF Switching, NoHandler
  <2> QED
    BY <2>1, <2>2 DEF KeysInvariant, ReadIsCurrent
<1>8. SwitchedApart'
  BY <1>2 DEF KeysInvariant, SwitchedApart
<1> QED
  BY <1>3, <1>4, <1>5, <1>6, <1>7, <1>8 DEF KeysInvariant

\* The administrator is about a switch of the mode: nobody else handles anything.
LEMMA SwitchKeeps ==
  ASSUME TypeInvariant, KeysInvariant, NEW a \in Admins, NEW r, AdminBecomes(a, r),
         r.at \in {"checked", "listed"}, admins[a].at # "show",
         UNCHANGED <<row, tabs, secrets, persists, kits, shares, gone>>, tenant # None,
         \A v \in Tabs : Away(tabs[v].do), Reading = {}, Completing = {}, Switching \subseteq {a}, secrets = {},
         r.at = "checked" =>
           tenant' = tenant /\ r.tenant = Toggled(tenant),
         r.at = "listed" => tenant'.escrow = tenant.escrow /\ r.row = row,
         \A b \in Admins : admins[b].at = "listed" => r.at = "listed"
  PROVE  KeysInvariant'
<1>1. admins'[a] = r /\ \A b \in Admins \ {a} : admins'[b] = admins[b]
  BY DEF AdminBecomes, TypeInvariant, TypeOK
<1>2. Reading' = {} /\ Completing' = {} /\ Switching' = {a}
  BY <1>1 DEF Reading, Completing, Switching
<1>3. Shown' = Shown
  <2>1. \A b \in Admins : /\ admins'[b].at = "show" <=> admins[b].at = "show"
                          /\ admins[b].at = "show" => admins'[b] = admins[b]
    BY <1>1
  <2> QED
    BY <2>1 DEF Shown
<1>4. RowAgrees' /\ secrets' \subseteq {row'.pub} \cup gone'.keys
  BY DEF KeysInvariant, RowAgrees, Blank
<1>5. CopyOfMode'
  <2>1. CASE r.at = "listed"
    BY <1>1, <2>1 DEF CopyOfMode
  <2>2. CASE r.at = "checked"
    <3>1. tenant' = tenant /\ (KitShown => KitShown')
      BY <2>2 DEF KitShown, WillShow
    <3>2. \A b \in Admins : admins[b].at # "listed"
      BY <2>2
    <3> QED
      BY <1>3, <3>1, <3>2 DEF KeysInvariant, CopyOfMode
  <2> QED
    BY <2>1, <2>2
<1>6. ASSUME NEW v \in Tabs PROVE TabAgrees(tabs[v])'
  <2>1. tabs'[v] = tabs[v] /\ TabAgrees(tabs[v]) /\ tabs[v].do.at # "in"
    BY DEF KeysInvariant, Reading
  <2>2. tabs[v].do.at \in {"post", "in", "answer"} => BodyAgrees(tabs[v].do)'
    BY <1>3, <2>1 DEF TabAgrees, BodyAgrees, Sealed
  <2> QED
    BY <2>1, <2>2 DEF TabAgrees
<1>7. OneHandler'
  BY <1>2 DEF OneHandler
<1>8. ReadIsCurrent'
  <2>1. r.at = "checked" => Toggled(tenant') = Toggled(tenant)
    OBVIOUS
  <2> QED
    BY <1>1, <1>2, <2>1 DEF ReadIsCurrent
<1>9. tenant' # None => tenant'.escrow \in Shown' \cup {0}
  BY <1>3 DEF KeysInvariant
<1>10. SwitchedApart'
  BY DEF SwitchedApart, Away
<1> QED
  BY <1>4, <1>5, <1>6, <1>7, <1>8, <1>9, <1>10 DEF KeysInvariant

\* The row is wiped as it was listed: there is no secret that its key is for, and the
\* windows that hold it hold a key that is gone.
LEMMA WipeKeysKeeps ==
  ASSUME Overlap = FALSE, TypeInvariant, KeysInvariant, NEW a \in Admins, WipeKeys(a)
  PROVE  KeysInvariant'
<1>1. /\ UNCHANGED <<tenant, secrets, tabs, persists, kits, shares>>
      /\ admins' = [admins EXCEPT ![a] = Rest]
      /\ gone' = [gone EXCEPT !.keys = @ \cup ({row.pub} \ (secrets \cup {0}))]
      /\ admins[a].at = "listed" /\ row' = Wiped(admins[a].row)
  BY DEF WipeKeys, Step
<1>2. /\ Switching = {a} /\ Completing = {} /\ Reading = {} /\ secrets = {} /\ tenant # None
      /\ \A v \in Tabs : Away(tabs[v].do)
  <2>1. a \in Switching
    BY <1>1 DEF Switching
  <2>2. tenant # None
    BY AdminSetUp DEF AdminStep
  <2> QED
    BY <2>1, <2>2 DEF KeysInvariant, OneHandler, ReadIsCurrent, SwitchedApart
<1>3. row'.pub = 0 /\ row'.sealed = None /\ row'.kit = None /\ row'.escrow = None
  BY <1>1 DEF Wiped, NewRow
<1>4. admins'[a] = Rest /\ \A b \in Admins \ {a} : admins'[b] = admins[b]
  BY <1>1 DEF TypeInvariant, TypeOK
<1>5. gone'.shares = gone.shares /\ gone.keys \subseteq gone'.keys /\ (row.pub # 0 => row.pub \in gone'.keys)
  <2>1. gone \in Losses
    BY DEF TypeInvariant, TypeOK
  <2> QED
    BY <1>1, <1>2, <2>1 DEF Losses
<1>6. Shown' = Shown
  <2>1. \A b \in Admins : /\ admins'[b].at = "show" <=> admins[b].at = "show"
                          /\ admins[b].at = "show" => admins'[b] = admins[b]
    BY <1>1, <1>4, AtOf
  <2> QED
    BY <1>1, <1>5, <2>1 DEF Shown
<1>7. Reading' = {} /\ Completing' = {} /\ Switching' = {}
  <2>1. Reading' = {} /\ Completing' = {}
    BY <1>1, <1>2 DEF Reading, Completing
  <2>2. Switching' = {}
    BY <1>2, <1>4, AtOf DEF Switching
  <2> QED
    BY <2>1, <2>2
<1>8. RowAgrees' /\ CopyOfMode'
  BY <1>3 DEF RowAgrees, CopyOfMode, Blank
<1>9. ASSUME NEW v \in Tabs PROVE TabAgrees(tabs[v])'
  <2> DEFINE d == tabs[v].do
  <2>1. tabs'[v] = tabs[v] /\ TabAgrees(tabs[v]) /\ Away(d)
    BY <1>1, <1>2 DEF KeysInvariant
  <2>2. tabs[v].sk # 0 => tabs[v].sk \in gone'.keys
    BY <1>5, <2>1 DEF TabAgrees
  <2>3. d.at \in {"post", "in", "answer"} => d.at = "post" /\ d.kind = "onboard" /\ BodyAgrees(d)'
    BY <1>6, <2>1 DEF TabAgrees, Away, BodyAgrees, Sealed
  <2>4. ~(d.kind = "save" /\ d.at = "status")
    BY <2>1 DEF Away
  <2>5. d.kind = "recover" /\ d.at = "keys" => d.kit \in kits'
    BY <1>1, <2>1 DEF TabAgrees
  <2> QED
    BY <2>1, <2>2, <2>3, <2>4, <2>5 DEF TabAgrees
<1>10. OneHandler' /\ ReadIsCurrent' /\ SwitchedApart'
  BY <1>7 DEF OneHandler, ReadIsCurrent, SwitchedApart
<1>11. secrets' \subseteq {row'.pub} \cup gone'.keys /\ (tenant' # None => tenant'.escrow \in Shown' \cup {0})
  BY <1>1, <1>2, <1>6 DEF KeysInvariant
<1> QED
  BY <1>8, <1>9, <1>10, <1>11 DEF KeysInvariant

LEMMA AdminStepKeeps ==
  ASSUME Overlap = FALSE, TypeInvariant, KeysInvariant, NEW a \in Admins, AdminStep(a)
  PROVE  KeysInvariant'
<1>0. /\ tenant \in Tenant /\ tenant # None /\ admins[a] \in Admin /\ tenant.escrow \in Shown \cup {0}
      /\ escrows \in Nat /\ admins \in [Admins -> Admin]
  BY AdminSetUp DEF TypeInvariant, TypeOK, KeysInvariant
<1>1. CASE Switch(a)
  <2>1. PICK r \in Checking :
          /\ AdminBecomes(a, r)
          /\ r.tenant = Toggled(tenant)
    BY <1>1, SwitchLeaves
  <2>2. /\ UNCHANGED <<row, tenant, secrets, tabs, persists, kits, shares, gone>> /\ secrets = {}
        /\ NoHandler /\ admins[a] = Rest /\ \A v \in Tabs : Resting(v)
    BY <1>0, <1>1, AloneMeans, AdminAt DEF Switch, Switchable, Free, server, outside
  <2>3. r.at = "checked" /\ \A b \in Admins : admins[b].at # "listed"
    BY <2>1, <2>2 DEF Checking, NoHandler, Switching
  <2>4. ASSUME NEW v \in Tabs PROVE Away(tabs[v].do)
    <3>1. tabs[v].do \in Doing /\ tabs[v].do.kind = "rest"
      BY <2>2 DEF Resting, TypeInvariant, TypeOK, Tab
    <3>2. tabs[v].do = Rest
      BY <3>1, KindOf DEF Doing, Kinds
    <3> QED
      BY <3>2, AtOf DEF Away
  <2> QED
    BY <1>0, <2>1, <2>2, <2>3, <2>4, SwitchKeeps, AtOf DEF NoHandler
<1>2. CASE PutMode(a)
  <2> DEFINE r == [kind |-> "switch", at |-> "listed", row |-> row]
  <2>1. /\ AdminBecomes(a, r) /\ admins[a].at = "checked" /\ tenant' = admins[a].tenant
        /\ UNCHANGED <<row, secrets, tabs, persists, kits, shares, gone>>
    BY <1>2 DEF PutMode, Step, AdminBecomes, outside
  <2>2. a \in Switching
    BY <2>1 DEF Switching
  <2>3. Reading = {} /\ Completing = {} /\ Switching = {a} /\ \A v \in Tabs : Away(tabs[v].do)
    BY <2>2 DEF KeysInvariant, OneHandler, SwitchedApart
  <2>4. /\ secrets = {}
        /\ tenant' = Toggled(tenant)
    BY <2>1, <2>2 DEF KeysInvariant, ReadIsCurrent
  <2>5. tenant'.escrow = tenant.escrow
    BY <1>0, <2>4 DEF Tenant, Toggled
  <2>6. r.at = "listed" /\ r.row = row
    OBVIOUS
  <2> HIDE DEF r
  <2> QED
    BY <1>0, <2>1, <2>3, <2>4, <2>5, <2>6, SwitchKeeps
<1>3. CASE WipeKeys(a)
  BY <1>3, WipeKeysKeeps
\* The new key of a ceremony.
<1>4. ASSUME UNCHANGED <<row, tabs, secrets, persists, kits, shares, gone>>, NoHandler,
             admins[a].at # "show", tenant' = [tenant EXCEPT !.escrow = escrows'],
             AdminBecomes(a, [kind |-> "escrow", at |-> "show", key |-> escrows'])
      PROVE  KeysInvariant'
  <2> DEFINE r == [kind |-> "escrow", at |-> "show", key |-> escrows']
  <2>1. r.at = "show" /\ r.key = escrows' /\ AdminBecomes(a, r)
    BY <1>4
  <2>2. tenant'.mode = tenant.mode /\ tenant'.escrow = escrows'
    BY <1>0, <1>4 DEF Tenant
  <2> HIDE DEF r
  <2>3. admins'[a] = r /\ \A b \in Admins \ {a} : admins'[b] = admins[b]
    BY <1>0, <2>1 DEF AdminBecomes
  <2>4. Shown \subseteq Shown' /\ escrows' \in Shown'
    BY <1>4, <2>1, <2>3 DEF Shown
  <2>5. admins[a].at \notin {"checked", "listed"}
    BY <1>4 DEF NoHandler, Switching
  <2> QED
    BY <1>0, <1>4, <2>1, <2>2, <2>4, <2>5, AdminKeeps
<1>5. CASE GenerateEscrow(a)
  <2>1. admins[a] = Rest /\ NoHandler
    BY <1>0, <1>5, AloneMeans, AdminAt DEF GenerateEscrow, Free
  <2> QED
    BY <1>4, <1>5, <2>1, AtOf DEF GenerateEscrow, Step, AdminBecomes
\* Nothing but what the administrator is about changes.
<1>6. ASSUME NEW r, AdminBecomes(a, r), UNCHANGED <<row, tenant, tabs, secrets, persists, kits, shares, gone>>,
             admins[a].at \in {"rest", "finish"}, r.at \in {"rest", "finish"}
      PROVE  KeysInvariant'
  <2>1. admins'[a] = r /\ \A b \in Admins \ {a} : admins'[b] = admins[b]
    BY <1>0, <1>6 DEF AdminBecomes
  <2>2. \A b \in Admins : admins[b].at = "show" => admins'[b] = admins[b]
    BY <1>6, <2>1
  <2>3. Shown \subseteq Shown'
    BY <1>6, <2>2 DEF Shown
  <2> QED
    BY <1>0, <1>6, <2>3, AdminKeeps
<1>7. CASE BeginReplace(a)
  <2> DEFINE r == IF tenant.escrow \in shares THEN [kind |-> "escrow", at |-> "finish"] ELSE Rest
  <2>1. /\ AdminBecomes(a, r) /\ admins[a] = Rest
        /\ UNCHANGED <<row, tenant, tabs, secrets, persists, kits, shares, gone>>
    BY <1>0, <1>7, AdminAt DEF BeginReplace, Step, AdminBecomes, Free, outside
  <2>2. r.at \in {"rest", "finish"}
    BY AtOf
  <2> HIDE DEF r
  <2> QED
    BY <1>6, <2>1, <2>2, AtOf
<1>8. CASE FinishReplace(a)
  <2>1. /\ UNCHANGED <<row, tabs, secrets, persists, kits, shares, gone>> /\ NoHandler
        /\ admins[a].at = "finish"
    BY <1>8, AloneMeans DEF FinishReplace
  <2>2. CASE ceremony = a
    BY <1>4, <1>8, <2>1, <2>2 DEF FinishReplace, Step, AdminBecomes
  <2>3. CASE ceremony # a
    BY <1>6, <1>8, <2>1, <2>3, AtOf DEF FinishReplace, Step, AdminBecomes
  <2> QED
    BY <2>2, <2>3
<1>9. CASE ShowShares(a)
  <2>1. /\ AdminBecomes(a, Rest) /\ admins[a].at = "show"
        /\ UNCHANGED <<row, tenant, tabs, secrets, persists, kits>>
    BY <1>9 DEF ShowShares, Step, AdminBecomes, server
  <2>2. \A b \in Admins \ {a} : admins'[b] = admins[b]
    BY <1>0, <2>1 DEF AdminBecomes
  <2>3. /\ shares' \cup gone'.shares = shares \cup gone.shares \cup {admins[a].key}
        /\ gone'.kits = gone.kits /\ gone'.keys = gone.keys
    <3>1. gone \in Losses
      BY DEF TypeInvariant, TypeOK
    <3> QED
      BY <1>9, <3>1 DEF ShowShares, Losses
  <2>4. Shown \subseteq Shown'
    BY <2>1, <2>2, <2>3 DEF Shown
  <2> QED
    BY <1>0, <2>1, <2>3, <2>4, AdminKeeps, AtOf
<1> QED
  BY <1>1, <1>2, <1>3, <1>5, <1>7, <1>8, <1>9 DEF AdminStep

LEMMA InitKeeps == Init => KeysInvariant
<1> SUFFICES ASSUME Init PROVE KeysInvariant
  OBVIOUS
<1>1. /\ persists = {} /\ secrets = {} /\ defaults \in Params
      /\ row \in {NewRow, OldRow(defaults)} /\ made = row.pub /\ kits = 1 .. made
      /\ tenant = None => row = NewRow
      /\ tenant # None => tenant.mode = "user_kit" /\ tenant.escrow = 0
      /\ \A a \in Admins : admins[a] = Rest
  <2>1. [mode : {"user_kit"}, escrow : {0}, totp : BOOLEAN] \subseteq Tenant
    BY DEF Tenant, Modes
  <2>2. tenant = None => row = NewRow
    BY <2>1, VaultKeysAssumption DEF Init
  <2>3. tenant # None => tenant.mode = "user_kit" /\ tenant.escrow = 0
    BY DEF Init
  <2> QED
    BY <2>2, <2>3 DEF Init
<1>2. TypeInvariant
  BY InitTypes
<1>3. \A t \in Tabs : tabs[t].sk = 0 /\ tabs[t].do.at \in {"rest", "wizard"}
  <2>1. Boot("login").sk = 0 /\ Boot("login").do.at \in {"rest", "wizard"}
    <3>1. CASE tenant = None
      BY <3>1 DEF Boot, Fresh, Draft
    <3>2. CASE tenant # None
      BY <3>2 DEF Boot, Fresh, Rest
    <3> QED
      BY <3>1, <3>2
  <2> QED
    BY <2>1 DEF Init
<1>4. NewRow.pub = 0 /\ NewRow.sealed = None /\ NewRow.kit = None /\ NewRow.escrow = None
  BY DEF NewRow
<1>5. LET r == OldRow(defaults)
          blob == [sk |-> 1, lock |-> 1, par |-> defaults]
      IN  r.pub = 1 /\ r.sealed = blob /\ r.kit = blob /\ r.escrow = None /\ r.kdf = None
  BY DEF OldRow, NewRow
<1>6. row = OldRow(defaults) => row.sealed # None /\ row.kit # None
  <2>1. [sk |-> 1, lock |-> 1, par |-> defaults] \in Blob
    BY <1>1 DEF Blob, Number
  <2> QED
    BY <1>5, <2>1, VaultKeysAssumption
<1>7. CASE row = NewRow
  <2>1. RowAgrees /\ CopyOfMode
    BY <1>4, <1>7 DEF RowAgrees, CopyOfMode, Blank
  <2>2. \A t \in Tabs : TabAgrees(tabs[t])
    BY <1>3 DEF TabAgrees
  <2>3. Reading = {} /\ Completing = {} /\ Switching = {}
    BY <1>1, <1>3, AtOf DEF Reading, Completing, Switching
  <2> QED
    BY <1>1, <2>1, <2>2, <2>3 DEF KeysInvariant, OneHandler, ReadIsCurrent, SwitchedApart
<1>8. CASE row = OldRow(defaults)
  <2>1. row.pub = 1 /\ row.sealed.sk = 1 /\ row.kit.sk = 1 /\ row.kit.lock = 1
        /\ row.kit.par = row.sealed.par /\ row.escrow = None /\ row.kdf = None
    BY <1>5, <1>8
  <2>2. RowAgrees
    BY <1>1, <1>6, <1>8, <2>1 DEF RowAgrees, Blank
  <2>3. tenant # None
    BY <1>1, <1>4, <2>1
  <2>4. CopyOfMode
    <3>1. 1 \in kits
      BY <1>1, <2>1
    <3> QED
      BY <1>1, <1>6, <1>8, <2>1, <2>3, <3>1 DEF CopyOfMode, KitShown
  <2>5. \A t \in Tabs : TabAgrees(tabs[t])
    BY <1>3 DEF TabAgrees
  <2>6. Reading = {} /\ Completing = {} /\ Switching = {}
    BY <1>1, <1>3, AtOf DEF Reading, Completing, Switching
  <2> QED
    BY <1>1, <2>2, <2>4, <2>5, <2>6 DEF KeysInvariant, OneHandler, ReadIsCurrent, SwitchedApart
<1> QED
  BY <1>1, <1>7, <1>8

\* Every step keeps the invariant, if requests do not overlap.
LEMMA NextKeeps ==
  ASSUME Overlap = FALSE, TypeInvariant, KeysInvariant, [Next]_vars
  PROVE  KeysInvariant'
<1>1. ASSUME UNCHANGED <<row, tenant, secrets, tabs, persists, admins, kits, shares, gone>>
      PROVE  KeysInvariant'
  BY <1>1 DEF KeysInvariant, RowAgrees, Blank, CopyOfMode, KitShown, WillShow, Shown, TabAgrees,
     BodyAgrees, Sealed, Takes, Filed, OneHandler, ReadIsCurrent, Reading, Completing, Switching,
     SwitchedApart, Away
<1>2. CASE UNCHANGED vars
  BY <1>1, <1>2 DEF vars, server, outside
<1>3. ASSUME NEW t \in Tabs, PageStep(t) \/ ReadStep(t) \/ Unlock(t) \/ Store(t) \/ Secret(t)
      PROVE  KeysInvariant'
  BY <1>3, PageStepKeeps, ReadStepKeeps, UnlockKeeps, StoreKeeps, SecretKeeps
<1>4. ASSUME NEW a \in Admins, AdminStep(a)
      PROVE  KeysInvariant'
  BY <1>4, AdminStepKeeps
<1>5. CASE PersistParams
  BY <1>5, PersistParamsKeeps
<1>6. CASE SetParams \/ Expire
  BY <1>1, <1>6 DEF SetParams, Expire, outside
<1> QED
  BY <1>2, <1>3, <1>4, <1>5, <1>6
     DEF Next, PageStep, ReadStep, WizardStep, StartStep, AdminStep

LEMMA KeysAlways ==
  ASSUME Overlap = FALSE
  PROVE  Spec => []KeysInvariant
BY InitTypes, InitKeeps, NextTypes, NextKeeps, PTL DEF Spec

\* Onboarding, changes of the password, recoveries, requests that complete an old row
\* and switches of the mode leave one key in all copies of the row, with lost answers
\* and reloaded pages anywhere.
THEOREM CopiesHoldOneKey ==
  ASSUME Overlap = FALSE
  PROVE  Spec => []KeysAgree
<1>1. KeysInvariant => KeysAgree
  BY DEF KeysInvariant, RowAgrees, KeysAgree
<1> QED
  BY <1>1, KeysAlways, PTL

\* The copy that the tenant's mode recovers from is there, and its kit or its shares
\* were shown to somebody or are about to be, unless the answer to the onboarding or
\* the page of the shares was lost; any other answer may be.
THEOREM RecoveryStaysReady ==
  ASSUME Overlap = FALSE
  PROVE  Spec => []RecoveryReady
<1>1. KeysInvariant => RecoveryReady
  <2>1. ASSUME row.kit # None, KitShown
        PROVE  \/ row.kit.lock \in kits \cup gone.kits
               \/ \E t \in Tabs : row.kit.lock \in KitUnseen(t)
    BY <2>1 DEF KitShown, WillShow, KitUnseen
  <2> QED
    BY <2>1 DEF KeysInvariant, CopyOfMode, RecoveryReady, Shown
<1> QED
  BY <1>1, KeysAlways, PTL

\* The parameters of the row are those its keys were sealed with, whatever the
\* administrators configure and however late the request that stores them.
THEOREM ParamsStayTrue ==
  ASSUME Overlap = FALSE
  PROVE  Spec => []ParamsAgree
<1>1. KeysInvariant => ParamsAgree
  BY DEF KeysInvariant, RowAgrees, ParamsAgree
<1> QED
  BY <1>1, KeysAlways, PTL

\* Every secret opens with the user's key, or a window sealed it to a key that a switch
\* of the mode had thrown away before: the switch that wipes the keys has seen no
\* secret, none is created until it is done, and no other request replaces a key.
THEOREM SecretsStayOpen ==
  ASSUME Overlap = FALSE
  PROVE  Spec => []SecretsOpen
<1>1. KeysInvariant => SecretsOpen
  BY DEF KeysInvariant, SecretsOpen
<1> QED
  BY <1>1, KeysAlways, PTL

-----------------------------------------------------------------------------
(* What holds whatever overlaps.                                            *)

\* The keys of a row are sealed with the parameters that are stored with it.
Openable(r) == r.pub # 0 => r.sealed # None /\ (r.kdf # None => r.sealed.par = r.kdf)

\* The password opens what it sealed, however old the row that is written over it.
PasswordOpens == Openable(row)

\* Every row that is or will be written is such a row, and what completes an old
\* row are the parameters of its keys.
RowsOpenable ==
  /\ Openable(row)
  /\ Blank => \A p \in persists : p.par = row.sealed.par
  /\ \A p \in persists : p.row # None => Openable(p.row) /\ p.row.kdf # None
  /\ \A t \in Tabs : /\ tabs[t].do.at \in {"post", "in", "answer"} => Sealed(tabs[t].do)
                     /\ tabs[t].do.at = "in" => /\ Openable(tabs[t].do.write)
                                                /\ tabs[t].do.write.kdf # None

LEMMA WindowOpens ==
  ASSUME TypeInvariant, RowsOpenable, NEW t \in Tabs, Only(t), row' = row,
         \/ UNCHANGED persists
         \/ persists' = persists \cup {[par |-> row.sealed.par, row |-> None]},
         tabs'[t].do.at \in {"post", "in", "answer"} => Sealed(tabs'[t].do),
         tabs'[t].do.at = "in" => /\ Openable(tabs'[t].do.write)
                                  /\ tabs'[t].do.write.kdf # None
  PROVE  RowsOpenable'
<1>1. Openable(row') /\ (Blank' => Blank)
  BY DEF RowsOpenable, Blank
<1>2. /\ Blank => \A p \in persists' : p.par = row.sealed.par
      /\ \A p \in persists' : p.row # None => p \in persists
  BY DEF RowsOpenable
<1>3. ASSUME NEW v \in Tabs
      PROVE  /\ tabs'[v].do.at \in {"post", "in", "answer"} => Sealed(tabs'[v].do)
             /\ tabs'[v].do.at = "in" => /\ Openable(tabs'[v].do.write)
                                         /\ tabs'[v].do.write.kdf # None
  <2>1. CASE v = t
    BY <2>1
  <2>2. CASE v # t
    BY <2>2 DEF Only, RowsOpenable
  <2> QED
    BY <2>1, <2>2
<1> QED
  BY <1>1, <1>2, <1>3 DEF RowsOpenable, Openable, Sealed

LEMMA WindowStepOpens ==
  ASSUME TypeInvariant, RowsOpenable, NEW t \in Tabs, PageStep(t) \/ ReadStep(t) \/ Unlock(t) \/ Secret(t)
  PROVE  RowsOpenable'
<1> DEFINE q == tabs[t].do
<1>0. tabs[t] \in Tab /\ q \in Doing
  BY DEF TypeInvariant, TypeOK, Tab
<1>1. row' = row
  BY DEF PageStep, HasSession, SignIn, CodeStep, SecondFactor, GoApp, Reload, Commit, ReadStep, WizardStep,
     StepPlain, StepCrypto, StepRecovery, StepBack, Turn, OpenApp, StartStep, StartOnboard, StartUnlock,
     StartSave, StartRecover, AskMe, Prepare, OpenForChange, OpenWithKit, Arrive, Answered, UnlockAgain,
     Lost, Lock, Unlock, Secret, server
<1>2. ~Unlock(t) => UNCHANGED persists
  BY DEF PageStep, HasSession, SignIn, CodeStep, SecondFactor, GoApp, Reload, Commit, ReadStep, WizardStep,
     StepPlain, StepCrypto, StepRecovery, StepBack, Turn, OpenApp, StartStep, StartOnboard, StartUnlock,
     StartSave, StartRecover, AskMe, Prepare, OpenForChange, OpenWithKit, Arrive, Answered, UnlockAgain,
     Lost, Lock, Secret
\* The window is about something that is not sealed yet, or about nothing.
<1>3. ASSUME Only(t), tabs'[t].do \in {Rest} \cup Drafts \cup Reopening \cup Beginning \cup Opening \cup Sealing,
             \/ UNCHANGED persists
             \/ persists' = persists \cup {[par |-> row.sealed.par, row |-> None]}
      PROVE  RowsOpenable'
  <2>1. tabs'[t].do.at \notin {"post", "in", "answer"}
    BY <1>3, AtOf
  <2> QED
    BY <1>1, <1>3, <2>1, WindowOpens
<1>4. CASE PageStep(t)
  BY <1>2, <1>3, <1>4, PageStepLeaves DEF PageStep, HasSession, SignIn, CodeStep, SecondFactor, GoApp, Reload, Commit
<1>5. CASE Unlock(t)
  BY <1>3, <1>5, UnlockLeaves DEF Redone, Opened
<1>6. CASE Secret(t)
  <2>1. UNCHANGED <<row, tabs, persists>>
    BY <1>6 DEF Secret
  <2> QED
    BY <2>1 DEF RowsOpenable, Openable, Blank, Sealed
<1>7. CASE OpenApp(t) \/ Lock(t)
  <2>1. Only(t) /\ tabs'[t].do = q /\ UNCHANGED persists
    BY <1>7, OpenAppLeaves, LockLeaves DEF OpenApp, Lock
  <2> QED
    BY <1>1, <2>1, WindowOpens DEF RowsOpenable
<1>8. CASE WizardStep(t) \/ StartStep(t) \/ AskMe(t) \/ OpenForChange(t) \/ Answered(t) \/ UnlockAgain(t) \/ Lost(t)
  <2>1. UNCHANGED persists
    BY <1>8 DEF WizardStep, StepPlain, StepCrypto, StepRecovery, StepBack, Turn, StartStep, StartOnboard,
       StartUnlock, StartSave, StartRecover, AskMe, OpenForChange, Answered, UnlockAgain, Lost
  <2>2. CASE WizardStep(t)
    BY <1>3, <2>1, <2>2, WizardStepLeaves DEF Redone
  <2>3. CASE StartStep(t)
    BY <1>3, <2>1, <2>3, StartStepLeaves DEF Redone
  <2>4. CASE AskMe(t)
    BY <1>3, <2>1, <2>4, AskMeLeaves DEF Redone
  <2>5. CASE OpenForChange(t)
    BY <1>3, <2>1, <2>5, OpenForChangeLeaves DEF Redone
  <2>6. CASE Answered(t)
    <3>1. Only(t) /\ tabs[t].do \in Waiting
      BY <2>6, AnsweredLeaves
    <3>2. CASE q.kind = "onboard"
      BY <1>3, <2>1, <2>6, <3>1, <3>2, AnsweredLeaves, FreshTab DEF Pages
    <3>3. CASE q.kind # "onboard"
      BY <1>3, <2>1, <2>6, <3>1, <3>3, AnsweredLeaves
    <3> QED
      BY <3>2, <3>3
  <2>7. CASE UnlockAgain(t)
    BY <1>3, <2>1, <2>7, UnlockAgainLeaves DEF Opened
  <2>8. CASE Lost(t)
    BY <1>3, <2>1, <2>8, Stopped DEF Lost, TypeInvariant, Redone
  <2> QED
    BY <1>8, <2>2, <2>3, <2>4, <2>5, <2>6, <2>7, <2>8
\* It posts, and what it posts is sealed with one set of parameters.
<1>9. ASSUME NEW d \in Sending, Redone(t, d), Sealed(d), UNCHANGED persists
      PROVE  RowsOpenable'
  BY <1>1, <1>9, AtOf, WindowOpens DEF Redone, Sending
<1>10. CASE Prepare(t)
  <2>1. UNCHANGED persists
    BY <1>10 DEF Prepare
  <2> QED
    BY <1>3, <1>9, <1>10, <2>1, PrepareLeaves DEF Redone
<1>11. CASE OpenWithKit(t)
  <2>1. UNCHANGED persists
    BY <1>11 DEF OpenWithKit
  <2> QED
    BY <1>3, <1>9, <1>11, <2>1, OpenWithKitLeaves DEF Redone
<1>12. CASE Arrive(t)
  <2>1. UNCHANGED persists
    BY <1>12 DEF Arrive
  <2>2. CASE Redone(t, Rest)
    BY <1>3, <2>1, <2>2 DEF Redone
  <2>3. CASE ~Redone(t, Rest)
    <3>1. q \in Sending /\ Sealed(q)
      BY <1>12, ArriveLeaves, AtOf DEF RowsOpenable
    <3>2. PICK d \in Waiting :
            /\ Redone(t, d) /\ d.at = "in" /\ d.kind = q.kind /\ d.body = q.body
            /\ d.write = Filed(row, tenant, q)
      BY <1>12, <2>3, ArriveLeaves
    <3>3. q.body.sealed # None /\ q.body.par # None
      BY <3>1, VaultKeysAssumption DEF Sending, Posted
    <3>4. d.write.sealed = q.body.sealed /\ d.write.kdf = q.body.par
      BY <3>2 DEF Filed
    <3>5. Openable(d.write) /\ d.write.kdf # None /\ Sealed(d)
      BY <3>1, <3>2, <3>3, <3>4 DEF Openable, Sealed
    <3> QED
      BY <1>1, <2>1, <3>2, <3>5, WindowOpens DEF Redone
  <2> QED
    BY <2>2, <2>3
<1> QED
  BY <1>4, <1>5, <1>6, <1>7, <1>8, <1>10, <1>11, <1>12 DEF ReadStep

LEMMA NextOpens ==
  ASSUME TypeInvariant, RowsOpenable, [Next]_vars
  PROVE  RowsOpenable'
<1>1. ASSUME UNCHANGED <<row, tabs, persists>>
      PROVE  RowsOpenable'
  BY <1>1 DEF RowsOpenable, Openable, Blank, Sealed
\* A row without keys, or one that has its parameters, is written.
<1>2. ASSUME UNCHANGED persists, Openable(row'), row'.pub = 0 \/ row'.kdf # None,
             \A t \in Tabs : /\ tabs'[t].do.at \in {"post", "in", "answer"} => Sealed(tabs'[t].do)
                             /\ tabs'[t].do.at = "in" => /\ Openable(tabs'[t].do.write)
                                                         /\ tabs'[t].do.write.kdf # None
      PROVE  RowsOpenable'
  BY <1>2 DEF RowsOpenable, Openable, Blank, Sealed
<1>3. ASSUME NEW t \in Tabs, Store(t)
      PROVE  RowsOpenable'
  <2>1. UNCHANGED persists
    BY <1>3 DEF Store
  <2>2. tabs[t].do \in Waiting /\ tabs[t].do.at = "in" /\ row' = tabs[t].do.write
    BY <1>3, StoreLeaves
  <2>3. PICK d \in Waiting : Redone(t, d) /\ d.at = "answer" /\ d.body = tabs[t].do.body
    BY <1>3, StoreLeaves
  <2>4. Openable(row') /\ row'.kdf # None /\ Sealed(d)
    BY <2>2, <2>3 DEF RowsOpenable, Sealed
  <2>5. ASSUME NEW v \in Tabs
        PROVE  /\ tabs'[v].do.at \in {"post", "in", "answer"} => Sealed(tabs'[v].do)
               /\ tabs'[v].do.at = "in" => /\ Openable(tabs'[v].do.write)
                                           /\ tabs'[v].do.write.kdf # None
    <3>1. CASE v = t
      BY <2>3, <2>4, <3>1 DEF Redone
    <3>2. CASE v # t
      BY <2>3, <3>2 DEF Redone, Only, RowsOpenable
    <3> QED
      BY <3>1, <3>2
  <2> QED
    BY <1>2, <2>1, <2>4, <2>5
<1>4. ASSUME NEW a \in Admins, WipeKeys(a)
      PROVE  RowsOpenable'
  <2>1. UNCHANGED persists /\ row'.pub = 0
    BY <1>4 DEF WipeKeys, Wiped, NewRow
  <2>2. ASSUME NEW v \in Tabs
        PROVE  tabs'[v].do = tabs[v].do \/ tabs'[v].do.at = "rest"
    <3>1. tabs' = tabs \/ tabs'[v] = Fresh("login")
      BY <1>4 DEF WipeKeys
    <3> QED
      BY <3>1, FreshTab, AtOf DEF Pages
  <2> QED
    BY <1>2, <2>1, <2>2 DEF RowsOpenable, Openable
<1>5. ASSUME NEW a \in Admins, AdminStep(a), ~WipeKeys(a)
      PROVE  RowsOpenable'
  BY <1>1, <1>5 DEF AdminStep, Switch, PutMode, GenerateEscrow, BeginReplace, FinishReplace, ShowShares, server
<1>6. CASE PersistParams
  <2>1. UNCHANGED tabs
    BY <1>6 DEF PersistParams
  <2>2. PICK p \in persists :
          \/ /\ p.row = None
             /\ persists' = (persists \ {p}) \cup
                  (IF StillBlank THEN {[p EXCEPT !.row = [row EXCEPT !.kdf = p.par]]} ELSE {})
             /\ UNCHANGED row
          \/ p.row # None /\ row' = p.row /\ persists' = persists \ {p}
    BY <1>6 DEF PersistParams
  <2>3. p \in [par : Params, row : Row \cup {None}] /\ row \in Row
    BY DEF TypeInvariant, TypeOK
  <2>4. CASE p.row = None
    <3> DEFINE r == [p EXCEPT !.row = [row EXCEPT !.kdf = p.par]]
               new == [row EXCEPT !.kdf = p.par]
    <3>1. UNCHANGED row /\ persists' = (persists \ {p}) \cup (IF StillBlank THEN {r} ELSE {})
      BY <2>2, <2>4
    <3>2. r.par = p.par /\ r.row = new
      BY <2>3
    <3>3. new.pub = row.pub /\ new.sealed = row.sealed /\ new.kdf = p.par /\ p.par # None
      BY <2>3, VaultKeysAssumption DEF Row
    <3> HIDE DEF r, new
    <3>4. StillBlank => Openable(new)
      BY <3>3 DEF RowsOpenable, StillBlank, Blank, Openable
    <3>5. /\ Blank' => \A x \in persists' : x.par = row'.sealed.par
          /\ \A x \in persists' : x.row # None => Openable(x.row) /\ x.row.kdf # None
      BY <3>1, <3>2, <3>3, <3>4 DEF RowsOpenable, Blank
    <3> QED
      BY <2>1, <3>1, <3>5 DEF RowsOpenable, Openable, Sealed
  <2>5. CASE p.row # None
    <3>1. Openable(row') /\ row'.kdf # None /\ persists' \subseteq persists
      BY <2>2, <2>5 DEF RowsOpenable
    <3> QED
      BY <2>1, <3>1 DEF RowsOpenable, Openable, Blank, Sealed
  <2> QED
    BY <2>4, <2>5
<1>7. CASE SetParams \/ Expire
  BY <1>1, <1>7 DEF SetParams, Expire
<1>8. CASE UNCHANGED vars
  BY <1>1, <1>8 DEF vars, server
<1> QED
  BY <1>3, <1>4, <1>5, <1>6, <1>7, <1>8, WindowStepOpens
     DEF Next, PageStep, ReadStep, WizardStep, StartStep, AdminStep

LEMMA InitOpens == Init => RowsOpenable
<1> SUFFICES ASSUME Init PROVE RowsOpenable
  OBVIOUS
<1>1. KeysInvariant
  BY InitKeeps
<1>2. persists = {} /\ row \in {NewRow, OldRow(defaults)}
  BY DEF Init
<1>3. \A t \in Tabs : tabs[t].do.at \in {"rest", "wizard"}
  <2>1. Boot("login").do.at \in {"rest", "wizard"}
    BY DEF Boot, Fresh, Draft, Rest
  <2> QED
    BY <2>1 DEF Init
<1> QED
  BY <1>1, <1>2, <1>3 DEF KeysInvariant, RowAgrees, RowsOpenable, Openable

\* However many handlers write whole rows over one another, late or twice, the
\* private key of the row that is left is sealed with the parameters stored with
\* it, when it has any: the password that sealed it opens it, whatever the defaults
\* have become (server.go:1062, 1095).
THEOREM PasswordAlwaysOpens == Spec => []PasswordOpens
<1>1. RowsOpenable => PasswordOpens
  BY DEF RowsOpenable, PasswordOpens
<1> QED
  BY <1>1, InitTypes, InitOpens, NextTypes, NextOpens, PTL DEF Spec

=============================================================================
