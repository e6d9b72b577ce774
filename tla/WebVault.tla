------------------------------ MODULE WebVault ------------------------------
(* The unlocked vault in the browser (web/static/app.js): the list and its   *)
(* pages, the detail panel with its form, the access panel, the batch        *)
(* operations and the changes of group members.  Every handler is a task     *)
(* that runs up to its next await in one step; what it reads afterwards, the *)
(* current secret above all, may have changed by then, because nothing keeps *)
(* the user from starting the next one.  The user owns the secrets, so every *)
(* button is enabled.                                                        *)
EXTENDS Naturals, Sequences, FiniteSets, SequencesExt

CONSTANTS
    Secrets, Users, Groups,  \* the secrets (bound: those ever created), other users, groups
    SharedWith,   \* the secrets there are at first, each with its users and groups
    Joined,       \* the members of each group at first
    Slots,        \* bound: the handlers that run at once
    PageSize,     \* the rows of one page (vault.pageLimit)
    None,         \* no secret, nothing read yet
    MaxMoves      \* bound: clicks, changes elsewhere and lost requests together

ASSUME WebVaultAssumption ==
    /\ SharedWith \in [DOMAIN SharedWith -> [users : SUBSET Users, groups : SUBSET Groups]]
    /\ DOMAIN SharedWith \subseteq Secrets /\ None \notin Secrets
    /\ IsFiniteSet(Secrets) /\ IsFiniteSet(Slots)
    /\ Joined \in [Groups -> SUBSET Users]
    /\ PageSize \in Nat \ {0} /\ MaxMoves \in Nat

VARIABLES
    srv,      \* the server: version, keys, envelopes and shares of each secret
    list,     \* the server: the secrets there are, the last changed first
    members,  \* the server: the members of each group
    drawn,    \* the data keys drawn so far
    ui,       \* vault.secretsCache and the globals of the detail and access panels
    tasks,    \* the handlers that wait for an answer
    moves,
    calm      \* history: the last reset of the list ran alone and nothing changed since

store == <<srv, list, members, drawn>>
vars == <<srv, list, members, drawn, ui, tasks, moves, calm>>

Steps == {"open", "edit", "access", "put", "again", "share", "members", "rotate", "reget",
          "reset", "page", "batchedit", "prep", "post", "unshare", "kill", "delete",
          "create", "join", "leave", "next", "det", "free", "back"}
NoTask == [todo |-> <<>>, id |-> None, us |-> {}, gs |-> {}, direct |-> TRUE, ids |-> {},
           got |-> {}, acc |-> None, from |-> 0, want |-> 0, prev |-> <<>>, auto |-> FALSE]

\* What an answer carries of a secret: version, the key its envelope holds for
\* the user, and whose content the ciphertext is; None if the key does not open it.
Det(s) == [id |-> s, kv |-> srv[s].kv, key |-> srv[s].mine,
           of |-> IF srv[s].key = srv[s].mine THEN srv[s].of ELSE None]
NoDet == [id |-> None, kv |-> 0, key |-> 0, of |-> None]
There(s) == s \in ToSet(list)
Access(s) == [users |-> srv[s].users, groups |-> srv[s].groups]
Listed == [i \in DOMAIN list |-> Det(list[i])]
PageFrom(i) == SubSeq(Listed, i + 1, IF i + PageSize < Len(list) THEN i + PageSize ELSE Len(list))
MembersOf(gs) == UNION {members[g] : g \in gs}
Ids(rows) == {r.id : r \in ToSet(rows)}

Init ==
    /\ list = SetToSeq(DOMAIN SharedWith) /\ members = Joined /\ drawn = Len(list)
    /\ srv = [s \in Secrets |->
         LET was == There(s)
             k == IF was THEN CHOOSE i \in DOMAIN list : list[i] = s ELSE 0
             us == IF was THEN SharedWith[s].users ELSE {}
             gs == IF was THEN SharedWith[s].groups ELSE {}
         IN [kv |-> IF was THEN 1 ELSE 0, key |-> k, mine |-> k, of |-> s, cut |-> {},
             users |-> us, groups |-> gs,
             env |-> [u \in Users |-> IF u \in us \cup MembersOf(gs) THEN k ELSE 0]]]
    /\ ui = [rows |-> PageFrom(0), total |-> Len(list), cur |-> NoDet,
             body |-> None, form |-> None, access |-> None, panel |-> FALSE,
             editor |-> FALSE, preserve |-> FALSE, busy |-> FALSE]
    /\ tasks = [t \in Slots |-> NoTask] /\ moves = 0 /\ calm = TRUE

-----------------------------------------------------------------------------
(* The server, as far as these handlers see it (module SecretSharing has it  *)
(* in full).  A request it refuses leaves everything as it was.              *)
Touched(s) == <<s>> \o RemoveFirst(list, s)

Accepts(s, kv, to) == There(s) /\ kv = srv[s].kv /\ to \cap srv[s].cut = {}

Share(s, key, to, us, gs) ==
    /\ srv' = [srv EXCEPT ![s].users = @ \cup us, ![s].groups = @ \cup gs,
                 ![s].env = [u \in Users |-> IF u \in to THEN key ELSE @[u]]]
    /\ list' = IF srv[s].users \cup srv[s].groups = {} THEN Touched(s) ELSE list
    /\ UNCHANGED <<members, drawn>>

Rotate(s, kv, of, to, us, gs) ==
    /\ drawn' = drawn + 1
    /\ srv' = [srv EXCEPT ![s] = [srv[s] EXCEPT !.kv = kv, !.key = drawn', !.mine = drawn',
                 !.of = of, !.cut = {}, !.users = @ \ us, !.groups = @ \ gs,
                 !.env = [u \in Users |-> IF u \in to THEN drawn' ELSE 0]]]
    /\ list' = Touched(s) /\ UNCHANGED members

Put(s, key, of) ==
    /\ srv' = [srv EXCEPT ![s].key = key, ![s].of = of]
    /\ list' = Touched(s) /\ UNCHANGED <<members, drawn>>

Delete(s) == list' = RemoveFirst(list, s) /\ UNCHANGED <<srv, members, drawn>>

Create(s, us, gs) ==
    /\ drawn' = drawn + 1
    /\ srv' = [srv EXCEPT ![s] = [srv[s] EXCEPT !.kv = 1, !.key = drawn', !.mine = drawn',
                 !.users = us, !.groups = gs,
                 !.env = [u \in Users |-> IF u \in us \cup MembersOf(gs) THEN drawn' ELSE 0]]]
    /\ list' = <<s>> \o list /\ UNCHANGED members

\* Fault: a rotation counts the version up twice.
NewVersionTwice(kv) == kv + 2

NewVersion(kv) == kv + 1

Unused == {s \in Secrets : srv[s].kv = 0}
Move == moves < MaxMoves /\ moves' = moves + 1

\* Another browser of the user deletes, rotates or creates.
Elsewhere ==
    /\ Move /\ UNCHANGED <<ui, tasks>>
    /\ \/ \E s \in ToSet(list) :
            \/ Delete(s)
            \/ Rotate(s, NewVersion(srv[s].kv), srv[s].of, {u \in Users : srv[s].env[u] > 0}, {}, {})
       \/ \E s \in Unused : Create(s, {}, {})

-----------------------------------------------------------------------------
(* Running a handler.  Its finally blocks are steps of its own.              *)
At(t, step) == tasks[t].todo # <<>> /\ Head(tasks[t].todo) = step
Rest(k, todo) == IF todo = <<>> THEN NoTask ELSE [k EXCEPT !.todo = todo]
Goes(t, k) == tasks' = [tasks EXCEPT ![t] = Rest(k, Tail(k.todo))]
Stays(t, k) == tasks' = [tasks EXCEPT ![t] = k]

\* An exception: the error is shown and the finally blocks run.
Finally(todo) ==
    LET i == SelectInSeq(todo, LAMBDA x : x \in {"free", "back"})
    IN IF i = 0 THEN <<>> ELSE SubSeq(todo, i, Len(todo))
Fails(t) ==
    /\ tasks' = [tasks EXCEPT ![t] = Rest([@ EXCEPT !.got = {}], Finally(@.todo))]
    /\ UNCHANGED <<store, ui>>

\* A request is lost.  A batch notes the error of the one secret.
Lost(t) ==
    /\ Move /\ tasks[t].todo # <<>>
    /\ LET k == tasks[t]  step == Head(k.todo) IN
         \/ /\ step \notin {"batchedit", "post", "unshare", "kill"}
            /\ step \notin {"again", "reset", "next", "free", "back"} /\ Fails(t)
         \/ /\ step \in {"batchedit", "unshare", "kill"}
            /\ \E s \in k.ids : Stays(t, [k EXCEPT !.ids = @ \ {s}])
         \/ /\ step \in {"batchedit", "post", "unshare"}
            /\ \E d \in k.got : Stays(t, [k EXCEPT !.got = @ \ {d}])
    /\ UNCHANGED <<store, ui>>

\* The list is loaded anew, then the handler goes on.
Reload == <<"reset", "page">>
Start(t, k) ==
    /\ Move /\ tasks[t] = NoTask /\ t = CHOOSE x \in Slots : tasks[x] = NoTask
    /\ tasks' = [tasks EXCEPT ![t] = k] /\ UNCHANGED store
Task(todo) == [NoTask EXCEPT !.todo = todo]

-----------------------------------------------------------------------------
(* The list: refreshSecrets, sMore, ensureAllSecretsLoaded, autoRefresh.     *)
More(t) ==
    /\ Len(ui.rows) < ui.total /\ UNCHANGED ui
    /\ \E want \in {0, Cardinality(Secrets)} :
         Start(t, [Task(<<"page">>) EXCEPT !.from = Len(ui.rows), !.want = want])

Focus(t) ==
    /\ \A x \in Slots : ~tasks[x].auto
    /\ UNCHANGED ui /\ Start(t, [Task(Reload) EXCEPT !.auto = TRUE])

\* Fault: the rows loaded so far are kept.
ResetKeepingRows(t) ==
    /\ At(t, "reset") /\ UNCHANGED <<store, moves, ui>>
    /\ Goes(t, [tasks[t] EXCEPT !.from = 0,
         !.want = IF Len(ui.rows) > PageSize THEN Len(ui.rows) ELSE PageSize])

Reset(t) ==
    /\ At(t, "reset") /\ UNCHANGED <<store, moves>>
    /\ ui' = [ui EXCEPT !.rows = <<>>]
    /\ Goes(t, [tasks[t] EXCEPT !.from = 0,
         !.want = IF Len(ui.rows) > PageSize THEN Len(ui.rows) ELSE PageSize])

\* Fault: pages are fetched until there are exactly as many rows as wanted.
WantsAll(k, n, total) == k.want > 0 /\ n # total

WantsMore(k, n, total) == n < k.want /\ n < total

\* The rows of the page asked for are added to whatever is loaded by now.
Page(t) ==
    /\ At(t, "page") /\ UNCHANGED <<store, moves>>
    /\ ui' = [ui EXCEPT !.total = Len(list), !.rows = @ \o PageFrom(tasks[t].from)]
    /\ LET n == Len(ui'.rows) IN
         IF WantsMore(tasks[t], n, Len(list)) THEN Stays(t, [tasks[t] EXCEPT !.from = n])
                                              ELSE Goes(t, tasks[t])

-----------------------------------------------------------------------------
(* The detail panel.                                                         *)
OpenSecret(t) ==
    /\ \E s \in Ids(ui.rows) : Start(t, [Task(<<"open", "access">>) EXCEPT !.id = s])
    /\ ui' = [ui EXCEPT !.panel = TRUE, !.form = None]

\* The answer becomes the current secret, whichever panel is shown by now.
Open(t) ==
    /\ At(t, "open") /\ UNCHANGED moves
    /\ IF There(tasks[t].id)
         THEN LET d == Det(tasks[t].id) IN
              /\ UNCHANGED store
              /\ ui' = [ui EXCEPT !.cur = d, !.body = IF d.of = None THEN @ ELSE d.of]
              /\ IF d.of = None THEN tasks' = [tasks EXCEPT ![t] = NoTask] ELSE Goes(t, tasks[t])
         ELSE Fails(t)

\* renderAccessPanel: the chips shown, and vault.secretAccess for a later unshare.
RenderAccess(t) ==
    /\ At(t, "access") /\ UNCHANGED moves
    /\ IF There(tasks[t].id)
         THEN /\ ui' = [ui EXCEPT !.access = Access(tasks[t].id)]
              /\ Goes(t, tasks[t]) /\ UNCHANGED store
         ELSE Fails(t)

ClosePanel ==
    [ui EXCEPT !.panel = FALSE, !.form = None, !.cur = IF ui.editor THEN @ ELSE NoDet,
               !.body = IF ui.editor THEN @ ELSE None]
CloseSecret == Move /\ ui.panel /\ ui' = ClosePanel /\ UNCHANGED <<store, tasks>>

EditForm ==
    /\ Move /\ ui.panel /\ ui.body # None /\ ui.cur.id # None /\ UNCHANGED <<store, tasks>>
    /\ ui' = [ui EXCEPT !.form = IF @ = None THEN ui.body ELSE None]

\* dsave: key and version of the current secret now, its id after the encryption.
Save(t) ==
    /\ ui.form # None /\ ui.cur.id # None /\ UNCHANGED ui
    /\ Start(t, [Task(<<"put">> \o Reload \o <<"again", "open", "access">>) EXCEPT
         !.got = {[ui.cur EXCEPT !.of = ui.form]}])

PutForm(t) ==
    /\ At(t, "put") /\ UNCHANGED moves
    /\ \E d \in tasks[t].got : LET s == ui.cur.id IN
         IF s # None /\ Accepts(s, d.kv, {})
           THEN /\ Put(s, d.key, d.of) /\ ui' = [ui EXCEPT !.form = None]
                /\ Goes(t, [tasks[t] EXCEPT !.got = {}])
           ELSE tasks' = [tasks EXCEPT ![t] = NoTask] /\ UNCHANGED <<store, ui>>

OpenAgain(t) ==
    /\ At(t, "again") /\ UNCHANGED moves
    /\ IF ui.cur.id = None THEN Fails(t)
         ELSE /\ Goes(t, [tasks[t] EXCEPT !.id = ui.cur.id]) /\ UNCHANGED store
              /\ ui' = [ui EXCEPT !.panel = TRUE, !.form = None]

OpenShareEditor(t) ==
    /\ \E s \in Ids(ui.rows) :
         /\ Start(t, [Task(<<"edit", "access">>) EXCEPT !.id = s])
         /\ ui' = [ui EXCEPT !.preserve = ui.panel /\ ui.cur.id = s]

ShowEditor(t) ==
    /\ At(t, "edit") /\ UNCHANGED moves
    /\ IF There(tasks[t].id)
         THEN /\ ui' = [ui EXCEPT !.cur = Det(tasks[t].id), !.editor = TRUE]
              /\ Goes(t, tasks[t]) /\ UNCHANGED store
         ELSE Fails(t)

CloseShareEditor ==
    /\ Move /\ ui.editor /\ UNCHANGED <<store, tasks>>
    /\ LET keep == ui.panel \/ ui.preserve IN
         ui' = [ui EXCEPT !.editor = FALSE, !.preserve = FALSE, !.cur = IF keep THEN @ ELSE NoDet,
                          !.body = IF keep THEN @ ELSE None]

-----------------------------------------------------------------------------
(* The access panel: shareSecretWithUser, shareSecretWithGroup, unshareSecret. *)
After == <<"reget", "access">> \o Reload \o <<"free">>
Chips == ui.access # None /\ (ui.panel \/ ui.editor) /\ ui.cur.id # None /\ ~ui.busy

Targets == {[us |-> {u}, gs |-> {}] : u \in Users} \cup {[us |-> {}, gs |-> {g}] : g \in Groups}

ShareChip(t) ==
    /\ Chips /\ ui' = [ui EXCEPT !.busy = TRUE]
    /\ \E k \in Targets : Start(t, [Task(<<"share">> \o After) EXCEPT
         !.id = ui.cur.id, !.us = k.us, !.gs = k.gs])

\* Fault: the secret that was current at the click.
ClickedSecret(t) == tasks[t].id

\* The secret an access change is posted to is the one current now.
SecretNow(t) == ui.cur.id

\* The recipients' keys are there: seal the current secret's key and post.
PostShare(t) ==
    /\ At(t, "share") /\ UNCHANGED moves
    /\ LET k == tasks[t]  to == k.us \cup MembersOf(k.gs)  s == SecretNow(t) IN
         IF s # None /\ to # {} /\ Accepts(s, ui.cur.kv, to)
           THEN /\ Share(s, ui.cur.key, to, k.us, k.gs) /\ UNCHANGED ui
                /\ Goes(t, [k EXCEPT !.id = s])
           ELSE Fails(t)

UnshareChip(t) ==
    /\ Chips /\ ui' = [ui EXCEPT !.busy = TRUE]
    /\ \E k \in Targets :
         /\ k.us \subseteq ui.access.users /\ k.gs \subseteq ui.access.groups
         /\ Start(t, [Task(<<"members", "rotate">> \o After) EXCEPT
              !.us = k.us, !.gs = k.gs, !.acc = ui.access])

\* Who keeps an envelope is read off the access of whichever panel was drawn
\* last; what is rotated is the secret current after the members' keys came.
Members(t) ==
    /\ At(t, "members") /\ UNCHANGED moves
    /\ LET k == tasks[t]  s == ui.cur.id
           acc == IF k.acc # None THEN k.acc ELSE Access(s)
           keep == (IF k.direct THEN acc.users \ k.us ELSE acc.users)
                   \cup MembersOf(acc.groups \ k.gs)
       IN IF s # None /\ ui.cur.of # None /\ (k.acc # None \/ There(s))
            THEN /\ Goes(t, [k EXCEPT !.got = {[d |-> ui.cur, to |-> keep]}]) /\ UNCHANGED <<store, ui>>
            ELSE Fails(t)

PostRotate(t) ==
    /\ At(t, "rotate") /\ UNCHANGED moves
    /\ \E x \in tasks[t].got : LET k == tasks[t]  s == ui.cur.id IN
         IF s # None /\ There(s) /\ NewVersion(x.d.kv) > srv[s].kv
           THEN /\ Rotate(s, NewVersion(x.d.kv), x.d.of, x.to, IF k.direct THEN k.us ELSE {}, k.gs)
                /\ Goes(t, [k EXCEPT !.id = s, !.got = {}]) /\ UNCHANGED ui
           ELSE Fails(t)

\* afterShareMutation: the secret read again is made current.
Reget(t) ==
    /\ At(t, "reget") /\ UNCHANGED moves
    /\ IF There(tasks[t].id)
         THEN /\ ui' = [ui EXCEPT !.cur = Det(tasks[t].id)] /\ UNCHANGED store
              /\ LET todo == Tail(tasks[t].todo) IN
                   Stays(t, [tasks[t] EXCEPT !.todo =
                     IF ui.panel \/ ui.editor THEN todo ELSE Tail(todo)])
         ELSE Fails(t)

Free(t) ==
    /\ At(t, "free") /\ ui' = [ui EXCEPT !.busy = FALSE]
    /\ Goes(t, tasks[t]) /\ UNCHANGED <<store, moves>>

-----------------------------------------------------------------------------
(* Batches over the selected rows; at most BATCH_POOL_SIZE run at once, more *)
(* than there are secrets here, so in any order.                             *)
Batch(t, todo, k) == \E rows \in SUBSET ToSet(ui.rows) :
    /\ rows # {} /\ UNCHANGED ui
    /\ Start(t, [k EXCEPT !.todo = todo \o Reload, !.ids = {r.id : r \in rows},
         !.got = IF todo = <<"prep", "post">> THEN rows ELSE {}])

BatchEdit(t) == Batch(t, <<"batchedit">>, NoTask)
BatchDelete(t) == Batch(t, <<"kill">>, NoTask)
BatchShare(t) == \E k \in Targets :
    Batch(t, <<"prep", "post">>, [NoTask EXCEPT !.us = k.us, !.gs = k.gs])
\* direct is FALSE: only where the target has a share already.
BatchSetCap(t) == \E k \in Targets :
    Batch(t, <<"prep", "post">>, [NoTask EXCEPT !.us = k.us, !.gs = k.gs, !.direct = FALSE])
BatchUnshare(t) == \E k \in Targets :
    Batch(t, <<"unshare">>, [NoTask EXCEPT !.us = k.us, !.gs = k.gs])

EndBatch(t) ==
    /\ \E step \in {"batchedit", "post", "unshare"} : At(t, step)
    /\ tasks[t].ids = {} /\ tasks[t].got = {}
    /\ Goes(t, tasks[t]) /\ UNCHANGED <<store, ui, moves>>

\* updateSecretPayloadById: read, change the payload, write it back.
EditOne(t) ==
    /\ At(t, "batchedit") /\ UNCHANGED <<ui, moves>>
    /\ \/ \E s \in tasks[t].ids :
            /\ Stays(t, [tasks[t] EXCEPT !.ids = @ \ {s},
                 !.got = IF There(s) /\ Det(s).of # None THEN @ \cup {Det(s)} ELSE @])
            /\ UNCHANGED store
       \/ \E d \in tasks[t].got :
            /\ Stays(t, [tasks[t] EXCEPT !.got = @ \ {d}])
            /\ IF Accepts(d.id, d.kv, {}) THEN Put(d.id, d.key, d.of) ELSE UNCHANGED store

\* resolveBatchGroupRecipients: the members once, for all secrets.
Prepare(t) ==
    /\ At(t, "prep") /\ UNCHANGED moves
    /\ LET to == tasks[t].us \cup MembersOf(tasks[t].gs) IN
         IF to = {} THEN Fails(t)
           ELSE /\ Goes(t, [tasks[t] EXCEPT !.us = to, !.ids = {}]) /\ UNCHANGED <<store, ui>>

\* shareSecretByTarget with the envelope of the row, and sealGroupShareGaps.
ShareOne(t) ==
    /\ At(t, "post") /\ UNCHANGED <<ui, moves>>
    /\ \E d \in tasks[t].got : LET k == tasks[t] IN
         /\ Stays(t, [k EXCEPT !.got = @ \ {d}])
         /\ IF /\ Accepts(d.id, d.kv, k.us) /\ (k.gs = {} \/ k.us \subseteq MembersOf(k.gs))
               /\ k.direct \/ (k.gs \subseteq srv[d.id].groups
                                /\ (k.gs # {} \/ k.us \subseteq srv[d.id].users))
              THEN Share(d.id, d.key, k.us, IF k.gs = {} THEN k.us ELSE {}, k.gs)
              ELSE UNCHANGED store

\* unshareSecretByTarget keeps whoever has an envelope, the removed ones too.
UnshareOne(t) ==
    /\ At(t, "unshare") /\ UNCHANGED <<ui, moves>>
    /\ \/ \E s \in tasks[t].ids : LET k == tasks[t] IN
            /\ Stays(t, [k EXCEPT !.ids = @ \ {s}, !.got =
                 IF There(s) /\ Det(s).of # None
                    /\ k.us \subseteq srv[s].users /\ k.gs \subseteq srv[s].groups
                 THEN @ \cup {[d |-> Det(s), to |-> {u \in Users : srv[s].env[u] > 0}
                                 \cup (srv[s].users \ k.us) \cup MembersOf(srv[s].groups \ k.gs)]}
                 ELSE @])
            /\ UNCHANGED store
       \/ \E x \in tasks[t].got :
            /\ Stays(t, [tasks[t] EXCEPT !.got = @ \ {x}])
            /\ IF There(x.d.id) /\ NewVersion(x.d.kv) > srv[x.d.id].kv
                 THEN Rotate(x.d.id, NewVersion(x.d.kv), x.d.of, x.to, tasks[t].us, tasks[t].gs)
                 ELSE UNCHANGED store

DeleteOne(t) ==
    /\ At(t, "kill") /\ UNCHANGED <<ui, moves>>
    /\ \E s \in tasks[t].ids :
         IF There(s)
           THEN Delete(s) /\ Stays(t, [tasks[t] EXCEPT !.ids = @ \ {s}, !.got = @ \cup {s}])
           ELSE Stays(t, [tasks[t] EXCEPT !.ids = @ \ {s}]) /\ UNCHANGED store

EndDelete(t) ==
    /\ At(t, "kill") /\ tasks[t].ids = {} /\ UNCHANGED <<store, moves>>
    /\ Goes(t, [tasks[t] EXCEPT !.got = {}])
    /\ ui' = IF ui.cur.id \in tasks[t].got THEN ClosePanel ELSE ui

\* sdel closes whatever panel is open when the answer comes.
DeleteSecret(t) ==
    /\ ui.panel /\ ui.cur.id # None /\ UNCHANGED ui
    /\ Start(t, [Task(<<"delete">> \o Reload) EXCEPT !.id = ui.cur.id])

DeleteShown(t) ==
    /\ At(t, "delete") /\ UNCHANGED moves
    /\ IF There(tasks[t].id)
         THEN Delete(tasks[t].id) /\ ui' = ClosePanel /\ Goes(t, tasks[t])
         ELSE Fails(t)

CreateSecret(t) ==
    /\ UNCHANGED ui
    /\ \E k \in Targets \cup {NoTask} :
         Start(t, [Task(<<"create">> \o Reload) EXCEPT !.us = k.us, !.gs = k.gs])

PostCreate(t) ==
    /\ At(t, "create") /\ UNCHANGED <<ui, moves>>
    /\ \/ \E s \in Unused : Create(s, tasks[t].us, tasks[t].gs) /\ Goes(t, tasks[t])
       \/ Unused = {} /\ Fails(t)

-----------------------------------------------------------------------------
(* Group members, one change at a time (groupsDnDBusy).                      *)
MemberChange(t) ==
    /\ UNCHANGED ui
    /\ \A x \in Slots : ~\E step \in {"leave", "join", "next"} : step \in ToSet(tasks[x].todo)
    /\ \E g \in Groups, u \in Users : Start(t, [Task(
         IF u \in members[g] THEN <<"leave", "next">> ELSE <<"join", "post">>)
           EXCEPT !.us = {u}, !.gs = {g}, !.direct = FALSE])

\* groupsMemberAdd: what is shared with the group is sealed to the new member.
Join(t) ==
    /\ At(t, "join") /\ UNCHANGED <<ui, moves, srv, list, drawn>>
    /\ LET k == tasks[t] IN
         /\ members' = [g \in Groups |-> members[g] \cup IF g \in k.gs THEN k.us ELSE {}]
         /\ Goes(t, [k EXCEPT !.got = {Det(s) : s \in {x \in ToSet(list) :
              k.gs \subseteq srv[x].groups /\ \A u \in k.us : srv[x].env[u] = 0}}])

\* groupsMemberRemove: the envelopes are revoked where no direct share is left,
\* and the secrets this concerns are rotated one after the other.
Leave(t) ==
    /\ At(t, "leave") /\ UNCHANGED <<ui, moves, list, drawn>>
    /\ LET k == tasks[t]
           of == {s \in ToSet(list) : k.gs \subseteq srv[s].groups /\ k.us \cap srv[s].users = {}}
       IN /\ members' = [g \in Groups |-> members[g] \ IF g \in k.gs THEN k.us ELSE {}]
          /\ srv' = [s \in Secrets |-> IF s \notin of THEN srv[s] ELSE
               [srv[s] EXCEPT !.cut = @ \cup {u \in k.us : srv[s].env[u] > 0},
                  !.env = [u \in Users |-> IF u \in k.us THEN 0 ELSE @[u]]]]
          /\ Goes(t, [k EXCEPT !.ids = of, !.gs = {}])

NextRotation(t) ==
    /\ At(t, "next") /\ UNCHANGED <<store, ui, moves>>
    /\ LET k == tasks[t] IN IF k.ids = {} THEN Goes(t, k) ELSE
         \E s \in k.ids : Stays(t, [k EXCEPT !.id = s, !.ids = @ \ {s},
           !.prev = <<ui.cur, ui.busy>>,
           !.todo = <<"det", "members", "rotate">> \o After \o <<"back", "next">>])

\* rotateSecretExcludingUser: the secret is made current for unshareSecret,
\* and the busy flag of an access change that may be running is taken over.
BorrowCurrent(t) ==
    /\ At(t, "det") /\ UNCHANGED moves
    /\ IF There(tasks[t].id)
         THEN /\ ui' = [ui EXCEPT !.cur = Det(tasks[t].id), !.busy = TRUE]
              /\ Goes(t, [tasks[t] EXCEPT !.acc = ui.access]) /\ UNCHANGED store
         ELSE Fails(t)

GiveBack(t) ==
    /\ At(t, "back") /\ UNCHANGED <<store, moves>>
    /\ ui' = [ui EXCEPT !.cur = tasks[t].prev[1], !.busy = tasks[t].prev[2]]
    /\ Goes(t, [tasks[t] EXCEPT !.prev = <<>>])

-----------------------------------------------------------------------------
Click(t) ==
    \/ More(t) \/ Focus(t) \/ OpenSecret(t) \/ Save(t) \/ OpenShareEditor(t)
    \/ ShareChip(t) \/ UnshareChip(t) \/ BatchEdit(t) \/ BatchDelete(t) \/ BatchShare(t)
    \/ BatchSetCap(t) \/ BatchUnshare(t) \/ DeleteSecret(t) \/ CreateSecret(t)
    \/ MemberChange(t)

Step(t) ==
    \/ Reset(t) \/ Page(t) \/ Open(t) \/ RenderAccess(t) \/ PutForm(t) \/ OpenAgain(t)
    \/ ShowEditor(t) \/ PostShare(t) \/ Members(t) \/ PostRotate(t) \/ Reget(t) \/ Free(t)
    \/ EndBatch(t) \/ EditOne(t) \/ Prepare(t) \/ ShareOne(t) \/ UnshareOne(t)
    \/ DeleteOne(t) \/ EndDelete(t) \/ DeleteShown(t) \/ PostCreate(t)
    \/ Join(t) \/ Leave(t) \/ NextRotation(t) \/ BorrowCurrent(t) \/ GiveBack(t)

\* The history: a reset with no other load beside it makes the list true again.
Loads == {t \in Slots : At(t, "page")}
Watch ==
    calm' = /\ Cardinality(Loads') < 2
            /\ \/ \E t \in Slots : At(t, "reset") /\ t \in Loads'
               \/ calm /\ Listed' = Listed

Next ==
    /\ \/ Elsewhere \/ CloseSecret \/ EditForm \/ CloseShareEditor
       \/ \E t \in Slots : Click(t) \/ Step(t) \/ Lost(t)
    /\ Watch

Spec == Init /\ [][Next]_vars

Idle == \A t \in Slots : tasks[t] = NoTask

\* While requests are under way some answer comes; a finally block runs.
FairSpec == Spec /\ WF_vars((\E t \in Slots : Step(t)) /\ Watch)

-----------------------------------------------------------------------------
(* Properties.                                                               *)

\* The globals and the waiting handlers stay in their types; no secret has a
\* version the rotations so far do not account for.
TypeOK ==
    /\ \A s \in Secrets : LET x == srv[s] IN
         /\ {x.key, x.mine} \subseteq 0..drawn
         /\ x.kv \in 0..1 + drawn - Cardinality(DOMAIN SharedWith) /\ x.of \in Secrets /\ x.cut \subseteq Users
         /\ x.users \subseteq Users /\ x.groups \subseteq Groups /\ x.env \in [Users -> 0..drawn]
    /\ ToSet(list) \subseteq Secrets /\ Cardinality(ToSet(list)) = Len(list)
    /\ Ids(ui.rows) \subseteq Secrets /\ ui.total \in 0..Cardinality(Secrets)
    /\ {ui.cur.id, ui.body, ui.form} \subseteq Secrets \cup {None}
    /\ \A t \in Slots : ToSet(tasks[t].todo) \subseteq Steps

\* Whatever runs at once: every envelope of a secret holds the key the user's
\* own envelope holds, so no recipient is sealed the key of another secret or
\* of another version (the id and the envelope a share posts belong together).
EnvelopesAgree ==
    \A s \in Secrets, u \in Users : srv[s].env[u] \in {0, srv[s].mine}

\* A list that was reset alone and has not changed since holds each secret
\* once, in the server's order, none left out, and what is still to be loaded
\* is counted right (refreshSecrets adds pages to whatever is there).
QuietListIsTrue ==
    calm => /\ IsPrefix(ui.rows, Listed)
            /\ ui.rows # <<>> => ui.total = Len(list)

\* Every handler comes to its end, also the loads that wait for a number of
\* rows other clients take away (the loops of refreshSecrets and
\* ensureAllSecretsLoaded).
HandlersEnd == ~Idle ~> Idle

\* Claimed by docs/planning/crypto-design.md:109: a rotation leaves envelopes
\* of those who are still entitled only.
OnlyEntitledHold ==
    \A s \in ToSet(list), u \in Users :
        srv[s].env[u] > 0 => u \in srv[s].users \cup MembersOf(srv[s].groups)

\* Nothing the user does puts one secret's content into another.
ContentStays == \A s \in Secrets : srv[s].of = s

\* A key of another secret never makes a payload unreadable.
PayloadsOpen == \A s \in ToSet(list) : srv[s].key = srv[s].mine

\* An access change does not block the panel for good.
PanelComesBack == ui.busy ~> ~ui.busy
=============================================================================
