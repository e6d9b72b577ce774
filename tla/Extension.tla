---------------------------- MODULE Extension ----------------------------
(* The browser extension: its popup (clients/extension/popup.js) and the     *)
(* script it injects into the page (content.js).  Every handler of the popup *)
(* runs up to its next await in one step; between two steps the user clicks  *)
(* on, the tab navigates, the server's secrets change, the browser closes    *)
(* the popup.  The private key lives in the popup's memory only.             *)
EXTENDS Naturals, Sequences, FiniteSets, SequencesExt

CONSTANTS
    Secrets,        \* the secrets of the vault
    Origins,        \* the origins a tab can show and a payload can name
    UrlsOf,         \* the origins each payload names at first
    Users,          \* the accounts people sign in with from this browser
    SecondFactor,   \* the accounts with a second factor
    TwoTenants,     \* the accounts that must choose a tenant first
    PageSize,       \* the rows of one page of the list (200 in the code)
    None,           \* nobody, nothing
    MaxEvents       \* bound: changes of the vault, navigations, lost requests of a
                    \* refresh, changes of the server URL, locks, logouts, reopenings

ASSUME ExtensionAssumption ==
    /\ IsFiniteSet(Secrets)
    /\ SecondFactor \subseteq Users /\ TwoTenants \subseteq Users
    /\ UrlsOf \in [Secrets -> SUBSET Origins]
    /\ PageSize \in Nat \ {0} /\ MaxEvents \in Nat
    /\ None \notin Users \cup Secrets \cup Origins

VARIABLES
    vault,      \* the server: list (newest first), urls and readers of each secret
    session,    \* whose cookie the browser holds
    page,       \* the origin the active tab shows; None: the browser hides it
    pop,        \* the popup's state object and its visible sections
    job,        \* the refresh that runs (state.secretsRefreshPromise), or Idle
    unlocking,  \* whose private key doUnlock is deriving the key for
    task,       \* the Fill or Copy that waits for the payload or for the page
    events

vars == <<vault, session, page, pop, job, unlocking, task, events>>

Entry == [id : Secrets, title : BOOLEAN, origins : SUBSET Origins]
Idle == [at |-> "idle"]
Panes == {"login", "totp", "unlock", "vault"}
\* A started login waits for the tenant or the code, or is used up.
Token == [for : {"none", "tenant", "totp", "used"}, user : Users \cup {None}]
NoToken == [for |-> "none", user |-> None]
Used == [for |-> "used", user |-> None]

\* A freshly opened popup: boot asks /api/me and shows the unlock section
\* when the browser still holds a session.
Popup(u) == [panes |-> {IF u = None THEN "login" ELSE "unlock"}, home |-> TRUE,
             sk |-> None, cache |-> {}, tab |-> page,
             token |-> NoToken, leaving |-> FALSE, cool |-> FALSE]

Init ==
    /\ vault = [list |-> SetToSeq(Secrets), urls |-> UrlsOf,
                readers |-> [s \in Secrets |-> Users]]
    /\ page \in Origins /\ session = None /\ pop = Popup(None)
    /\ job = Idle /\ unlocking = None /\ task = Idle
    /\ events = 0

-----------------------------------------------------------------------------
(* The server, as the popup sees it.  A request goes to the server the popup *)
(* is set to; the account exists on one of them only.                        *)
Caller == IF pop.home THEN session ELSE None
\* The members of a sequence that are not in S, in their order.
Without(s, S) ==
    LET kept[n \in 0 .. Len(s)] ==
          IF n = 0 THEN <<>> ELSE IF s[n] \in S THEN kept[n - 1] ELSE Append(kept[n - 1], s[n])
    IN kept[Len(s)]
Listed(u) == Without(vault.list, {s \in Secrets : u \notin vault.readers[s]})
Readable(s) == s \in ToSet(vault.list) /\ Caller \in vault.readers[s]
\* The payload opens with the key of the caller the envelope was made for.
Opens(s) == Readable(s) /\ pop.sk = Caller

-----------------------------------------------------------------------------
(* Other clients and the tab.                                                *)
Disturb == events < MaxEvents /\ events' = events + 1

Edit ==
    /\ Disturb
    /\ \E s \in Secrets :
         \/ vault' = [vault EXCEPT !.list = <<s>> \o Without(@, {s})]
         \/ s \in ToSet(vault.list) /\ vault' = [vault EXCEPT !.list = Without(@, {s})]
         \/ \E o \in Origins : vault' = [vault EXCEPT !.urls[s] = {o},
              !.list = IF s \in ToSet(@) THEN <<s>> \o Without(@, {s}) ELSE @]
         \/ \E u \in Users : vault' = [vault EXCEPT !.readers[s] =
              IF u \in @ THEN @ \ {u} ELSE @ \cup {u}]
    /\ UNCHANGED <<session, page, pop, job, unlocking, task>>

Navigate ==
    /\ Disturb
    /\ page' \in (Origins \cup {None}) \ {page}
    /\ UNCHANGED <<vault, session, pop, job, unlocking, task>>

\* The browser closes the popup and the user opens it again: its memory and
\* its requests are gone, the cookie is not.
Reopen ==
    /\ Disturb
    /\ pop' = Popup(session) /\ job' = Idle /\ unlocking' = None /\ task' = Idle
    /\ UNCHANGED <<vault, session, page>>

-----------------------------------------------------------------------------
(* Sign-in.  The token of a started login stays in the button's dataset.     *)
SignedIn(u, from, token) ==
    /\ session' = u
    /\ pop' = [pop EXCEPT !.token = token, !.panes = (@ \ {from}) \cup {"unlock"}]

\* doLogin: the password, or the tenant chosen for the token of the first
\* answer.  The server refuses a token it no longer knows.
SignIn(u) ==
    /\ "login" \in pop.panes /\ pop.home
    /\ \/ /\ u \in TwoTenants /\ pop.token = NoToken
          /\ pop' = [pop EXCEPT !.token = [for |-> "tenant", user |-> u]] /\ UNCHANGED session
       \/ /\ pop.token = IF u \in TwoTenants THEN [for |-> "tenant", user |-> u] ELSE NoToken
          /\ IF u \in SecondFactor
               THEN /\ pop' = [pop EXCEPT !.token = [for |-> "totp", user |-> u],
                                          !.panes = (@ \ {"login"}) \cup {"totp"}]
                    /\ UNCHANGED session
               ELSE SignedIn(u, "login", IF pop.token = NoToken THEN NoToken ELSE Used)
    /\ UNCHANGED <<vault, page, job, unlocking, task, events>>

\* doTotp: a wrong code uses the token up and the section has no way back.
TotpStep(u) ==
    /\ "totp" \in pop.panes /\ pop.home /\ pop.token = [for |-> "totp", user |-> u]
    /\ \/ SignedIn(u, "totp", Used)
       \/ pop' = [pop EXCEPT !.token = Used] /\ UNCHANGED session
    /\ UNCHANGED <<vault, page, job, unlocking, task, events>>

\* saveBase: the popup talks to another server from now on; key and list stay.
SaveBase ==
    /\ Disturb
    /\ pop' = [pop EXCEPT !.home = ~@]
    /\ UNCHANGED <<vault, session, page, job, unlocking, task>>

-----------------------------------------------------------------------------
(* Unlocking, locking, logging out.                                          *)
BeginUnlock ==
    /\ "unlock" \in pop.panes /\ unlocking = None /\ Caller # None
    /\ unlocking' = Caller
    /\ UNCHANGED <<vault, session, page, pop, job, task, events>>

\* autoRefreshSecrets: one refresh at a time; a call while one runs joins it.
StartRefresh(p) ==
    /\ p.sk # None /\ "vault" \in p.panes
    /\ IF job = Idle
         THEN /\ job' = [at |-> "page", rows |-> <<>>, offset |-> 0]
              /\ pop' = [p EXCEPT !.cool = TRUE]
         ELSE job' = job /\ pop' = p

\* The rest of doUnlock: the key is there, the vault is shown, the list is
\* fetched.  Nobody asks whether the popup was locked or logged out meanwhile.
EndUnlock ==
    /\ unlocking # None /\ unlocking' = None
    /\ StartRefresh([pop EXCEPT !.sk = unlocking, !.panes = (@ \ {"unlock"}) \cup {"vault"}])
    /\ UNCHANGED <<vault, session, page, task, events>>

Wiped(panes) == [pop EXCEPT !.sk = None, !.cache = {}, !.panes = panes]

Lock ==
    /\ Disturb
    /\ "vault" \in pop.panes
    /\ pop' = Wiped((pop.panes \ {"vault"}) \cup {"unlock"})
    /\ UNCHANGED <<vault, session, page, job, unlocking, task>>

\* logout: the memory is wiped, the answer awaited, the sections changed; a
\* request that gets lost changes them as well.
Logout ==
    /\ Disturb
    /\ "unlock" \in pop.panes
    /\ pop' = [Wiped(pop.panes) EXCEPT !.leaving = TRUE]
    /\ session' \in IF pop.home THEN {None, session} ELSE {session}
    /\ UNCHANGED <<vault, page, job, unlocking, task>>

LoggedOut ==
    /\ pop.leaving
    /\ pop' = [pop EXCEPT !.leaving = FALSE,
                          !.panes = (@ \ {"unlock", "vault"}) \cup {"login"}]
    /\ UNCHANGED <<vault, session, page, job, unlocking, task, events>>

-----------------------------------------------------------------------------
(* The refresh of the list.                                                  *)
\* The user comes back to the popup (focus, visibilitychange).
Focus ==
    /\ job = Idle /\ ~pop.cool /\ StartRefresh(pop)
    /\ UNCHANGED <<vault, session, page, unlocking, task, events>>

\* SECRET_AUTO_REFRESH_COOLDOWN_MS have passed since the last attempt.
CoolDown ==
    /\ pop.cool /\ pop' = [pop EXCEPT !.cool = FALSE]
    /\ UNCHANGED <<vault, session, page, job, unlocking, task, events>>

\* Fault: an off-by-one, and the empty page is not looked at.
LastPageByCount(answer, rows, total) == Len(rows) > total
\* fetchAllSecrets stops at an empty page or when it has as many rows as the
\* server counts.
LastPage(answer, rows, total) == answer = <<>> \/ Len(rows) >= total

\* fetchAllSecrets: one page; offsets are counted in a list that may change.
FetchPage ==
    /\ job.at = "page" /\ Caller # None
    /\ LET all == Listed(Caller)
           answer == SubSeq(all, job.offset + 1,
                            IF job.offset + PageSize < Len(all) THEN job.offset + PageSize ELSE Len(all))
           rows == job.rows \o answer
       IN job' = IF LastPage(answer, rows, Len(all))
                   THEN [at |-> "title", rows |-> rows, cache |-> {}]
                   ELSE [at |-> "page", rows |-> rows, offset |-> job.offset + PageSize]
    /\ UNCHANGED <<vault, session, page, pop, unlocking, task, events>>

\* The title opens with the key the popup holds now.
OpenTitle ==
    /\ job.at = "title" /\ job.rows # <<>>
    /\ job' = [at |-> "payload", rows |-> job.rows, cache |-> job.cache,
               title |-> pop.sk # None /\ pop.sk = Caller]
    /\ UNCHANGED <<vault, session, page, pop, unlocking, task, events>>

\* The payload is fetched for its addresses; an entry whose payload does not
\* come or does not open stays in the list without any.
OpenPayload ==
    /\ job.at = "payload"
    /\ \E lost \in BOOLEAN :
         /\ IF lost THEN Disturb ELSE UNCHANGED events
         /\ LET s == Head(job.rows)
                origins == IF ~lost /\ Opens(s) THEN vault.urls[s] ELSE {}
            IN job' = [at |-> "title", rows |-> Tail(job.rows),
                       cache |-> job.cache \cup {[id |-> s, title |-> job.title, origins |-> origins]}]
    /\ UNCHANGED <<vault, session, page, pop, unlocking, task>>

\* refresh ends: the list is replaced, whoever holds the popup now.
EndRefresh ==
    /\ job.at = "title" /\ job.rows = <<>>
    /\ pop' = [pop EXCEPT !.cache = job.cache] /\ job' = Idle
    /\ UNCHANGED <<vault, session, page, unlocking, task, events>>

\* Fault: the promise is not cleared.
FailedKeepingPromise == pop' = [pop EXCEPT !.cool = FALSE] /\ job' = [job EXCEPT !.at = "stuck"]
\* A page that does not come: the attempt is forgotten, the next focus retries.
Failed == pop' = [pop EXCEPT !.cool = FALSE] /\ job' = Idle

FailRefresh ==
    /\ job.at = "page"
    /\ IF Caller = None THEN UNCHANGED events ELSE Disturb
    /\ Failed
    /\ UNCHANGED <<vault, session, page, unlocking, task>>

-----------------------------------------------------------------------------
(* Fill and Copy.                                                            *)
\* urlOriginsAllowed: an entry without addresses goes anywhere.
Allowed(e, o) == e.origins = {} \/ o \in e.origins

\* A Fill looks at the tab, a Copy at the origin the popup remembers.
Click(kind, e) ==
    /\ "vault" \in pop.panes /\ task = Idle
    /\ LET o == IF kind = "fill" THEN page ELSE pop.tab
       IN /\ pop' = [pop EXCEPT !.tab = o]
          /\ IF Allowed(e, o)
               THEN task' = [at |-> "payload", kind |-> kind, id |-> e.id, origins |-> e.origins, asked |-> o]
               ELSE task' = Idle
    /\ UNCHANGED <<vault, session, page, job, unlocking, events>>

\* decryptPayloadFor answers: Copy writes the clipboard, Fill asks for the tab
\* once more (fillTab) and sends the origin it expects along.
Payload ==
    /\ task.at = "payload"
    /\ LET urls == vault.urls[task.id]
           opened == pop.sk # None /\ Opens(task.id)
       IN task' = IF opened /\ task.kind = "fill" /\ task.asked \in {None, page}
                    THEN [at |-> "send", origins |-> task.origins, asked |-> task.asked,
                          origin |-> page, fits |-> urls = {} \/ task.asked \in urls]
                    ELSE Idle
    /\ UNCHANGED <<vault, session, page, pop, job, unlocking, events>>

\* Fault: the page trusts the popup's look at the tab.
TypesAnywhere(msg, here) == here # None
\* fillLogin in the page: it looks at its own origin before it types.
Types(msg, here) == here # None /\ msg.origin \in {None, here}

Fill ==
    /\ task.at = "send" /\ task' = Idle
    /\ UNCHANGED <<vault, session, page, pop, job, unlocking, events>>

-----------------------------------------------------------------------------
RefreshStep == FetchPage \/ OpenTitle \/ OpenPayload \/ EndRefresh \/ FailRefresh
User ==
    \/ \E u \in Users : SignIn(u) \/ TotpStep(u)
    \/ SaveBase \/ BeginUnlock \/ Lock \/ Logout \/ Reopen
    \/ \E kind \in {"fill", "copy"}, e \in pop.cache : Click(kind, e)
Next ==
    \/ User \/ Edit \/ Navigate \/ EndUnlock \/ LoggedOut
    \/ RefreshStep \/ Focus \/ CoolDown \/ Payload \/ Fill

\* Answers arrive (or fail), the clock runs, the user keeps coming back to the
\* popup.  Nothing is assumed of the clicks, the tab and the other clients.
Fairness == WF_vars(RefreshStep) /\ WF_vars(CoolDown) /\ WF_vars(Focus)
Spec == Init /\ [][Next]_vars
FairSpec == Spec /\ Fairness

-----------------------------------------------------------------------------
\* The types: among them that the paging stops, because the offset of a
\* refresh never runs past the list by more than a page.
TypeOK ==
    /\ vault.list \in Seq(Secrets) /\ IsInjective(vault.list)
    /\ session \in Users \cup {None} /\ page \in Origins \cup {None}
    /\ pop.panes \in SUBSET Panes /\ pop.cache \in SUBSET Entry
    /\ pop.sk \in Users \cup {None} /\ pop.token \in Token
    /\ job.at = "page" => job.offset <= Cardinality(Secrets) + PageSize
    /\ job.at \in {"title", "payload"} => job.cache \subseteq Entry
    /\ events \in 0..MaxEvents

\* What the page would type now, it types into the origin that was active
\* when the user clicked (unless the browser hid that one), and that origin
\* is one of those the entry was listed with (popup.js fillTab, content.js
\* fillLogin).
FilledWhereAllowed ==
    task.at = "send" /\ Types(task, page) =>
        /\ task.asked \in {None, page}
        /\ Allowed(task, task.asked)

\* The list the popup should show to u.
Current(u) == pop.cache = {[id |-> s, title |-> TRUE, origins |-> vault.urls[s]] : s \in ToSet(Listed(u))}

\* While the popup stays unlocked the list catches up with the vault, over
\* lost requests, refreshes left over from an earlier unlock, and changes of
\* the vault while it is paged (popup.js autoRefreshSecrets).
ListCatchesUp == []((<>[](\E u \in Users : "vault" \in pop.panes /\ pop.sk = u /\ Caller = u))
                      => []<>(\E u \in Users : Current(u)))

\* docs/extension-store/chrome-store.md:55: lock and logout wipe key material
\* and cached vault data from memory.  (A refresh that runs on fills the list.)
LockedListIsEmpty == pop.sk = None => pop.cache = {}

\* docs/extension-guide.md:97: a secret with an address is filled for exactly
\* that origin only.  (The listed addresses may be older than the payload.)
FilledForItsUrls == task.at = "send" /\ Types(task, page) => task.fits
==========================================================================
