---------------------------- MODULE SessionStore ----------------------------
(***************************************************************************)
(* The cookie sessions of internal/auth/session/session.go: a map in       *)
(* memory behind a mutex, written to sessions.json after every change and  *)
(* read back when the server starts.                                       *)
(*                                                                         *)
(* A call changes the map, gives the lock up, and takes it again for the   *)
(* write: another call, or a crash, fits in between.  The write goes       *)
(* through a temporary file and a rename, all under the lock, so it is one *)
(* step that happens or does not; its errors are ignored.  Time is a       *)
(* counter of idle-timeout units.                                          *)
(***************************************************************************)
EXTENDS Integers, FiniteSets

CONSTANTS
  Ids,            \* session ids; each is drawn once (32 random bytes)
  Users, Tenants,
  TenantOf,       \* the tenant of each user
  Callers,        \* requests that can be inside the store at the same time
  Ttls, Idles,    \* lifetimes and idle timeouts a policy can set, 0 for none
  MaxTtl,         \* MaxRememberedTTL
  MaxTime,        \* bound on the clock
  WritesFail      \* writing sessions.json can fail

ASSUME TenantAssumption == TenantOf \in [Users -> Tenants]
ASSUME TimeAssumption ==
  /\ MaxTtl \in Nat /\ MaxTime \in Nat
  /\ Ttls \subseteq 1 .. MaxTtl /\ Idles \subseteq Nat
ASSUME WritesAssumption == WritesFail \in BOOLEAN

VARIABLES
  now, ttl, idle,
  mem,       \* Store.sessions
  file,      \* sessions.json
  call,      \* of each caller: what it has yet to write
  used,      \* when each session was last accepted (-1: id not drawn yet)
  answered,  \* sessions whose creation was answered and that nobody deleted
  gone       \* ids whose deletion was answered

vars == <<now, ttl, idle, mem, file, call, used, answered, gone>>

Session == [id : Ids, user : Users, remembered : BOOLEAN,
            expires : 0 .. MaxTime + MaxTtl, seen : 0 .. MaxTime]

Resting == [pc |-> "rest", new |-> {}, ids |-> {}]

TypeOK ==
  /\ now \in 0 .. MaxTime
  /\ ttl \in Ttls /\ idle \in Idles
  /\ mem \subseteq Session /\ file \subseteq Session
  /\ call \in [Callers -> [pc : {"rest", "persist"},
                           new : SUBSET Session, ids : SUBSET Ids]]
  /\ used \in [Ids -> -1 .. MaxTime]
  /\ answered \subseteq Session /\ gone \subseteq Ids

Init ==
  /\ now = 0 /\ ttl \in Ttls /\ idle \in Idles
  /\ mem = {} /\ file = {}
  /\ call = [c \in Callers |-> Resting]
  /\ used = [i \in Ids |-> -1]
  /\ answered = {} /\ gone = {}

Expired(s) == now > s.expires
IdleTooLong(s) == ~s.remembered /\ idle > 0 /\ now - s.seen > idle

\* Nobody is owed a session that is removed before its creation is answered.
Withdrawn(ids) ==
  [c \in Callers |-> [call[c] EXCEPT !.new = {s \in @ : s.id \notin ids}]]

\* The caller has changed the map and still has to write it.
ToPersist(c, new, ids) ==
  /\ call[c] = Resting
  /\ call' = [Withdrawn(ids) EXCEPT
               ![c] = [pc |-> "persist", new |-> new, ids |-> ids]]

-----------------------------------------------------------------------------

\* CreateWithTTLState: a remembered login asks for the longest lifetime.
Create(c, i, u, remembered) ==
  LET s == [id |-> i, user |-> u, remembered |-> remembered, seen |-> now,
            expires |-> now + (IF remembered THEN MaxTtl ELSE ttl)]
  IN  /\ used[i] = -1
      /\ ToPersist(c, {s}, {})
      /\ mem' = mem \cup {s}
      /\ used' = [used EXCEPT ![i] = now]
      /\ UNCHANGED <<now, ttl, idle, file, answered, gone>>

\* A fault: each use makes the session last longer.
TouchedExtending(s) == [s EXCEPT !.seen = now, !.expires = @ + ttl]

\* Get, when it accepts the session: LastSeenAt changes in memory only.
Touched(s) == [s EXCEPT !.seen = now]

GetAccepts(s) ==
  /\ ~Expired(s) /\ ~IdleTooLong(s)
  /\ mem' = (mem \ {s}) \cup {Touched(s)}
  /\ used' = [used EXCEPT ![s.id] = now]
  /\ UNCHANGED <<now, ttl, idle, file, call, answered, gone>>

\* Get, when the session has run out: it leaves the map, not the file.
GetRejects(s) ==
  /\ Expired(s) \/ IdleTooLong(s)
  /\ mem' = mem \ {s}
  /\ UNCHANGED <<now, ttl, idle, file, call, used, answered, gone>>

\* A fault: the deletion is answered before it is written.
RemoveUnwritten(c, ids) ==
  /\ call[c] = Resting
  /\ call' = Withdrawn(ids)
  /\ mem' = {s \in mem : s.id \notin ids}
  /\ answered' = {s \in answered : s.id \notin ids}
  /\ gone' = gone \cup ids
  /\ UNCHANGED <<now, ttl, idle, file, used>>

\* What Delete, DeleteByUser and DeleteByTenant have in common.
Remove(c, ids) ==
  /\ ToPersist(c, {}, ids)
  /\ mem' = {s \in mem : s.id \notin ids}
  /\ answered' = {s \in answered : s.id \notin ids}
  /\ UNCHANGED <<now, ttl, idle, file, used, gone>>

Delete(c, i) == used[i] # -1 /\ Remove(c, {i})

DeleteByUser(c, u) == Remove(c, {s.id : s \in {t \in mem : t.user = u}})

DeleteByTenant(c, ten) ==
  Remove(c, {s.id : s \in {t \in mem : TenantOf[t.user] = ten}})

Unexpired(S) == {s \in S : s.expires > now}

\* A fault: a creation leaves the write to the next deletion.
PersistDeletionsOnly(c) ==
  /\ call[c].pc = "persist"
  /\ mem' = Unexpired(mem)
  /\ file' = IF call[c].new = {} THEN Unexpired(mem) ELSE file
  /\ answered' = answered \cup call[c].new
  /\ gone' = gone \cup call[c].ids
  /\ call' = [call EXCEPT ![c] = Resting]
  /\ UNCHANGED <<now, ttl, idle, used>>

\* persist, after which the call returns.
Persist(c) ==
  /\ call[c].pc = "persist"
  /\ mem' = Unexpired(mem)
  /\ file' \in {Unexpired(mem)} \cup (IF WritesFail THEN {file} ELSE {})
  /\ answered' = answered \cup call[c].new
  /\ gone' = gone \cup call[c].ids
  /\ call' = [call EXCEPT ![c] = Resting]
  /\ UNCHANGED <<now, ttl, idle, used>>

\* SetTTL and SetIdle, called one after the other when a policy is saved.
SetPolicy(t, i) ==
  /\ ttl' = t /\ idle' = i
  /\ UNCHANGED <<now, mem, file, call, used, answered, gone>>

\* A fault: sessions that are read back count as just seen.
LoadedAsSeen == {Touched(s) : s \in Unexpired(file)}

\* What load puts into the map.
Loaded == Unexpired(file)

\* The process stops anywhere and starts again; New reads the policy back.
Restart ==
  /\ mem' = Loaded
  /\ call' = [c \in Callers |-> Resting]
  /\ UNCHANGED <<now, ttl, idle, file, used, answered, gone>>

Tick ==
  /\ now < MaxTime
  /\ now' = now + 1
  /\ UNCHANGED <<ttl, idle, mem, file, call, used, answered, gone>>

Next ==
  \/ \E c \in Callers, i \in Ids, u \in Users, r \in BOOLEAN : Create(c, i, u, r)
  \/ \E s \in mem : GetAccepts(s)
  \/ \E s \in mem : GetRejects(s)
  \/ \E c \in Callers, i \in Ids : Delete(c, i)
  \/ \E c \in Callers, u \in Users : DeleteByUser(c, u)
  \/ \E c \in Callers, ten \in Tenants : DeleteByTenant(c, ten)
  \/ \E c \in Callers : Persist(c)
  \/ \E t \in Ttls, i \in Idles : SetPolicy(t, i)
  \/ Restart
  \/ Tick

Spec == Init /\ [][Next]_vars

-----------------------------------------------------------------------------

\* A session whose logout or revocation was answered never comes back, not
\* even when the server crashes and reads its file (Delete, DeleteByUser,
\* DeleteByTenant and persist against load).
RevokedSessionsStayOut == \A s \in mem : s.id \notin gone

\* No session is accepted past its lifetime or after it rested longer than the
\* idle timeout in force, whatever was written, read back or changed meanwhile
\* (Get against load and SetIdle).
OnlyLiveSessionsAccepted ==
  [][\A i \in Ids :
       used[i] # -1 /\ used'[i] # used[i] =>
         \E s \in mem :
           /\ s.id = i /\ now <= s.expires
           /\ s.remembered \/ idle = 0 \/ now - used[i] <= idle]_vars

\* A remembered login that was answered lasts until it expires or somebody
\* ends it, through any number of restarts (CreateWithTTLState, persist, load).
RememberedLoginsSurvive ==
  \A s \in answered :
    s.remembered /\ now < s.expires => \E t \in mem : t.id = s.id
=============================================================================
