------------------------ MODULE SessionStore_proofs ------------------------
(***************************************************************************)
(* Proofs about SessionStore for any ids, users, callers and policies: the *)
(* type invariant, that an answered revocation lasts, that nothing but a   *)
(* live session is accepted, and that a remembered login survives crashes. *)
(***************************************************************************)
EXTENDS SessionStore, TLAPS

-----------------------------------------------------------------------------
(* Types.                                                                  *)

\* TypeOK holds initially.
LEMMA TypeInit == Init => TypeOK
BY TimeAssumption DEF Init, TypeOK, Resting

\* Every step of the store keeps the types.
LEMMA TypeStep == TypeOK /\ [Next]_vars => TypeOK'
<1> SUFFICES ASSUME TypeOK, [Next]_vars PROVE TypeOK'
  OBVIOUS
<1> USE TimeAssumption DEF TypeOK
<1>1. ASSUME NEW c \in Callers, NEW i \in Ids, NEW u \in Users,
             NEW r \in BOOLEAN, Create(c, i, u, r)
      PROVE  TypeOK'
  <2> DEFINE s == [id |-> i, user |-> u, remembered |-> r, seen |-> now,
                   expires |-> now + (IF r THEN MaxTtl ELSE ttl)]
  <2>1. s \in Session
    BY DEF Session
  <2>2. Withdrawn({}) \in [Callers -> [pc : {"rest", "persist"},
                             new : SUBSET Session, ids : SUBSET Ids]]
    BY DEF Withdrawn
  <2>3. call' \in [Callers -> [pc : {"rest", "persist"},
                             new : SUBSET Session, ids : SUBSET Ids]]
    BY <1>1, <2>1, <2>2 DEF Create, ToPersist
  <2> QED
    BY <1>1, <2>1, <2>3 DEF Create
<1>2. ASSUME NEW s \in mem, GetAccepts(s) PROVE TypeOK'
  <2>1. Touched(s) \in Session
    BY DEF Touched, Session
  <2>2. s.id \in Ids
    BY DEF Session
  <2> QED
    BY <1>2, <2>1, <2>2 DEF GetAccepts
<1>3. ASSUME NEW s \in mem, GetRejects(s) PROVE TypeOK'
  BY <1>3 DEF GetRejects
<1>4. ASSUME NEW c \in Callers, NEW ids \in SUBSET Ids, Remove(c, ids)
      PROVE  TypeOK'
  <2>1. Withdrawn(ids) \in [Callers -> [pc : {"rest", "persist"},
                             new : SUBSET Session, ids : SUBSET Ids]]
    BY DEF Withdrawn
  <2>2. call' \in [Callers -> [pc : {"rest", "persist"},
                             new : SUBSET Session, ids : SUBSET Ids]]
    BY <1>4, <2>1 DEF Remove, ToPersist
  <2> QED
    BY <1>4, <2>2 DEF Remove
<1>5. \A S \in SUBSET mem : {s.id : s \in S} \in SUBSET Ids
  BY DEF Session
<1>6. ASSUME NEW c \in Callers, Persist(c) PROVE TypeOK'
  BY <1>6 DEF Persist, Unexpired, Resting
<1>7. ASSUME Restart PROVE TypeOK'
  BY <1>7 DEF Restart, Loaded, Unexpired, Resting
<1>8. ASSUME NEW t \in Ttls, NEW i \in Idles, SetPolicy(t, i) PROVE TypeOK'
  BY <1>8 DEF SetPolicy
<1>9. ASSUME Tick PROVE TypeOK'
  BY <1>9 DEF Tick
<1>10. CASE UNCHANGED vars
  BY <1>10 DEF vars
<1>11. ASSUME NEW c \in Callers, NEW i \in Ids, Delete(c, i) PROVE TypeOK'
  BY <1>4, <1>11 DEF Delete
<1>12. ASSUME NEW c \in Callers, NEW u \in Users, DeleteByUser(c, u)
       PROVE  TypeOK'
  BY ONLY <1>4, <1>5, <1>12 DEF DeleteByUser
<1>13. ASSUME NEW c \in Callers, NEW ten \in Tenants, DeleteByTenant(c, ten)
       PROVE  TypeOK'
  BY ONLY <1>4, <1>5, <1>13 DEF DeleteByTenant
<1> HIDE DEF TypeOK
<1> QED
  BY <1>1, <1>2, <1>3, <1>6, <1>7, <1>8, <1>9, <1>10, <1>11, <1>12, <1>13
     DEF Next

\* Every variable keeps to its type, whatever the ids, users, callers and
\* policies, and however often the server crashes.
THEOREM SessionTypes == Spec => []TypeOK
BY TypeInit, TypeStep, PTL DEF Spec

-----------------------------------------------------------------------------
(* What the map and the file remember.                                     *)

\* Sessions have drawn ids, and neither the map nor the file remembers a use
\* later than the last one, which is not in the future.
Remembered(S) == \A s \in S : used[s.id] # -1 /\ s.seen <= used[s.id]

Memories ==
  /\ Remembered(mem) /\ Remembered(file)
  /\ \A i \in Ids : used[i] <= now

\* Memories holds initially.
LEMMA MemoriesInit == Init => Memories
BY DEF Init, Memories, Remembered

\* Every step keeps Memories.
LEMMA MemoriesStep == TypeOK /\ Memories /\ [Next]_vars => Memories'
<1> SUFFICES ASSUME TypeOK, Memories, [Next]_vars PROVE Memories'
  OBVIOUS
<1> USE DEF Memories, Remembered
<1>0. \A s \in mem \cup file : s \in Session /\ s.id \in Ids
  BY DEF TypeOK, Session
<1>1. ASSUME NEW c \in Callers, NEW i \in Ids, NEW u \in Users,
             NEW r \in BOOLEAN, Create(c, i, u, r)
      PROVE  Memories'
  <2>1. now \in Nat /\ used \in [Ids -> -1 .. MaxTime]
    BY TimeAssumption DEF TypeOK
  <2>2. \A s \in mem \cup file : s.id # i
    BY <1>1 DEF Create
  <2> QED
    BY <1>0, <1>1, <2>1, <2>2 DEF Create
<1>2. ASSUME NEW s \in mem, GetAccepts(s) PROVE Memories'
  <2>1. now \in Nat /\ now <= MaxTime /\ used \in [Ids -> -1 .. MaxTime]
    BY TimeAssumption DEF TypeOK
  <2>2. \A t \in mem \cup file : t.seen \in Nat /\ t.seen <= MaxTime
    BY <1>0, TimeAssumption DEF Session
  <2>3. Touched(s).id = s.id /\ Touched(s).seen = now
    BY <1>0 DEF Touched, Session
  <2>4. \A i \in Ids : /\ used'[i] \in -1 .. MaxTime
                       /\ used[i] <= used'[i] /\ used'[i] <= now
    BY <1>0, <1>2, <2>1, TimeAssumption DEF GetAccepts
  <2>5. \A t \in mem \cup file : used'[t.id] # -1 /\ t.seen <= used'[t.id]
    <3> SUFFICES ASSUME NEW t \in mem \cup file
                 PROVE  used'[t.id] # -1 /\ t.seen <= used'[t.id]
      OBVIOUS
    <3>1. t.seen <= used[t.id] /\ t.seen \in Nat /\ t.id \in Ids
      BY <1>0, <2>2
    <3>2. used[t.id] \in -1 .. MaxTime
      BY <3>1, <2>1
    <3> QED
      BY <2>4, <3>1, <3>2, TimeAssumption
  <2>6. used'[s.id] = now
    BY <1>0, <1>2, <2>1 DEF GetAccepts
  <2>7. mem' = (mem \ {s}) \cup {Touched(s)} /\ file' = file /\ now' = now
    BY <1>2 DEF GetAccepts
  <2>8. Remembered(mem)'
    BY <2>1, <2>3, <2>5, <2>6, <2>7
  <2>9. Remembered(file)'
    BY <2>5, <2>7
  <2> QED
    BY <2>4, <2>7, <2>8, <2>9
<1>3. CASE mem' \subseteq mem \cup file /\ file' \subseteq mem \cup file
           /\ used' = used /\ now' = now
  BY <1>3
<1>4. ASSUME NEW c \in Callers, Persist(c) PROVE Memories'
  BY <1>3, <1>4 DEF Persist, Unexpired
<1>5. ASSUME Restart PROVE Memories'
  BY <1>3, <1>5 DEF Restart, Loaded, Unexpired
<1>6. ASSUME Tick PROVE Memories'
  BY <1>6 DEF Tick, TypeOK
<1> QED
  BY <1>1, <1>2, <1>3, <1>4, <1>5, <1>6
     DEF Next, GetRejects, Remove, Delete, DeleteByUser, DeleteByTenant,
         SetPolicy, vars

\* SetIdle and load never make an accepted session out of one that ran out:
\* for every policy and every clock, a session is accepted only within its
\* lifetime and its idle timeout.
THEOREM OnlyLiveAccepted == Spec => OnlyLiveSessionsAccepted
<1> DEFINE Live(i) ==
      \E s \in mem :
        /\ s.id = i /\ now <= s.expires
        /\ s.remembered \/ idle = 0 \/ now - used[i] <= idle
<1>1. ASSUME TypeOK, Memories, [Next]_vars, NEW i \in Ids,
             used[i] # -1, used'[i] # used[i]
      PROVE  Live(i)
  <2>1. \A c \in Callers, j \in Ids, u \in Users, r \in BOOLEAN :
          ~Create(c, j, u, r)
    BY <1>1 DEF Create, TypeOK
  <2>2. PICK s \in mem : GetAccepts(s)
    BY <1>1, <2>1 DEF Next, GetRejects, Remove, Delete, DeleteByUser,
                      DeleteByTenant, Persist, SetPolicy, Restart, Tick, vars
  <2>3. s.id = i
    BY <1>1, <2>2 DEF GetAccepts, TypeOK
  <2>4. s.expires \in Nat /\ s.seen \in Nat /\ s.remembered \in BOOLEAN
    BY <1>1, TimeAssumption DEF TypeOK, Session
  <2>5. now \in Nat /\ idle \in Nat /\ used[i] \in Int
    BY <1>1, TimeAssumption DEF TypeOK
  <2>6. s.seen <= used[i]
    BY <1>1, <2>3 DEF Memories, Remembered
  <2>7. now <= s.expires
    BY <2>2, <2>4, <2>5 DEF GetAccepts, Expired
  <2>8. s.remembered \/ idle = 0 \/ now - used[i] <= idle
    BY <2>2, <2>4, <2>5, <2>6 DEF GetAccepts, IdleTooLong
  <2> QED
    BY <2>3, <2>7, <2>8
<1>2. TypeOK /\ Memories /\ [Next]_vars
        => [\A i \in Ids : used[i] # -1 /\ used'[i] # used[i] => Live(i)]_vars
  BY <1>1
<1> QED
  BY <1>2, SessionTypes, MemoriesInit, MemoriesStep, PTL
     DEF Spec, OnlyLiveSessionsAccepted

-----------------------------------------------------------------------------
(* Revocation.                                                             *)

\* Ids whose deletion was answered, or is only to be written, are out of the
\* map; the answered ones are out of the file too, and no id is drawn twice.
Revoked ==
  /\ \A s \in mem \cup file : s.id \notin gone /\ used[s.id] # -1
  /\ \A i \in gone : used[i] # -1
  /\ \A c \in Callers : /\ call[c].ids \cap {s.id : s \in mem} = {}
                        /\ \A i \in call[c].ids : used[i] # -1

\* Revoked holds initially.
LEMMA RevokedInit == Init => Revoked
BY DEF Init, Revoked, Resting

\* While no write fails, every step keeps Revoked.
LEMMA RevokedStep ==
  ASSUME ~WritesFail, TypeOK, Revoked, [Next]_vars
  PROVE  Revoked'
<1> USE DEF Revoked
<1>0. \A s \in mem \cup file : s.id \in Ids
  BY DEF TypeOK, Session
<1>1. ASSUME NEW c \in Callers, NEW i \in Ids, NEW u \in Users,
             NEW r \in BOOLEAN, Create(c, i, u, r)
      PROVE  Revoked'
  <2>1. \A d \in Callers : call'[d].ids \subseteq call[d].ids
    BY <1>1 DEF Create, ToPersist, Withdrawn, TypeOK
  <2>2. \A j \in Ids : used'[j] = -1 => used[j] = -1
    BY <1>1, TimeAssumption DEF Create, TypeOK
  <2>3. i \notin gone /\ \A d \in Callers : i \notin call[d].ids
    BY <1>1 DEF Create
  <2>4. \A s \in mem' : s \in mem \/ s.id = i
    BY <1>1 DEF Create
  <2>5. used'[i] # -1
    BY <1>1, TimeAssumption DEF Create, TypeOK
  <2> QED
    BY <1>0, <1>1, <2>1, <2>2, <2>3, <2>4, <2>5 DEF Create, TypeOK
<1>2. ASSUME NEW s \in mem, GetAccepts(s) PROVE Revoked'
  <2>1. \A t \in mem' : \E q \in mem : q.id = t.id
    BY <1>2 DEF GetAccepts, Touched, TypeOK, Session
  <2>2. \A j \in Ids : used[j] # -1 => used'[j] # -1
    BY <1>2, TimeAssumption DEF GetAccepts, TypeOK
  <2> QED
    BY <1>0, <1>2, <2>1, <2>2 DEF GetAccepts, TypeOK
<1>3. ASSUME NEW c \in Callers, NEW ids \in SUBSET Ids, Remove(c, ids),
             \A i \in ids : used[i] # -1
      PROVE  Revoked'
  <2>1. \A d \in Callers : call'[d].ids \subseteq call[d].ids \cup ids
    BY <1>3 DEF Remove, ToPersist, Withdrawn, TypeOK
  <2>2. \A d \in Callers \ {c} : call'[d].ids = call[d].ids
    BY <1>3 DEF Remove, ToPersist, Withdrawn, TypeOK
  <2> QED
    BY <1>3, <2>1, <2>2 DEF Remove
<1>4. ASSUME NEW c \in Callers, Persist(c) PROVE Revoked'
  <2>1. \A d \in Callers : call'[d].ids \subseteq call[d].ids
    BY <1>4 DEF Persist, Resting, TypeOK
  <2>2. file' = mem' /\ mem' \subseteq mem
    BY <1>4 DEF Persist, Unexpired
  <2> QED
    BY <1>4, <2>1, <2>2 DEF Persist
<1>5. ASSUME Restart PROVE Revoked'
  BY <1>5 DEF Restart, Loaded, Unexpired, Resting
<1>6. ASSUME NEW s \in mem, GetRejects(s) PROVE Revoked'
  BY <1>6 DEF GetRejects
<1>7. CASE UNCHANGED <<mem, file, call, used, gone>>
  BY <1>7
<1>8. ASSUME NEW c \in Callers, NEW i \in Ids, Delete(c, i) PROVE Revoked'
  BY <1>3, <1>8 DEF Delete
<1>9. ASSUME NEW c \in Callers, NEW u \in Users, DeleteByUser(c, u)
      PROVE  Revoked'
  <2>1. {s.id : s \in {t \in mem : t.user = u}} \in SUBSET Ids
    BY <1>0
  <2>2. \A i \in {s.id : s \in {t \in mem : t.user = u}} : used[i] # -1
    OBVIOUS
  <2> QED
    BY ONLY <1>3, <1>9, <2>1, <2>2 DEF DeleteByUser
<1>10. ASSUME NEW c \in Callers, NEW ten \in Tenants, DeleteByTenant(c, ten)
       PROVE  Revoked'
  <2>1. {s.id : s \in {t \in mem : TenantOf[t.user] = ten}} \in SUBSET Ids
    BY <1>0
  <2>2. \A i \in {s.id : s \in {t \in mem : TenantOf[t.user] = ten}} :
          used[i] # -1
    OBVIOUS
  <2> QED
    BY ONLY <1>3, <1>10, <2>1, <2>2 DEF DeleteByTenant
<1> HIDE DEF Revoked
<1> QED
  BY <1>1, <1>2, <1>4, <1>5, <1>6, <1>7, <1>8, <1>9, <1>10
     DEF Next, SetPolicy, Tick, vars

\* While sessions.json can be written, a session whose deletion was answered
\* is never in the map again: not for a concurrent creation or write, not for
\* a crash between them.
THEOREM RevocationLasts ==
  ASSUME ~WritesFail PROVE Spec => []RevokedSessionsStayOut
<1>1. TypeOK /\ Revoked /\ [Next]_vars => Revoked'
  BY RevokedStep
<1>2. Revoked => RevokedSessionsStayOut
  BY DEF Revoked, RevokedSessionsStayOut
<1> QED
  BY <1>1, <1>2, RevokedInit, SessionTypes, PTL DEF Spec
-----------------------------------------------------------------------------
(* Remembered logins.                                                      *)

\* The same session, whenever it was last seen.
Twin(s, t) == t.id = s.id /\ t.remembered = s.remembered /\ t.expires = s.expires

Lasting(S) == {s \in S : s.remembered /\ now < s.expires}

Has(S, s) == \E t \in S : Twin(s, t)

\* An answered remembered login is in the map and in the file; one whose answer
\* is still to come is in the map, so that the write that precedes the answer
\* takes it along.
Kept ==
  /\ \A s \in Lasting(answered) : Has(mem, s) /\ Has(file, s)
  /\ \A c \in Callers : \A s \in Lasting(call[c].new) : Has(mem, s)

\* Kept holds initially.
LEMMA KeptInit == Init => Kept
BY DEF Init, Kept, Lasting, Resting

\* While no write fails, every step keeps Kept.
LEMMA KeptStep ==
  ASSUME ~WritesFail, TypeOK, Kept, [Next]_vars
  PROVE  Kept'
<1>0. /\ mem \subseteq Session /\ file \subseteq Session /\ answered \subseteq Session
      /\ \A c \in Callers : call[c].new \subseteq Session
      /\ now \in Nat
  BY TimeAssumption DEF TypeOK
<1>t. \A s \in Session : s.expires \in Nat /\ s.remembered \in BOOLEAN /\ s.id \in Ids
  BY TimeAssumption DEF Session
<1>1. ASSUME NEW c \in Callers, NEW i \in Ids, NEW u \in Users,
             NEW r \in BOOLEAN, Create(c, i, u, r)
      PROVE  Kept'
  <2>1. mem \subseteq mem' /\ file' = file /\ answered' = answered /\ now' = now
    BY <1>1 DEF Create
  <2>2. \A d \in Callers : \A s \in call'[d].new : s \in call[d].new \/ s \in mem'
    BY <1>1 DEF Create, ToPersist, Withdrawn, TypeOK
  <2> QED
    BY <2>1, <2>2 DEF Kept, Lasting, Has, Twin
<1>2. ASSUME NEW s \in mem, GetAccepts(s) PROVE Kept'
  <2>1. Twin(s, Touched(s))
    BY <1>0 DEF Twin, Touched, Session
  <2>2. \A t \in mem : \E q \in mem' : Twin(t, q)
    BY <1>2, <2>1 DEF GetAccepts, Twin
  <2> QED
    BY <1>2, <2>2 DEF GetAccepts, Kept, Lasting, Has, Twin
<1>3. ASSUME NEW s \in mem, GetRejects(s) PROVE Kept'
  <2>1. s \notin Lasting(mem)
    BY <1>0, <1>t, <1>3 DEF GetRejects, Expired, IdleTooLong, Lasting
  <2>2. Lasting(mem) \subseteq mem'
    BY <1>3, <2>1 DEF GetRejects, Lasting
  <2> QED
    BY <1>3, <2>2 DEF GetRejects, Kept, Lasting, Has, Twin
<1>4. ASSUME NEW c \in Callers, NEW ids, Remove(c, ids) PROVE Kept'
  <2>1. /\ mem' = {s \in mem : s.id \notin ids} /\ file' = file /\ now' = now
        /\ answered' = {s \in answered : s.id \notin ids}
    BY <1>4 DEF Remove
  <2>2. \A d \in Callers : \A s \in call'[d].new : s \in call[d].new /\ s.id \notin ids
    BY <1>4 DEF Remove, ToPersist, Withdrawn, TypeOK
  <2> QED
    BY <2>1, <2>2 DEF Kept, Lasting, Has, Twin
<1>5. ASSUME NEW c \in Callers, Persist(c) PROVE Kept'
  <2>1. /\ mem' = Unexpired(mem) /\ file' = mem' /\ now' = now
        /\ answered' = answered \cup call[c].new
    BY <1>5 DEF Persist
  <2>2. \A d \in Callers : call'[d].new \subseteq call[d].new
    BY <1>5 DEF Persist, Resting, TypeOK
  <2>3. \A s \in Session, t \in mem : s \in Lasting({s}) /\ Twin(s, t) => t \in mem'
    BY <1>0, <1>t, <2>1 DEF Unexpired, Lasting, Twin
  <2>4. \A s \in Lasting(answered) \cup Lasting(call[c].new) : Has(mem, s) /\ s \in Session /\ s \in Lasting({s})
    BY <1>0 DEF Kept, Lasting
  <2>5. \A d \in Callers : \A s \in Lasting(call[d].new) : Has(mem, s) /\ s \in Session /\ s \in Lasting({s})
    BY <1>0 DEF Kept, Lasting
  <2>6. \A s \in Lasting(answered \cup call[c].new) : Has(mem', s)
    BY <2>3, <2>4 DEF Has, Lasting
  <2>7. \A d \in Callers : \A s \in Lasting(call'[d].new) : Has(mem', s)
    BY <2>2, <2>3, <2>5 DEF Has, Lasting
  <2> QED
    BY <2>1, <2>6, <2>7 DEF Kept, Lasting, Has
<1>6. ASSUME Restart PROVE Kept'
  <2>1. \A s \in Lasting(answered), t \in file : Twin(s, t) => t \in mem'
    BY <1>0, <1>t, <1>6 DEF Restart, Loaded, Unexpired, Lasting, Twin
  <2>2. \A c \in Callers : call'[c].new = {}
    BY <1>6 DEF Restart, Resting
  <2> QED
    BY <1>6, <2>1, <2>2 DEF Restart, Kept, Has, Lasting
<1>7. ASSUME Tick PROVE Kept'
  <2>1. \A s \in Session : now' < s.expires => now < s.expires
    BY <1>0, <1>t, <1>7 DEF Tick
  <2> QED
    BY <1>0, <1>7, <2>1 DEF Tick, Kept, Lasting, Has
<1>8. CASE UNCHANGED <<now, mem, file, call, answered>>
  BY <1>8 DEF Kept, Lasting, Has, Twin
<1> QED
  BY <1>1, <1>2, <1>3, <1>4, <1>5, <1>6, <1>7, <1>8
     DEF Next, Delete, DeleteByUser, DeleteByTenant, SetPolicy, vars

\* While sessions.json can be written, a remembered login that was answered is
\* in the map until it expires or is ended, whatever crashes, other callers'
\* writes and expiries come in between.
THEOREM RememberedLast ==
  ASSUME ~WritesFail PROVE Spec => []RememberedLoginsSurvive
<1>1. TypeOK /\ Kept /\ [Next]_vars => Kept'
  BY KeptStep
<1>2. Kept => RememberedLoginsSurvive
  BY DEF Kept, RememberedLoginsSurvive, Lasting, Has, Twin
<1> QED
  BY <1>1, <1>2, KeptInit, SessionTypes, PTL DEF Spec
=============================================================================
