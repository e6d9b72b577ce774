-------------------------- MODULE WebVault_proofs --------------------------
(***************************************************************************)
(* Proofs about WebVault for any number of secrets, users, groups and      *)
(* handlers that run at once: its types, that the envelopes of a secret    *)
(* agree, and that a list loaded in quiet is the server's.                 *)
(***************************************************************************)
EXTENDS WebVault, FiniteSetTheorems, SequenceTheorems, TLAPS

-----------------------------------------------------------------------------
(* The invariant.                                                          *)

\* The secrets there were at first; no version is higher than the rotations
\* since then account for.
First == Cardinality(DOMAIN SharedWith)
Versions(n) == 0 .. 1 + n - First

\* The server after n data keys, and what its answers carry.
Stored(n) ==
  [kv : Versions(n), key : 0 .. n, mine : 0 .. n, of : Secrets, cut : SUBSET Users,
   users : SUBSET Users, groups : SUBSET Groups, env : [Users -> 0 .. n]]
Answers(n) ==
  [id : Secrets \cup {None}, kv : Versions(n), key : 0 .. n, of : Secrets \cup {None}]
Row(n) == [id : Secrets, kv : Versions(n), key : 0 .. n, of : Secrets \cup {None}]
Rotations(n) == [d : Answers(n), to : SUBSET Users]
Accesses == {None} \cup [users : SUBSET Users, groups : SUBSET Groups]

Server ==
  /\ drawn \in Nat /\ First <= drawn
  /\ srv \in [Secrets -> Stored(drawn)]
  /\ list \in Seq(Secrets) /\ IsInjective(list)
  /\ \A s \in ToSet(list) : srv[s].kv # 0
  /\ members \in [Groups -> SUBSET Users]

\* The key of an answer is the one of its version; a version that the server
\* has not reached yet is in no answer.
Dated(d, sv) ==
  d.id \in Secrets => /\ d.kv <= sv[d.id].kv
                      /\ d.kv = sv[d.id].kv => d.key = sv[d.id].mine
Known(d, sv, n) == d \in Answers(n) /\ Dated(d, sv)

Screens(n) ==
  [rows : Seq(Row(n)), total : 0 .. Cardinality(Secrets), cur : Answers(n),
   body : Secrets \cup {None}, form : Secrets \cup {None}, access : Accesses,
   panel : BOOLEAN, editor : BOOLEAN, preserve : BOOLEAN, busy : BOOLEAN]
ScreenOK(x, sv, n) ==
  /\ x \in Screens(n)
  /\ Dated(x.cur, sv) /\ \A i \in DOMAIN x.rows : Dated(x.rows[i], sv)

\* The programs that handlers run: what a step leaves in got is for the next.
Ordered(todo) == \A i \in 1 .. Len(todo) :
  /\ todo[i] = "put" => i = 1
  /\ todo[i] \in {"batchedit", "unshare", "kill", "prep", "join"} => i = 1
  /\ todo[i] \in {"prep", "join"} => i < Len(todo) /\ todo[i + 1] = "post"
  /\ todo[i] = "post" => i = 1 \/ todo[i - 1] \in {"prep", "join"}
  /\ todo[i] = "members" => i < Len(todo) /\ todo[i + 1] = "rotate"
  /\ todo[i] = "reget" => i < Len(todo) /\ todo[i + 1] = "access"
  /\ todo[i] = "reset" => i < Len(todo) /\ todo[i + 1] = "page"
  /\ todo[i] = "rotate" => i = 1 \/ todo[i - 1] = "members"
  /\ todo[i] = "page" => i = 1 \/ todo[i - 1] = "reset"
  /\ todo[i] = "back" => i + 1 = Len(todo)
HasBack(todo) == \E i \in 1 .. Len(todo) : todo[i] = "back"

Tasks(n) ==
  [todo : Seq(Steps), id : Secrets \cup {None}, us : SUBSET Users, gs : SUBSET Groups,
   direct : BOOLEAN, ids : SUBSET Secrets, got : SUBSET (Answers(n) \cup Rotations(n) \cup Secrets),
   acc : Accesses, from : Nat, want : Nat, prev : {<<>>} \cup (Answers(n) \X BOOLEAN),
   auto : BOOLEAN]

\* What a handler holds: answers it will post, rotations it will post, the
\* secret that was current.
Holds(k, sv, n) ==
  /\ k.got # {} => /\ k.todo # <<>>
                   /\ Head(k.todo) \in {"put", "prep", "post", "rotate", "batchedit", "unshare", "kill"}
  /\ k.todo # <<>> /\ Head(k.todo) \in {"put", "prep", "post", "batchedit"} =>
       \A d \in k.got : Known(d, sv, n)
  /\ k.todo # <<>> /\ Head(k.todo) \in {"put", "batchedit"} =>
       \A d \in k.got : d.of # None
  /\ k.todo # <<>> /\ Head(k.todo) \in {"rotate", "unshare"} =>
       \A x \in k.got : x \in Rotations(n) /\ x.d.of # None
  /\ k.prev # <<>> => Dated(k.prev[1], sv)
  /\ HasBack(k.todo) => k.prev # <<>>
TaskOK(k, sv, n) == k \in Tasks(n) /\ Ordered(k.todo) /\ Holds(k, sv, n)

Agree(sv) == \A s \in Secrets, u \in Users : sv[s].env[u] \in {0, sv[s].mine}

Good ==
  /\ Server /\ Agree(srv) /\ ScreenOK(ui, srv, drawn)
  /\ DOMAIN tasks = Slots /\ \A t \in Slots : TaskOK(tasks[t], srv, drawn)

\* While the list is quiet, the one load there may be goes on where it ends.
Quiet ==
  /\ calm \in BOOLEAN
  /\ calm => /\ QuietListIsTrue /\ Cardinality(Loads) < 2
             /\ \A t \in Loads : tasks[t].from = Len(ui.rows)

GoodQuiet == Good /\ Quiet

-----------------------------------------------------------------------------
(* Sequences.                                                              *)

\* The least of some numbers is one of them.
LEMMA MinIsMember ==
  ASSUME NEW S \in SUBSET Nat, S # {}
  PROVE  Min(S) \in S
<1> DEFINE Less == {ss \in Nat \X Nat : ss[1] < ss[2]}
<1>1. IsWellFoundedOn(Less, Nat)
  BY NatLessThanWellFounded DEF OpToRel
<1>2. \A x, y \in Nat : y < x => <<y, x>> \in Less
  OBVIOUS
<1> HIDE DEF Less
<1>3. PICK x \in S : \A y \in S : ~ (<<y, x>> \in Less)
  BY <1>1, WFMin
<1>4. \A y \in S : ~ (y < x)
  BY <1>2, <1>3
<1>5. \A y \in S : x =< y
  BY <1>4
<1> QED
  BY <1>5 DEF Min

\* What comes before and after a place.
LEMMA BeforePlace ==
  ASSUME NEW S, NEW q \in Seq(S), NEW n \in 1 .. Len(q)
  PROVE  /\ SubSeq(q, 1, n - 1) \in Seq(S) /\ Len(SubSeq(q, 1, n - 1)) = n - 1
         /\ \A i \in 1 .. n - 1 : SubSeq(q, 1, n - 1)[i] = q[i]
<1>1. Len(q) \in Nat
  BY LenProperties
<1>2. \A i \in 1 .. n - 1 : q[i] \in S
  BY <1>1, ElementOfSeq
<1> QED
  BY <1>1, <1>2

LEMMA AfterPlace ==
  ASSUME NEW S, NEW q \in Seq(S), NEW n \in 1 .. Len(q)
  PROVE  /\ SubSeq(q, n + 1, Len(q)) \in Seq(S) /\ Len(SubSeq(q, n + 1, Len(q))) = Len(q) - n
         /\ \A i \in 1 .. Len(q) - n : SubSeq(q, n + 1, Len(q))[i] = q[n + i]
<1>1. Len(q) \in Nat
  BY LenProperties
<1>2. \A i \in n + 1 .. Len(q) : q[i] \in S
  BY <1>1, ElementOfSeq
<1> QED
  BY <1>1, <1>2

\* A sequence without the element at a place.
LEMMA WithoutPlace ==
  ASSUME NEW S, NEW q \in Seq(S), NEW n \in 1 .. Len(q), NEW r, r = RemoveAt(q, n)
  PROVE  /\ r \in Seq(S) /\ Len(r) = Len(q) - 1
         /\ \A i \in 1 .. n - 1 : r[i] = q[i]
         /\ \A i \in n .. Len(q) - 1 : r[i] = q[i + 1]
<1>0. Len(q) \in Nat
  BY LenProperties
<1> DEFINE a == SubSeq(q, 1, n - 1)
           b == SubSeq(q, n + 1, Len(q))
<1>1. a \in Seq(S) /\ Len(a) = n - 1 /\ \A i \in 1 .. n - 1 : a[i] = q[i]
  BY BeforePlace
<1>2. b \in Seq(S) /\ Len(b) = Len(q) - n /\ \A i \in 1 .. Len(q) - n : b[i] = q[n + i]
  BY AfterPlace
<1>3. r = a \o b
  BY DEF RemoveAt
<1> HIDE DEF a, b
<1>6. /\ a \o b \in Seq(S) /\ Len(a \o b) = Len(a) + Len(b)
      /\ \A i \in 1 .. Len(a) : (a \o b)[i] = a[i]
      /\ \A i \in 1 .. Len(b) : (a \o b)[i + Len(a)] = b[i]
  <2>1. a \in Seq(S) /\ b \in Seq(S)
    BY <1>1, <1>2
  <2> QED
    BY <2>1
<1>4. /\ r \in Seq(S) /\ Len(r) = (n - 1) + (Len(q) - n)
      /\ \A i \in 1 .. n - 1 : r[i] = q[i]
      /\ \A i \in 1 .. Len(q) - n : r[i + (n - 1)] = q[n + i]
  BY <1>1, <1>2, <1>3, <1>6
<1>5. ASSUME NEW i \in n .. Len(q) - 1 PROVE r[i] = q[i + 1]
  <2> DEFINE j == i - (n - 1)
  <2>1. j \in 1 .. Len(q) - n /\ j + (n - 1) = i /\ n + j = i + 1
    BY <1>0
  <2> HIDE DEF j
  <2> QED
    BY <1>4, <2>1
<1> QED
  BY <1>0, <1>4, <1>5

\* Removing the one occurrence of an element.
LEMMA RemoveOne ==
  ASSUME NEW S, NEW q \in Seq(S), IsInjective(q), NEW e, NEW r, r = RemoveFirst(q, e)
  PROVE  /\ r \in Seq(S) /\ IsInjective(r) /\ ToSet(r) = ToSet(q) \ {e}
<1>0. Len(q) \in Nat /\ DOMAIN q = 1 .. Len(q)
  BY LenProperties
<1>1. CASE ~\E i \in 1 .. Len(q) : q[i] = e
  <2>1. r = q
    BY <1>1 DEF RemoveFirst
  <2>2. e \notin ToSet(q)
    BY <1>0, <1>1 DEF ToSet
  <2> QED
    BY <2>1, <2>2
<1>2. CASE \E i \in 1 .. Len(q) : q[i] = e
  <2>1. PICK n \in 1 .. Len(q) : q[n] = e
    BY <1>2
  <2>2. {i \in 1 .. Len(q) : q[i] = e} = {n}
    BY <1>0, <2>1 DEF IsInjective
  <2>3. Min({n}) = n
    BY <1>0 DEF Min
  <2>4. r = RemoveAt(q, n)
    BY <1>2, <2>2, <2>3 DEF RemoveFirst, SelectInSeq
  <2>5. /\ r \in Seq(S) /\ Len(r) = Len(q) - 1
        /\ \A i \in 1 .. n - 1 : r[i] = q[i]
        /\ \A i \in n .. Len(q) - 1 : r[i] = q[i + 1]
    BY <2>4, WithoutPlace
  <2>6. DOMAIN r = 1 .. Len(q) - 1
    BY <2>5, LenProperties
  <2>7. \A i \in DOMAIN r : \/ i \in DOMAIN q /\ i < n /\ r[i] = q[i]
                            \/ i + 1 \in DOMAIN q /\ i + 1 > n /\ r[i] = q[i + 1]
    BY <1>0, <2>5, <2>6
  <2>8. IsInjective(r)
    <3> SUFFICES ASSUME NEW i \in DOMAIN r, NEW j \in DOMAIN r, r[i] = r[j] PROVE i = j
      BY DEF IsInjective
    <3>1. \A k, l \in DOMAIN q : q[k] = q[l] => k = l
      BY DEF IsInjective
    <3>2. i \in Int /\ j \in Int /\ n \in Int
      BY <1>0, <2>6
    <3> QED
      BY <2>7, <3>1, <3>2
  <2>9. ToSet(r) \subseteq ToSet(q) \ {e}
    <3> SUFFICES ASSUME NEW i \in DOMAIN r PROVE r[i] \in ToSet(q) \ {e}
      BY DEF ToSet
    <3>1. \A k \in DOMAIN q : q[k] = e => k = n
      BY <1>0, <2>1 DEF IsInjective
    <3>2. i \in Int /\ n \in Int
      BY <1>0, <2>6
    <3> QED
      BY <2>7, <3>1, <3>2 DEF ToSet
  <2>10. ASSUME NEW x \in ToSet(q) \ {e} PROVE x \in ToSet(r)
    <3>1. PICK i \in 1 .. Len(q) : q[i] = x
      BY <1>0 DEF ToSet
    <3>2. CASE i < n
      <4>1. r[i] = x /\ i \in DOMAIN r
        BY <1>0, <2>5, <2>6, <3>1, <3>2
      <4> QED
        BY <4>1 DEF ToSet
    <3>3. CASE i > n
      <4>1. i - 1 \in n .. Len(q) - 1 /\ (i - 1) + 1 = i
        BY <1>0, <3>3
      <4>2. r[i - 1] = x /\ i - 1 \in DOMAIN r
        BY <1>0, <2>5, <2>6, <3>1, <4>1
      <4> QED
        BY <4>2 DEF ToSet
    <3> QED
      BY <1>0, <2>1, <3>1, <3>2, <3>3
  <2> QED
    BY <2>5, <2>8, <2>9, <2>10
<1> QED
  BY <1>1, <1>2

\* Putting an element in front.
LEMMA PutFirst ==
  ASSUME NEW S, NEW q \in Seq(S), IsInjective(q), NEW e \in S, e \notin ToSet(q)
  PROVE  /\ <<e>> \o q \in Seq(S) /\ IsInjective(<<e>> \o q)
         /\ ToSet(<<e>> \o q) = ToSet(q) \cup {e}
<1> DEFINE r == <<e>> \o q
<1>1. <<e>> \in Seq(S) /\ Len(<<e>>) = 1 /\ <<e>>[1] = e
  OBVIOUS
<1>2. Len(q) \in Nat /\ DOMAIN q = 1 .. Len(q)
  BY LenProperties
<1>3. /\ r \in Seq(S) /\ Len(r) = 1 + Len(q)
      /\ \A i \in 1 .. 1 + Len(q) : r[i] = IF i <= 1 THEN <<e>>[i] ELSE q[i - 1]
  BY <1>1, ConcatProperties
<1> HIDE DEF r
<1>4. DOMAIN r = 1 .. 1 + Len(q)
  BY <1>3, LenProperties
<1>5. r[1] = e /\ \A i \in 1 .. Len(q) : r[i + 1] = q[i]
  <2>1. 1 \in 1 .. 1 + Len(q) /\ \A i \in 1 .. Len(q) :
          i + 1 \in 1 .. 1 + Len(q) /\ ~(i + 1 <= 1) /\ (i + 1) - 1 = i
    BY <1>2
  <2>2. r[1] = e
    BY <1>1, <1>3, <2>1
  <2>3. ASSUME NEW i \in 1 .. Len(q) PROVE r[i + 1] = q[i]
    BY <1>3, <2>1
  <2> QED
    BY <2>2, <2>3
<1>6. \A i \in DOMAIN r : i = 1 \/ (i - 1 \in DOMAIN q /\ r[i] = q[i - 1])
  BY <1>2, <1>3, <1>4
<1>7. IsInjective(r)
  BY <1>2, <1>4, <1>5, <1>6 DEF IsInjective, ToSet
<1>8. ToSet(r) \subseteq ToSet(q) \cup {e}
  BY <1>5, <1>6 DEF ToSet
<1>9. ASSUME NEW x \in ToSet(q) PROVE x \in ToSet(r)
  <2>1. PICK i \in 1 .. Len(q) : q[i] = x
    BY <1>2 DEF ToSet
  <2>2. i + 1 \in DOMAIN r
    BY <1>2, <1>4
  <2> QED
    BY <1>5, <2>1, <2>2 DEF ToSet
<1>10. e \in ToSet(r)
  BY <1>2, <1>4, <1>5 DEF ToSet
<1> QED
  BY <1>3, <1>7, <1>8, <1>9, <1>10 DEF r

\* A list that repeats nothing is as long as it has elements.
LEMMA LengthOfList ==
  ASSUME NEW S, IsFiniteSet(S), NEW q \in Seq(S), IsInjective(q)
  PROVE  Cardinality(ToSet(q)) = Len(q) /\ Len(q) \in 0 .. Cardinality(S)
<1>1. Len(q) \in Nat /\ DOMAIN q = 1 .. Len(q) /\ q \in [1 .. Len(q) -> S]
  BY LenProperties
<1>2. q \in [1 .. Len(q) -> ToSet(q)] /\ ToSet(q) \subseteq S
  BY <1>1 DEF ToSet
<1>3. q \in Bijection(1 .. Len(q), ToSet(q))
  BY <1>1, <1>2 DEF Bijection, Injection, Surjection, IsInjective, ToSet
<1>4. IsFiniteSet(1 .. Len(q)) /\ Cardinality(1 .. Len(q)) = Len(q)
  BY <1>1, FS_Interval
<1>5. Cardinality(ToSet(q)) = Len(q)
  BY <1>3, <1>4, FS_Bijection DEF ExistsBijection
<1> QED
  BY <1>1, <1>2, <1>5, FS_Subset, FS_CardinalityType

-----------------------------------------------------------------------------
(* Programs.                                                               *)

LEMMA HeadIsFirst ==
  ASSUME NEW S, NEW q \in Seq(S), Len(q) # 0
  PROVE  q # <<>> /\ Head(q) = q[1]
OBVIOUS

\* What is left of a program from a place on is a program.
LEMMA SuffixOrdered ==
  ASSUME NEW todo \in Seq(Steps), Ordered(todo), NEW m \in 1 .. Len(todo),
         NEW f, f = SubSeq(todo, m, Len(todo))
  PROVE  /\ f \in Seq(Steps) /\ Ordered(f) /\ f # <<>> /\ Head(f) = todo[m]
         /\ HasBack(f) => HasBack(todo)
<1>0. Len(todo) \in Nat
  BY LenProperties
<1>1. /\ f \in Seq(Steps) /\ Len(f) = Len(todo) - m + 1
      /\ \A i \in 1 .. Len(todo) - m + 1 : f[i] = todo[m + i - 1]
  <2>1. \A i \in m .. Len(todo) : todo[i] \in Steps
    BY <1>0, ElementOfSeq
  <2> QED
    BY <1>0, <2>1
<1>2. f # <<>> /\ Head(f) = f[1] /\ f[1] = todo[m]
  <2>1. Len(f) \in Nat \ {0} /\ 1 \in 1 .. Len(todo) - m + 1 /\ m + 1 - 1 = m
    BY <1>0, <1>1
  <2>2. f[1] = todo[m]
    BY <1>1, <2>1
  <2>3. f \in Seq(Steps) /\ Len(f) # 0
    BY <1>1, <2>1
  <2> QED
    BY <2>2, <2>3, HeadIsFirst
<1>3. ASSUME NEW i \in 1 .. Len(f)
      PROVE  /\ f[i] = "put" => i = 1
             /\ f[i] \in {"batchedit", "unshare", "kill", "prep", "join"} => i = 1
             /\ f[i] \in {"prep", "join"} => i < Len(f) /\ f[i + 1] = "post"
             /\ f[i] = "post" => i = 1 \/ f[i - 1] \in {"prep", "join"}
             /\ f[i] = "members" => i < Len(f) /\ f[i + 1] = "rotate"
             /\ f[i] = "reget" => i < Len(f) /\ f[i + 1] = "access"
             /\ f[i] = "reset" => i < Len(f) /\ f[i + 1] = "page"
             /\ f[i] = "rotate" => i = 1 \/ f[i - 1] = "members"
             /\ f[i] = "page" => i = 1 \/ f[i - 1] = "reset"
             /\ f[i] = "back" => i + 1 = Len(f)
  <2> DEFINE j == m + i - 1
  <2>1. j \in 1 .. Len(todo) /\ f[i] = todo[j]
    BY <1>0, <1>1
  <2>2. i < Len(f) => f[i + 1] = todo[j + 1]
    <3> SUFFICES ASSUME i < Len(f) PROVE f[i + 1] = todo[j + 1]
      OBVIOUS
    <3>1. i + 1 \in 1 .. Len(todo) - m + 1 /\ m + (i + 1) - 1 = j + 1
      BY <1>0, <1>1
    <3> HIDE DEF j
    <3> QED
      BY <1>1, <3>1
  <2>3. i > 1 => f[i - 1] = todo[j - 1]
    <3> SUFFICES ASSUME i > 1 PROVE f[i - 1] = todo[j - 1]
      OBVIOUS
    <3>1. i - 1 \in 1 .. Len(todo) - m + 1 /\ m + (i - 1) - 1 = j - 1
      BY <1>0, <1>1
    <3> HIDE DEF j
    <3> QED
      BY <1>1, <3>1
  <2>4. (j < Len(todo) <=> i < Len(f)) /\ (i # 1 <=> i > 1) /\ (j = 1 => i = 1)
        /\ (j + 1 = Len(todo) => i + 1 = Len(f))
    BY <1>0, <1>1
  <2> HIDE DEF j
  <2> QED
    BY <2>1, <2>2, <2>3, <2>4 DEF Ordered
<1>4. HasBack(f) => HasBack(todo)
  BY <1>0, <1>1 DEF HasBack
<1> QED
  BY <1>1, <1>2, <1>3, <1>4 DEF Ordered

\* The next step of a program.
LEMMA NextStep ==
  ASSUME NEW todo \in Seq(Steps), todo # <<>>, Ordered(todo), NEW f, f = Tail(todo), f # <<>>
  PROVE  /\ f \in Seq(Steps) /\ Ordered(f) /\ Head(f) \in Steps
         /\ HasBack(f) => HasBack(todo) /\ Head(todo) # "back"
         /\ Head(todo) \in {"prep", "join"} => Head(f) = "post"
         /\ Head(todo) = "members" => Head(f) = "rotate"
         /\ Head(todo) = "reget" => Head(f) = "access"
         /\ Head(todo) = "reset" => Head(f) = "page"
         /\ Head(f) \notin {"put", "prep", "batchedit", "unshare", "kill", "join"}
         /\ Head(f) = "post" => Head(todo) \in {"prep", "join"}
         /\ Head(f) = "rotate" => Head(todo) = "members"
         /\ Head(f) = "page" => Head(todo) = "reset"
<1>0. Len(todo) \in Nat /\ Len(todo) > 1 /\ f = SubSeq(todo, 2, Len(todo))
  BY LenProperties, TailIsSubSeq, HeadTailProperties, EmptySeq
<1>1. /\ f \in Seq(Steps) /\ Ordered(f) /\ Head(f) = todo[2]
      /\ HasBack(f) => HasBack(todo)
  <2>1. 2 \in 1 .. Len(todo)
    BY <1>0
  <2> QED
    BY <1>0, <2>1, SuffixOrdered
<1>2. Head(todo) = todo[1]
  BY <1>0
<1>3. HasBack(f) => todo[1] # "back"
  <2> SUFFICES ASSUME NEW i \in 1 .. Len(f), f[i] = "back", todo[1] = "back" PROVE FALSE
    BY DEF HasBack
  <2>1. i + 1 = Len(f) /\ Len(f) = Len(todo) - 1
    BY <1>0, <1>1, HeadTailProperties DEF Ordered
  <2>2. 1 + 1 = Len(todo)
    BY <1>0 DEF Ordered
  <2> QED
    BY <1>0, <2>1, <2>2
<1>4. Head(f) \in Steps
  BY <1>0, <1>1, ElementOfSeq
<1>5. 1 \in 1 .. Len(todo) /\ 2 \in 1 .. Len(todo) /\ 1 + 1 = 2 /\ 2 - 1 = 1 /\ 2 # 1
  BY <1>0
<1>6. /\ todo[1] \in {"prep", "join"} => todo[2] = "post"
      /\ todo[1] = "members" => todo[2] = "rotate"
      /\ todo[1] = "reget" => todo[2] = "access"
      /\ todo[1] = "reset" => todo[2] = "page"
  BY <1>5 DEF Ordered
<1>7. /\ todo[2] \notin {"put", "batchedit", "unshare", "kill", "prep", "join"}
      /\ todo[2] = "post" => todo[1] \in {"prep", "join"}
      /\ todo[2] = "rotate" => todo[1] = "members"
      /\ todo[2] = "page" => todo[1] = "reset"
  BY <1>5 DEF Ordered
<1> QED
  BY <1>1, <1>2, <1>3, <1>4, <1>6, <1>7

\* After an exception the finally blocks run.
LEMMA FinallyOrdered ==
  ASSUME NEW todo \in Seq(Steps), Ordered(todo), NEW f, f = Finally(todo)
  PROVE  \/ f = <<>>
         \/ /\ f \in Seq(Steps) /\ Ordered(f) /\ f # <<>> /\ Head(f) \in {"free", "back"}
            /\ HasBack(f) => HasBack(todo)
<1> DEFINE I == {i \in 1 .. Len(todo) : todo[i] \in {"free", "back"}}
           m == SelectInSeq(todo, LAMBDA x : x \in {"free", "back"})
<1>0. Len(todo) \in Nat
  BY LenProperties
<1>1. m = IF I # {} THEN Min(I) ELSE 0
  BY DEF SelectInSeq
<1>2. I \in SUBSET Nat
  BY <1>0
<1>3. f = IF m = 0 THEN <<>> ELSE SubSeq(todo, m, Len(todo))
  BY DEF Finally
<1> HIDE DEF m
<1>4. CASE I = {}
  BY <1>1, <1>3, <1>4
<1>5. CASE I # {}
  <2>1. m \in I
    BY <1>1, <1>2, <1>5, MinIsMember
  <2>2. m \in 1 .. Len(todo) /\ todo[m] \in {"free", "back"} /\ m # 0
    BY <1>0, <2>1
  <2>3. f = SubSeq(todo, m, Len(todo))
    BY <1>3, <2>2
  <2> QED
    BY <2>2, <2>3, SuffixOrdered
<1> QED
  BY <1>4, <1>5

-----------------------------------------------------------------------------
(* The server only moves on.                                               *)

LEMMA FirstIsNumber == First \in Nat
BY WebVaultAssumption, FS_Subset, FS_CardinalityType DEF First

\* Versions never go back, and the key of a version stays.
Newer(sv, n, sv2, n2) ==
  /\ n \in Nat /\ n2 \in Nat /\ First <= n /\ n <= n2
  /\ \A s \in Secrets : /\ sv[s].kv \in Nat /\ sv2[s].kv \in Nat /\ sv[s].kv <= sv2[s].kv
                        /\ sv2[s].kv = sv[s].kv => sv2[s].mine = sv[s].mine

\* What was an answer of the server remains one.
LEMMA LaterAnswers ==
  ASSUME NEW sv, NEW n, NEW sv2, NEW n2, Newer(sv, n, sv2, n2)
  PROVE  /\ Answers(n) \subseteq Answers(n2) /\ Rotations(n) \subseteq Rotations(n2)
         /\ \A d \in Answers(n) : Dated(d, sv) => Dated(d, sv2)
<1>1. Versions(n) \subseteq Versions(n2) /\ 0 .. n \subseteq 0 .. n2 /\ Versions(n) \subseteq Nat
  BY FirstIsNumber DEF Newer, Versions
<1>2. Answers(n) \subseteq Answers(n2)
  BY <1>1 DEF Answers
<1>3. Rotations(n) \subseteq Rotations(n2)
  BY <1>2 DEF Rotations
<1>4. ASSUME NEW d \in Answers(n), Dated(d, sv), d.id \in Secrets
      PROVE  d.kv <= sv2[d.id].kv /\ (d.kv = sv2[d.id].kv => d.key = sv2[d.id].mine)
  <2>1. d.kv \in Nat
    BY <1>1 DEF Answers
  <2> QED
    BY <1>4, <2>1 DEF Newer, Dated
<1> QED
  BY <1>2, <1>3, <1>4 DEF Dated

LEMMA LaterScreen ==
  ASSUME NEW sv, NEW n, NEW sv2, NEW n2, Newer(sv, n, sv2, n2), NEW x, ScreenOK(x, sv, n)
  PROVE  ScreenOK(x, sv2, n2)
<1>1. Answers(n) \subseteq Answers(n2) /\ \A d \in Answers(n) : Dated(d, sv) => Dated(d, sv2)
  BY LaterAnswers
<1>2. Row(n) \subseteq Answers(n)
  BY DEF Answers, Row
<1>3. Row(n) \subseteq Row(n2)
  BY FirstIsNumber DEF Newer, Versions, Row
<1>4. x.rows \in Seq(Row(n)) /\ x.cur \in Answers(n)
  BY DEF ScreenOK, Screens
<1>5. \A i \in DOMAIN x.rows : x.rows[i] \in Row(n)
  BY <1>4, LenProperties, ElementOfSeq
<1>6. x.rows \in Seq(Row(n2))
  BY <1>3, <1>4, SeqMonotonic
<1>7. Dated(x.cur, sv2) /\ \A i \in DOMAIN x.rows : Dated(x.rows[i], sv2)
  BY <1>1, <1>2, <1>4, <1>5 DEF ScreenOK
<1>8. x \in Screens(n2)
  BY <1>1, <1>4, <1>6 DEF ScreenOK, Screens
<1> QED
  BY <1>7, <1>8 DEF ScreenOK

LEMMA LaterTask ==
  ASSUME NEW sv, NEW n, NEW sv2, NEW n2, Newer(sv, n, sv2, n2), NEW k, TaskOK(k, sv, n)
  PROVE  TaskOK(k, sv2, n2)
<1>1. /\ Answers(n) \subseteq Answers(n2) /\ Rotations(n) \subseteq Rotations(n2)
      /\ \A d \in Answers(n) : Dated(d, sv) => Dated(d, sv2)
  BY LaterAnswers
<1>2. k \in Tasks(n)
  BY DEF TaskOK
<1>3. k \in Tasks(n2)
  BY <1>1, <1>2 DEF Tasks
<1>4. k.prev # <<>> => k.prev[1] \in Answers(n)
  BY <1>2 DEF Tasks
<1>5. \A d \in k.got : Known(d, sv, n) => Known(d, sv2, n2)
  BY <1>1 DEF Known
<1> QED
  BY <1>1, <1>3, <1>4, <1>5 DEF TaskOK, Holds

-----------------------------------------------------------------------------
(* What the operations do to the server.                                   *)

StoreStep == Server' /\ Agree(srv') /\ Newer(srv, drawn, srv', drawn')

\* The types of what the server stores.
LEMMA StoredTypes ==
  ASSUME Server
  PROVE  /\ drawn \in Nat /\ First \in Nat /\ First <= drawn
         /\ Versions(drawn) \subseteq Nat /\ Versions(drawn) \subseteq Versions(drawn + 1)
         /\ \A s \in Secrets : /\ srv[s] \in Stored(drawn) /\ srv[s].kv \in Nat
                               /\ srv[s].env \in [Users -> 0 .. drawn]
                               /\ srv[s].mine \in 0 .. drawn
         /\ ToSet(list) \subseteq Secrets
         /\ \A s \in Secrets : There(s) => srv[s].kv # 0
<1>1. Versions(drawn) \subseteq Nat /\ Versions(drawn) \subseteq Versions(drawn + 1)
  BY FirstIsNumber DEF Server, Versions
<1>2. ToSet(list) \subseteq Secrets
  BY LenProperties, ElementOfSeq DEF Server, ToSet
<1> QED
  BY <1>1, <1>2, FirstIsNumber DEF Server, Stored, There

LEMMA SameStore ==
  ASSUME Server, Agree(srv), UNCHANGED <<srv, list, drawn>>, members' \in [Groups -> SUBSET Users]
  PROVE  StoreStep
BY StoredTypes DEF StoreStep, Server, Newer

\* A secret that was touched is the first of the list.
LEMMA TouchedList ==
  ASSUME Server, NEW s \in Secrets
  PROVE  /\ Touched(s) \in Seq(Secrets) /\ IsInjective(Touched(s))
         /\ ToSet(Touched(s)) = ToSet(list) \cup {s}
         /\ RemoveFirst(list, s) \in Seq(Secrets) /\ IsInjective(RemoveFirst(list, s))
         /\ ToSet(RemoveFirst(list, s)) = ToSet(list) \ {s}
<1> DEFINE r == RemoveFirst(list, s)
           f == <<s>> \o r
<1>1. list \in Seq(Secrets) /\ IsInjective(list)
  BY DEF Server
<1>2. r \in Seq(Secrets) /\ IsInjective(r) /\ ToSet(r) = ToSet(list) \ {s}
  BY <1>1, RemoveOne
<1>3. f = <<s>> \o r /\ s \notin ToSet(r)
  BY <1>2
<1>4. Touched(s) = f
  BY DEF Touched
<1> HIDE DEF r, f
<1>5. f \in Seq(Secrets) /\ IsInjective(f) /\ ToSet(f) = ToSet(r) \cup {s}
  BY <1>2, <1>3, PutFirst, Zenon
<1> QED
  BY <1>2, <1>4, <1>5 DEF r

\* One secret's row changes.
RowChange(s, x) ==
  /\ x \in Stored(drawn') /\ srv' = [srv EXCEPT ![s] = x] /\ drawn' \in {drawn, drawn + 1}
  /\ x.kv # 0 /\ x.kv >= srv[s].kv /\ (x.kv = srv[s].kv => x.mine = srv[s].mine)
  /\ \A u \in Users : x.env[u] \in {0, x.mine}
  /\ list' \in Seq(Secrets) /\ IsInjective(list') /\ ToSet(list') \subseteq ToSet(list) \cup {s}
  /\ UNCHANGED members

LEMMA RowStep ==
  ASSUME Server, Agree(srv), NEW s \in Secrets, NEW x, RowChange(s, x)
  PROVE  StoreStep
<1> USE DEF RowChange
<1>1. Stored(drawn) \subseteq Stored(drawn')
  <2>1. Versions(drawn) \subseteq Versions(drawn') /\ 0 .. drawn \subseteq 0 .. drawn'
    BY StoredTypes
  <2> QED
    BY <2>1 DEF Stored
<1>2. srv' \in [Secrets -> Stored(drawn')]
  BY <1>1 DEF Server
<1>3. \A y \in Secrets : srv'[y] = IF y = s THEN x ELSE srv[y]
  BY DEF Server
<1>4. Agree(srv')
  BY <1>3 DEF Agree
<1>5. x.kv \in Nat
  BY StoredTypes, FirstIsNumber DEF Stored, Versions
<1>6. drawn' \in Nat /\ drawn <= drawn' /\ First <= drawn'
  BY StoredTypes
<1>7. Newer(srv, drawn, srv', drawn')
  BY <1>3, <1>5, <1>6, StoredTypes DEF Newer
<1>8. \A y \in ToSet(list') : srv'[y].kv # 0
  BY <1>3, StoredTypes DEF There
<1>9. Server'
  BY <1>2, <1>6, <1>8 DEF Server
<1> QED
  BY <1>4, <1>7, <1>9 DEF StoreStep

LEMMA ShareStep ==
  ASSUME Server, Agree(srv), NEW s \in Secrets, There(s), NEW key, key = srv[s].mine,
         NEW to, NEW us \in SUBSET Users, NEW gs \in SUBSET Groups, Share(s, key, to, us, gs)
  PROVE  StoreStep
<1> DEFINE e == [u \in Users |-> IF u \in to THEN key ELSE srv[s].env[u]]
           x == [srv[s] EXCEPT !.users = @ \cup us, !.groups = @ \cup gs, !.env = e]
<1>1. srv[s] \in Stored(drawn) /\ s \in DOMAIN srv /\ srv[s].kv # 0 /\ srv[s].kv \in Nat
  BY StoredTypes DEF Server
<1>2. e \in [Users -> 0 .. drawn]
  BY <1>1 DEF Stored
<1>3. srv' = [srv EXCEPT ![s] = x]
  BY <1>1 DEF Share, Stored
<1>4. x \in Stored(drawn) /\ x.kv = srv[s].kv /\ x.mine = srv[s].mine /\ x.env = e
  BY <1>1, <1>2 DEF Stored
<1>5. \A u \in Users : e[u] \in {0, srv[s].mine}
  BY DEF Agree
<1>6. drawn' = drawn /\ list' \in {list, Touched(s)} /\ UNCHANGED members
  BY DEF Share
<1>7. /\ list' \in Seq(Secrets) /\ IsInjective(list') /\ ToSet(list') \subseteq ToSet(list) \cup {s}
  BY <1>6, TouchedList DEF Server
<1> HIDE DEF e, x
<1>8. RowChange(s, x)
  BY <1>1, <1>3, <1>4, <1>5, <1>6, <1>7 DEF RowChange
<1> QED
  BY <1>8, RowStep

LEMMA RotateStep ==
  ASSUME Server, Agree(srv), NEW s \in Secrets, NEW kv \in Versions(drawn + 1), kv > srv[s].kv,
         NEW of \in Secrets, NEW to, NEW us, NEW gs, Rotate(s, kv, of, to, us, gs)
  PROVE  StoreStep
<1> DEFINE n == drawn + 1
           e == [u \in Users |-> IF u \in to THEN n ELSE 0]
           x == [srv[s] EXCEPT !.kv = kv, !.key = n, !.mine = n, !.of = of, !.cut = {},
                   !.users = @ \ us, !.groups = @ \ gs, !.env = e]
<1>1. srv[s] \in Stored(drawn) /\ s \in DOMAIN srv /\ srv[s].kv \in Nat /\ drawn \in Nat
  BY StoredTypes DEF Server
<1>2. e \in [Users -> 0 .. n] /\ n \in 0 .. n /\ drawn' = n
  BY <1>1 DEF Rotate
<1>3. srv' = [srv EXCEPT ![s] = x]
  BY <1>1, <1>2 DEF Rotate, Stored
<1>4. x \in Stored(n) /\ x.kv = kv /\ x.mine = n /\ x.env = e
  BY <1>1, <1>2 DEF Stored
<1>5. \A u \in Users : e[u] \in {0, n}
  OBVIOUS
<1>6. list' = Touched(s) /\ UNCHANGED members
  BY DEF Rotate
<1>7. /\ list' \in Seq(Secrets) /\ IsInjective(list') /\ ToSet(list') \subseteq ToSet(list) \cup {s}
  BY <1>6, TouchedList
<1>8. kv \in Nat
  BY <1>1, FirstIsNumber DEF Versions
<1>9. kv # 0 /\ kv >= srv[s].kv /\ kv # srv[s].kv
  BY <1>1, <1>8
<1>10. drawn' \in {drawn, drawn + 1}
  BY <1>2
<1> HIDE DEF e, x, n
<1>11. RowChange(s, x)
  BY <1>2, <1>3, <1>4, <1>5, <1>6, <1>7, <1>9, <1>10 DEF RowChange
<1> QED
  BY <1>11, RowStep

LEMMA PutStep ==
  ASSUME Server, Agree(srv), NEW s \in Secrets, There(s), NEW key \in 0 .. drawn, NEW of \in Secrets,
         Put(s, key, of)
  PROVE  StoreStep
<1> DEFINE x == [srv[s] EXCEPT !.key = key, !.of = of]
<1>1. srv[s] \in Stored(drawn) /\ s \in DOMAIN srv /\ srv[s].kv # 0 /\ srv[s].kv \in Nat
  BY StoredTypes DEF Server
<1>2. srv' = [srv EXCEPT ![s] = x]
  BY <1>1 DEF Put, Stored
<1>3. x \in Stored(drawn) /\ x.kv = srv[s].kv /\ x.mine = srv[s].mine /\ x.env = srv[s].env
  BY <1>1 DEF Stored
<1>4. drawn' = drawn /\ list' = Touched(s) /\ UNCHANGED members
  BY DEF Put
<1>5. /\ list' \in Seq(Secrets) /\ IsInjective(list') /\ ToSet(list') \subseteq ToSet(list) \cup {s}
  BY <1>4, TouchedList
<1>6. \A u \in Users : srv[s].env[u] \in {0, srv[s].mine}
  BY DEF Agree
<1> HIDE DEF x
<1>7. RowChange(s, x)
  BY <1>1, <1>2, <1>3, <1>4, <1>5, <1>6 DEF RowChange
<1> QED
  BY <1>7, RowStep

LEMMA DeleteStep ==
  ASSUME Server, Agree(srv), NEW s \in Secrets, Delete(s)
  PROVE  StoreStep
<1>1. list' = RemoveFirst(list, s) /\ UNCHANGED <<srv, members, drawn>>
  BY DEF Delete
<1>2. list' \in Seq(Secrets) /\ IsInjective(list') /\ ToSet(list') \subseteq ToSet(list)
  BY <1>1, TouchedList
<1> QED
  BY <1>1, <1>2, StoredTypes DEF StoreStep, Server, Newer

LEMMA CreateStep ==
  ASSUME Server, Agree(srv), NEW s \in Unused, NEW us \in SUBSET Users, NEW gs \in SUBSET Groups,
         Create(s, us, gs)
  PROVE  StoreStep
<1> DEFINE n == drawn + 1
           e == [u \in Users |-> IF u \in us \cup MembersOf(gs) THEN n ELSE 0]
           x == [srv[s] EXCEPT !.kv = 1, !.key = n, !.mine = n, !.users = us, !.groups = gs,
                   !.env = e]
<1>0. s \in Secrets /\ srv[s].kv = 0
  BY DEF Unused
<1>1. srv[s] \in Stored(drawn) /\ s \in DOMAIN srv /\ drawn \in Nat /\ First \in Nat /\ First <= drawn
  BY <1>0, StoredTypes DEF Server
<1>2. e \in [Users -> 0 .. n] /\ n \in 0 .. n /\ drawn' = n
  BY <1>1 DEF Create
<1>3. srv' = [srv EXCEPT ![s] = x]
  BY <1>0, <1>1, <1>2 DEF Create, Stored
<1>4. x \in Stored(n) /\ x.kv = 1 /\ x.mine = n /\ x.env = e
  <2>1. 1 \in Versions(n)
    BY <1>1 DEF Versions
  <2>2. Stored(drawn) \subseteq [kv : Versions(drawn), key : 0 .. drawn, mine : 0 .. drawn,
          of : Secrets, cut : SUBSET Users, users : SUBSET Users, groups : SUBSET Groups,
          env : [Users -> 0 .. drawn]]
    BY DEF Stored
  <2> QED
    BY <1>1, <1>2, <2>1 DEF Stored
<1>5. \A u \in Users : e[u] \in {0, n}
  OBVIOUS
<1>6. list' = <<s>> \o list /\ UNCHANGED members /\ s \notin ToSet(list)
  BY <1>0, StoredTypes DEF Create, There
<1>7. list \in Seq(Secrets) /\ IsInjective(list)
  BY DEF Server
<1>8. list' \in Seq(Secrets) /\ IsInjective(list') /\ ToSet(list') \subseteq ToSet(list) \cup {s}
  <2>1. list' \in Seq(Secrets) /\ IsInjective(list') /\ ToSet(list') = ToSet(list) \cup {s}
    BY <1>0, <1>6, <1>7, PutFirst
  <2> QED
    BY <2>1
<1>9. drawn' \in {drawn, drawn + 1}
  BY <1>2
<1>10. srv[s].kv \in Nat
  BY <1>0
<1> HIDE DEF e, x, n
<1>11. RowChange(s, x)
  BY <1>0, <1>2, <1>3, <1>4, <1>5, <1>6, <1>8, <1>9, <1>10 DEF RowChange
<1> QED
  BY <1>0, <1>11, RowStep

-----------------------------------------------------------------------------
(* What the handlers read.                                                 *)

LEMMA DetKnown ==
  ASSUME Server, NEW s \in Secrets
  PROVE  /\ Det(s) \in Answers(drawn) /\ Det(s).id = s /\ Known(Det(s), srv, drawn)
         /\ Det(s) \in Row(drawn)
<1>1. srv[s] \in Stored(drawn) /\ srv[s].kv \in Nat
  BY StoredTypes
<1>2. /\ srv[s].kv \in Versions(drawn) /\ srv[s].mine \in 0 .. drawn /\ srv[s].of \in Secrets
  BY <1>1 DEF Stored
<1>3. /\ Det(s) \in Row(drawn)
      /\ Det(s).id = s /\ Det(s).kv = srv[s].kv /\ Det(s).key = srv[s].mine
  BY <1>2 DEF Det, Row
<1>4. Dated(Det(s), srv)
  BY <1>1, <1>3 DEF Dated
<1> QED
  BY <1>3, <1>4 DEF Known, Answers, Row

LEMMA NoDetKnown ==
  ASSUME Server PROVE Known(NoDet, srv, drawn)
<1>1. 0 \in Versions(drawn) /\ 0 \in 0 .. drawn
  BY StoredTypes DEF Versions
<1> QED
  BY <1>1, WebVaultAssumption DEF NoDet, Known, Answers, Dated

\* The rows of the list, and of one page of it.
LEMMA ListedRows ==
  ASSUME Server
  PROVE  /\ Listed \in Seq(Row(drawn)) /\ Len(Listed) = Len(list) /\ Len(list) \in 0 .. Cardinality(Secrets)
         /\ Cardinality(ToSet(list)) = Len(list) /\ Cardinality(Secrets) \in Nat
         /\ \A i \in 1 .. Len(list) : Listed[i] \in Row(drawn) /\ Dated(Listed[i], srv)
<1>1. list \in Seq(Secrets) /\ DOMAIN list = 1 .. Len(list) /\ Len(list) \in Nat
  BY LenProperties DEF Server
<1>2. \A i \in 1 .. Len(list) : list[i] \in Secrets
  BY <1>1, ElementOfSeq
<1>3. Listed = [i \in 1 .. Len(list) |-> Det(list[i])]
  BY <1>1 DEF Listed
<1>4. \A i \in 1 .. Len(list) : Det(list[i]) \in Row(drawn) /\ Dated(Det(list[i]), srv)
  BY <1>2, DetKnown DEF Known
<1>5. Listed \in [1 .. Len(list) -> Row(drawn)]
  BY <1>3, <1>4
<1>6. Listed \in Seq(Row(drawn)) /\ Len(Listed) = Len(list)
  <2> HIDE DEF Listed
  <2> QED
    BY <1>1, <1>5, SeqDef
<1>7. Cardinality(ToSet(list)) = Len(list) /\ Len(list) \in 0 .. Cardinality(Secrets)
  BY <1>1, LengthOfList, WebVaultAssumption DEF Server
<1> QED
  BY <1>3, <1>4, <1>6, <1>7, WebVaultAssumption, FS_CardinalityType

LEMMA PageRows ==
  ASSUME Server, NEW i \in Nat
  PROVE  /\ PageFrom(i) \in Seq(Row(drawn))
         /\ i <= Len(list) => i + Len(PageFrom(i)) <= Len(list)
         /\ \A j \in 1 .. Len(PageFrom(i)) :
              i + j \in 1 .. Len(list) /\ PageFrom(i)[j] = Listed[i + j]
<1>1. /\ Listed \in Seq(Row(drawn)) /\ Len(Listed) = Len(list) /\ Len(list) \in Nat
      /\ \A k \in 1 .. Len(list) : Listed[k] \in Row(drawn)
  BY ListedRows
<1> DEFINE last == IF i + PageSize < Len(list) THEN i + PageSize ELSE Len(list)
           p == SubSeq(Listed, i + 1, last)
<1>2. last \in Nat /\ last <= Len(list) /\ PageFrom(i) = p
  BY <1>1, WebVaultAssumption DEF PageFrom
<1> HIDE DEF last
<1>3. \A k \in i + 1 .. last : Listed[k] \in Row(drawn)
  BY <1>1, <1>2
<1>4. i + 1 \in Int /\ last \in Int
  BY <1>2
<1>5. /\ p \in Seq(Row(drawn)) /\ Len(p) = IF i + 1 <= last THEN last - (i + 1) + 1 ELSE 0
      /\ \A j \in 1 .. last - (i + 1) + 1 : p[j] = Listed[i + 1 + j - 1]
  BY <1>3, <1>4, SubSeqProperties
<1> HIDE DEF p
<1>6. CASE i + 1 <= last
  <2>1. Len(p) = last - (i + 1) + 1
    BY <1>5, <1>6
  <2>2. \A j \in 1 .. Len(p) : i + j \in 1 .. Len(list) /\ i + 1 + j - 1 = i + j
    BY <1>1, <1>2, <1>6, <2>1
  <2>3. \A j \in 1 .. Len(p) : p[j] = Listed[i + j]
    BY <1>5, <2>1, <2>2
  <2>4. i + Len(p) <= Len(list)
    BY <1>1, <1>2, <2>1
  <2> QED
    BY <1>2, <1>5, <2>2, <2>3, <2>4
<1>7. CASE ~(i + 1 <= last)
  BY <1>1, <1>2, <1>5, <1>7
<1> QED
  BY <1>6, <1>7

-----------------------------------------------------------------------------
(* The programs that handlers start with.                                  *)

\* A piece that hands nothing to what follows it, and one that needs nothing
\* from what comes before it.
Piece(p) == p \in Seq(Steps) /\ p # <<>> /\ Ordered(p)
Closed(p) == Piece(p) /\ ~HasBack(p) /\ p[Len(p)] \notin {"prep", "join", "members", "reget", "reset"}
Opening(p) == Piece(p) /\ p[1] \notin {"put", "batchedit", "unshare", "kill", "prep", "join", "post",
                                     "rotate", "page"}

LEMMA InARow ==
  ASSUME NEW p, NEW q, Closed(p), Opening(q)
  PROVE  /\ Piece(p \o q) /\ Head(p \o q) = Head(p)
         /\ Closed(q) => Closed(p \o q)
<1> DEFINE r == p \o q
<1>1. /\ p \in Seq(Steps) /\ q \in Seq(Steps) /\ Len(p) \in Nat /\ Len(q) \in Nat
      /\ Len(p) # 0 /\ Len(q) # 0
  BY EmptySeq DEF Closed, Opening, Piece
<1>2. /\ r \in Seq(Steps) /\ Len(r) = Len(p) + Len(q)
      /\ \A i \in 1 .. Len(p) : r[i] = p[i]
      /\ \A i \in 1 .. Len(q) : r[i + Len(p)] = q[i]
  BY <1>1
<1>7. Len(p) \in Nat /\ Len(q) \in Nat /\ Len(r) = Len(p) + Len(q)
  BY <1>1, <1>2
<1> HIDE DEF r
<1>3. r # <<>> /\ Head(r) = Head(p)
  BY <1>1, <1>2, HeadIsFirst
<1>4. ASSUME NEW i \in 1 .. Len(r)
      PROVE  /\ r[i] = "put" => i = 1
             /\ r[i] \in {"batchedit", "unshare", "kill", "prep", "join"} => i = 1
             /\ r[i] \in {"prep", "join"} => i < Len(r) /\ r[i + 1] = "post"
             /\ r[i] = "post" => i = 1 \/ r[i - 1] \in {"prep", "join"}
             /\ r[i] = "members" => i < Len(r) /\ r[i + 1] = "rotate"
             /\ r[i] = "reget" => i < Len(r) /\ r[i + 1] = "access"
             /\ r[i] = "reset" => i < Len(r) /\ r[i + 1] = "page"
             /\ r[i] = "rotate" => i = 1 \/ r[i - 1] = "members"
             /\ r[i] = "page" => i = 1 \/ r[i - 1] = "reset"
             /\ r[i] = "back" => i + 1 = Len(r)
  <2>1. CASE i \in 1 .. Len(p)
    <3>1. r[i] = p[i] /\ r[i] # "back"
      BY <1>2, <2>1 DEF Closed, HasBack
    <3>2. i # 1 => r[i - 1] = p[i - 1]
      BY <1>1, <1>2, <2>1
    <3>3. i < Len(p) => r[i + 1] = p[i + 1] /\ i < Len(r)
      BY <1>1, <1>2, <2>1
    <3>4. r[i] \in {"prep", "join", "members", "reget", "reset"} => i < Len(p)
      BY <1>1, <2>1, <3>1 DEF Closed
    <3> QED
      BY <2>1, <3>1, <3>2, <3>3, <3>4 DEF Closed, Piece, Ordered
  <2>2. CASE ~(i \in 1 .. Len(p))
    <3> DEFINE j == i - Len(p)
    <3>1. j \in 1 .. Len(q) /\ i = j + Len(p) /\ (j < Len(q) => i < Len(r))
          /\ (j + 1 = Len(q) => i + 1 = Len(r))
      BY <1>7, <2>2
    <3>2. r[i] = q[j]
      BY <1>2, <3>1
    <3>3. j # 1 => r[i - 1] = q[j - 1]
      <4> SUFFICES ASSUME j # 1 PROVE r[i - 1] = q[j - 1]
        OBVIOUS
      <4>1. j - 1 \in 1 .. Len(q) /\ i - 1 = (j - 1) + Len(p)
        BY <1>1, <3>1
      <4> HIDE DEF j
      <4> QED
        BY <1>2, <4>1
    <3>4. j < Len(q) => r[i + 1] = q[j + 1]
      <4> SUFFICES ASSUME j < Len(q) PROVE r[i + 1] = q[j + 1]
        OBVIOUS
      <4>1. j + 1 \in 1 .. Len(q) /\ i + 1 = (j + 1) + Len(p)
        BY <1>1, <3>1
      <4> HIDE DEF j
      <4> QED
        BY <1>2, <4>1
    <3> HIDE DEF j
    <3>5. j = 1 => r[i] \notin {"put", "batchedit", "unshare", "kill", "prep", "join", "post",
                                "rotate", "page"}
      BY <3>2 DEF Opening
    <3> QED
      BY <3>1, <3>2, <3>3, <3>4, <3>5 DEF Opening, Piece, Ordered
  <2> QED
    BY <2>1, <2>2
<1>5. Piece(r)
  BY <1>2, <1>3, <1>4 DEF Piece, Ordered
<1>6. ASSUME Closed(q) PROVE Closed(r)
  <2>1. r[Len(r)] = q[Len(q)]
    BY <1>1, <1>2
  <2>2. \A i \in 1 .. Len(r) : i \in 1 .. Len(p) \/ i - Len(p) \in 1 .. Len(q)
    BY <1>1, <1>2
  <2>3. ASSUME NEW i \in 1 .. Len(r), r[i] = "back" PROVE FALSE
    <3>1. CASE i \in 1 .. Len(p)
      BY <1>2, <2>3, <3>1 DEF Closed, HasBack
    <3>2. CASE i - Len(p) \in 1 .. Len(q)
      <4>1. r[i] = q[i - Len(p)]
        BY <1>1, <1>2, <3>2
      <4> QED
        BY <1>6, <2>3, <3>2, <4>1 DEF Closed, HasBack
    <3> QED
      BY <2>2, <3>1, <3>2
  <2> QED
    BY <1>5, <1>6, <2>1, <2>3 DEF Closed, HasBack
<1> QED
  BY <1>3, <1>5, <1>6 DEF r

\* A program that begins with a step and has no current secret to give back.
Begins(p, step) == Closed(p) /\ Head(p) = step

LEMMA ReloadPiece == Begins(Reload, "reset") /\ Opening(Reload)
BY DEF Begins, Reload, Opening, Closed, Piece, Ordered, HasBack, Steps

LEMMA ShortPrograms ==
  /\ Begins(<<"page">>, "page")
  /\ Begins(<<"open", "access">>, "open")
  /\ Begins(<<"edit", "access">>, "edit")
  /\ Begins(<<"leave", "next">>, "leave")
  /\ Begins(<<"join", "post">>, "join")
BY DEF Begins, Closed, Piece, Ordered, HasBack, Steps

LEMMA Heads ==
  /\ Begins(<<"put">>, "put") /\ Begins(<<"share">>, "share") /\ Begins(<<"kill">>, "kill")
  /\ Begins(<<"members", "rotate">>, "members") /\ Begins(<<"batchedit">>, "batchedit")
  /\ Begins(<<"prep", "post">>, "prep") /\ Begins(<<"unshare">>, "unshare")
  /\ Begins(<<"delete">>, "delete") /\ Begins(<<"create">>, "create")
  /\ Begins(<<"reget", "access">>, "reget") /\ Begins(<<"det", "members", "rotate">>, "det")
BY DEF Begins, Closed, Piece, Ordered, HasBack, Steps

LEMMA Tails ==
  /\ Opening(<<"again", "open", "access">>) /\ Closed(<<"again", "open", "access">>)
  /\ Opening(<<"free">>) /\ Closed(<<"free">>)
  /\ Opening(<<"back", "next">>) /\ Opening(<<"reget", "access">>)
BY DEF Opening, Closed, Piece, Ordered, HasBack, Steps

\* A program and what follows it.
LEMMA Followed ==
  ASSUME NEW p, NEW step, Begins(p, step), NEW q, Opening(q), Closed(q)
  PROVE  Begins(p \o q, step)
BY InARow DEF Begins

LEMMA AfterPiece == Opening(After) /\ Closed(After)
<1>1. Begins(<<"reget", "access">> \o Reload, "reget")
  BY Heads, ReloadPiece, Followed DEF Begins
<1>2. Begins(<<"reget", "access">> \o Reload \o <<"free">>, "reget")
  BY <1>1, Tails, Followed
<1> DEFINE p == <<"reget", "access">> \o Reload \o <<"free">>
<1>3. Begins(p, "reget") /\ After = p
  BY <1>2 DEF After
<1> HIDE DEF p
<1>4. p[1] = "reget"
  BY <1>3, HeadIsFirst, EmptySeq DEF Begins, Closed, Piece
<1> QED
  BY <1>3, <1>4 DEF Begins, Opening, Closed

LEMMA Programs ==
  /\ Begins(<<"put">> \o Reload \o <<"again", "open", "access">>, "put")
  /\ Begins(<<"share">> \o After, "share")
  /\ Begins(<<"members", "rotate">> \o After, "members")
  /\ Begins(<<"batchedit">> \o Reload, "batchedit") /\ Begins(<<"kill">> \o Reload, "kill")
  /\ Begins(<<"prep", "post">> \o Reload, "prep") /\ Begins(<<"unshare">> \o Reload, "unshare")
  /\ Begins(<<"delete">> \o Reload, "delete") /\ Begins(<<"create">> \o Reload, "create")
  /\ Begins(Reload, "reset")
<1>1. Opening(Reload) /\ Closed(Reload) /\ Begins(Reload, "reset")
  BY ReloadPiece DEF Begins
<1>2. Begins(<<"put">> \o Reload, "put")
  BY <1>1, Heads, Followed
<1>3. Begins(<<"put">> \o Reload \o <<"again", "open", "access">>, "put")
  BY <1>2, Tails, Followed
<1> QED
  BY <1>1, <1>3, Heads, Followed, AfterPiece

LEMMA RotationProgram ==
  LET p == <<"det", "members", "rotate">> \o After \o <<"back", "next">>
  IN  Piece(p) /\ Head(p) = "det"
<1>1. Begins(<<"det", "members", "rotate">> \o After, "det")
  BY Heads, AfterPiece, Followed
<1> QED
  BY <1>1, Tails, InARow DEF Begins

-----------------------------------------------------------------------------
(* The steps of a handler.                                                 *)

\* What the invariant says of one handler.
LEMMA TaskFacts ==
  ASSUME Good, NEW t \in Slots
  PROVE  /\ Server /\ Agree(srv) /\ ScreenOK(ui, srv, drawn)
         /\ tasks[t] \in Tasks(drawn) /\ TaskOK(tasks[t], srv, drawn)
         /\ Ordered(tasks[t].todo) /\ Holds(tasks[t], srv, drawn) /\ tasks[t].todo \in Seq(Steps)
         /\ \A step : At(t, step) => tasks[t].todo # <<>> /\ Head(tasks[t].todo) = step
<1>1. TaskOK(tasks[t], srv, drawn)
  BY DEF Good
<1>2. tasks[t].todo \in Seq(Steps)
  BY <1>1 DEF TaskOK, Tasks
<1> QED
  BY <1>1, <1>2 DEF Good, TaskOK, At

LEMMA NoTaskOK ==
  ASSUME NEW sv, NEW n
  PROVE  TaskOK(NoTask, sv, n)
<1>1. <<>> \in Seq(Steps) /\ Len(<<>>) = 0
  OBVIOUS
<1>2. NoTask \in Tasks(n)
  BY <1>1 DEF NoTask, Tasks, Accesses
<1>3. NoTask.todo = <<>> /\ NoTask.got = {} /\ NoTask.prev = <<>>
  BY DEF NoTask
<1>4. Ordered(<<>>) /\ ~HasBack(<<>>)
  BY <1>1 DEF Ordered, HasBack
<1> QED
  BY <1>2, <1>3, <1>4 DEF TaskOK, Holds

\* A step: the server moves on, the screen and one handler keep to the invariant.
LEMMA TaskStep ==
  ASSUME Good, NEW t \in Slots, StoreStep, ScreenOK(ui', srv, drawn),
         NEW k, tasks' = [tasks EXCEPT ![t] = k], TaskOK(k, srv, drawn)
  PROVE  Good'
<1>1. Newer(srv, drawn, srv', drawn') /\ Server' /\ Agree(srv')
  BY DEF StoreStep
<1>2. ScreenOK(ui', srv', drawn')
  BY <1>1, LaterScreen
<1>3. TaskOK(k, srv', drawn')
  BY <1>1, LaterTask
<1>4. ASSUME NEW u \in Slots PROVE TaskOK(tasks[u], srv', drawn')
  BY <1>1, LaterTask DEF Good
<1>5. DOMAIN tasks' = Slots /\ \A u \in Slots : tasks'[u] = IF u = t THEN k ELSE tasks[u]
  BY DEF Good
<1>6. \A u \in Slots : TaskOK(tasks'[u], srv', drawn')
  BY <1>3, <1>4, <1>5
<1> QED
  BY <1>1, <1>2, <1>5, <1>6 DEF Good

LEMMA SameTasks ==
  ASSUME Good, StoreStep, ScreenOK(ui', srv, drawn), tasks' = tasks
  PROVE  Good'
<1>1. Newer(srv, drawn, srv', drawn') /\ Server' /\ Agree(srv')
  BY DEF StoreStep
<1>2. ScreenOK(ui', srv', drawn')
  BY <1>1, LaterScreen
<1>3. ASSUME NEW u \in Slots PROVE TaskOK(tasks[u], srv', drawn')
  BY <1>1, LaterTask DEF Good
<1> QED
  BY <1>1, <1>2, <1>3 DEF Good

\* The server is asked, or not at all.
LEMMA StoreUnchanged ==
  ASSUME Good, UNCHANGED store PROVE StoreStep
<1>1. members' \in [Groups -> SUBSET Users]
  BY DEF Good, Server, store
<1> QED
  BY <1>1, SameStore DEF Good, store

\* What a step hands to the next.
Handed(k) ==
  /\ k.prev # <<>> => Dated(k.prev[1], srv)
  /\ HasBack(k.todo) /\ Head(k.todo) # "back" => k.prev # <<>>
  /\ \/ k.got = {}
     \/ Head(k.todo) \in {"prep", "join"} /\ \A d \in k.got : Known(d, srv, drawn)
     \/ Head(k.todo) = "members" /\ \A x \in k.got : x \in Rotations(drawn) /\ x.d.of # None

LEMMA GoesGood ==
  ASSUME Good, NEW t \in Slots, StoreStep, ScreenOK(ui', srv, drawn),
         NEW k \in Tasks(drawn), Goes(t, k), k.todo = tasks[t].todo, k.todo # <<>>, Handed(k)
  PROVE  Good'
<1> DEFINE f == Tail(k.todo)
           x == [k EXCEPT !.todo = f]
<1>1. k.todo \in Seq(Steps) /\ Ordered(k.todo)
  BY TaskFacts DEF Tasks
<1>2. tasks' = [tasks EXCEPT ![t] = IF f = <<>> THEN NoTask ELSE x]
  BY DEF Goes, Rest
<1>3. CASE f = <<>>
  BY <1>2, <1>3, NoTaskOK, TaskStep
<1>4. CASE f # <<>>
  <2>1. /\ f \in Seq(Steps) /\ Ordered(f) /\ Head(f) \in Steps
        /\ HasBack(f) => HasBack(k.todo) /\ Head(k.todo) # "back"
        /\ Head(k.todo) \in {"prep", "join"} => Head(f) = "post"
        /\ Head(k.todo) = "members" => Head(f) = "rotate"
        /\ Head(f) \notin {"put", "prep", "batchedit", "unshare", "kill", "join"}
        /\ Head(f) = "post" => Head(k.todo) \in {"prep", "join"}
        /\ Head(f) = "rotate" => Head(k.todo) = "members"
    BY <1>1, <1>4, NextStep
  <2> HIDE DEF f
  <2>2. x \in Tasks(drawn) /\ x.todo = f /\ x.got = k.got /\ x.prev = k.prev
    BY <2>1 DEF Tasks
  <2> HIDE DEF x
  <2>3. Holds(x, srv, drawn)
    BY <1>4, <2>1, <2>2 DEF Holds, Handed
  <2>4. TaskOK(x, srv, drawn)
    BY <2>1, <2>2, <2>3 DEF TaskOK
  <2> QED
    BY <1>2, <1>4, <2>4, TaskStep
<1> QED
  BY <1>3, <1>4

\* A handler that ends, or runs its finally blocks.
LEMMA EndsGood ==
  ASSUME Good, NEW t \in Slots, StoreStep, ScreenOK(ui', srv, drawn),
         tasks' = [tasks EXCEPT ![t] = NoTask]
  PROVE  Good'
BY NoTaskOK, TaskStep

LEMMA FailsGood ==
  ASSUME Good, NEW t \in Slots, Fails(t)
  PROVE  Good'
<1> DEFINE k == tasks[t]
           f == Finally(k.todo)
           x == [[k EXCEPT !.got = {}] EXCEPT !.todo = f]
<1>0. ui' = ui /\ StoreStep /\ ScreenOK(ui', srv, drawn)
  BY StoreUnchanged, TaskFacts DEF Fails
<1>1. tasks' = [tasks EXCEPT ![t] = IF f = <<>> THEN NoTask ELSE x]
  BY DEF Fails, Rest, Good
<1>2. k \in Tasks(drawn) /\ Ordered(k.todo) /\ Holds(k, srv, drawn) /\ k.todo \in Seq(Steps)
  BY TaskFacts
<1>3. CASE f = <<>>
  BY <1>0, <1>1, <1>3, EndsGood
<1>4. CASE f # <<>>
  <2>1. /\ f \in Seq(Steps) /\ Ordered(f) /\ Head(f) \in {"free", "back"}
        /\ HasBack(f) => HasBack(k.todo)
    BY <1>2, <1>4, FinallyOrdered
  <2> HIDE DEF f
  <2>2. x \in Tasks(drawn) /\ x.todo = f /\ x.got = {} /\ x.prev = k.prev
    BY <1>2, <2>1 DEF Tasks
  <2> HIDE DEF x, k
  <2>3. Holds(x, srv, drawn)
    BY <1>2, <2>1, <2>2 DEF Holds
  <2>4. TaskOK(x, srv, drawn)
    BY <2>1, <2>2, <2>3 DEF TaskOK
  <2> QED
    BY <1>0, <1>1, <1>4, <2>4, TaskStep
<1> QED
  BY <1>3, <1>4

\* A handler starts.
LEMMA StartGood ==
  ASSUME Good, NEW t \in Slots, NEW k \in Tasks(drawn), Start(t, k), ScreenOK(ui', srv, drawn),
         Closed(k.todo), Holds(k, srv, drawn)
  PROVE  Good'
<1>1. StoreStep /\ tasks' = [tasks EXCEPT ![t] = k]
  BY StoreUnchanged DEF Start
<1>2. TaskOK(k, srv, drawn)
  BY DEF TaskOK, Closed, Piece
<1> QED
  BY <1>1, <1>2, TaskStep

-----------------------------------------------------------------------------
(* The user elsewhere, and the panels.                                     *)

LEMMA ElsewhereGood ==
  ASSUME Good, Elsewhere PROVE Good'
<1>0. Server /\ Agree(srv) /\ ScreenOK(ui, srv, drawn) /\ ui' = ui /\ tasks' = tasks
  BY DEF Good, Elsewhere
<1>1. ScreenOK(ui', srv, drawn)
  BY <1>0
<1>2. StoreStep
  <2>1. CASE \E s \in ToSet(list) : Delete(s)
    BY <1>0, <2>1, DeleteStep, StoredTypes
  <2>2. ASSUME NEW s \in ToSet(list),
               Rotate(s, NewVersion(srv[s].kv), srv[s].of, {u \in Users : srv[s].env[u] > 0}, {}, {})
        PROVE  StoreStep
    <3>1. s \in Secrets /\ srv[s] \in Stored(drawn) /\ srv[s].kv \in Nat /\ drawn \in Nat
          /\ First \in Nat
      BY <1>0, StoredTypes
    <3>2. srv[s].kv \in Versions(drawn) /\ srv[s].of \in Secrets
      BY <3>1 DEF Stored
    <3>3. NewVersion(srv[s].kv) \in Versions(drawn + 1) /\ NewVersion(srv[s].kv) > srv[s].kv
      BY <3>1, <3>2 DEF NewVersion, Versions
    <3> QED
      BY <1>0, <2>2, <3>1, <3>2, <3>3, RotateStep
  <2>3. ASSUME NEW s \in Unused, Create(s, {}, {}) PROVE StoreStep
    BY <1>0, <2>3, CreateStep
  <2> QED
    BY <2>1, <2>2, <2>3 DEF Elsewhere
<1> QED
  BY <1>0, <1>1, <1>2, SameTasks

\* The fields of the screen.
LEMMA ScreenFacts ==
  ASSUME ScreenOK(ui, srv, drawn)
  PROVE  /\ ui \in Screens(drawn) /\ ui.rows \in Seq(Row(drawn)) /\ ui.cur \in Answers(drawn)
         /\ Known(ui.cur, srv, drawn) /\ ui.cur.id \in Secrets \cup {None}
         /\ ui.cur.of \in Secrets \cup {None} /\ ui.body \in Secrets \cup {None}
         /\ ui.form \in Secrets \cup {None} /\ ui.access \in Accesses /\ ui.busy \in BOOLEAN
         /\ ui.panel \in BOOLEAN
BY DEF ScreenOK, Screens, Answers, Known

\* The rows shown are answers for secrets.
LEMMA RowsKnown ==
  ASSUME ScreenOK(ui, srv, drawn)
  PROVE  /\ \A r \in ToSet(ui.rows) : r \in Row(drawn) /\ Known(r, srv, drawn)
         /\ Ids(ui.rows) \subseteq Secrets
<1>1. ui.rows \in Seq(Row(drawn)) /\ DOMAIN ui.rows = 1 .. Len(ui.rows)
  BY ScreenFacts, LenProperties
<1>2. ASSUME NEW r \in ToSet(ui.rows) PROVE r \in Row(drawn) /\ Known(r, srv, drawn)
  <2>1. PICK i \in DOMAIN ui.rows : r = ui.rows[i]
    BY DEF ToSet
  <2>2. r \in Row(drawn)
    BY <1>1, <2>1, ElementOfSeq
  <2>3. Dated(r, srv)
    BY <2>1 DEF ScreenOK
  <2> QED
    BY <2>2, <2>3 DEF Known, Row, Answers
<1>3. Ids(ui.rows) \subseteq Secrets
  BY <1>2 DEF Ids, Row
<1> QED
  BY <1>2, <1>3

\* A screen with another current secret.
LEMMA ScreenWith ==
  ASSUME ScreenOK(ui, srv, drawn), NEW d, Known(d, srv, drawn), NEW x \in Screens(drawn),
         x.rows = ui.rows, x.cur = d
  PROVE  ScreenOK(x, srv, drawn)
BY DEF ScreenOK, Known

LEMMA ClosedScreen ==
  ASSUME Server, ScreenOK(ui, srv, drawn)
  PROVE  ScreenOK(ClosePanel, srv, drawn) /\ ClosePanel.rows = ui.rows /\ ClosePanel.total = ui.total
<1>1. ui \in Screens(drawn)
  BY ScreenFacts
<1>2. Known(NoDet, srv, drawn) /\ Known(ui.cur, srv, drawn)
  BY NoDetKnown, ScreenFacts
<1> DEFINE x == ClosePanel
           d == IF ui.editor THEN ui.cur ELSE NoDet
<1>3. x \in Screens(drawn) /\ x.rows = ui.rows /\ x.cur = d /\ x.total = ui.total
  BY <1>1, <1>2 DEF ClosePanel, Screens, Known
<1>4. Known(d, srv, drawn)
  BY <1>2
<1> HIDE DEF x, d
<1>5. ScreenOK(x, srv, drawn)
  BY <1>3, <1>4, ScreenWith
<1> QED
  BY <1>3, <1>5 DEF x

LEMMA PanelsGood ==
  ASSUME Good, CloseSecret \/ EditForm \/ CloseShareEditor PROVE Good'
<1>0. Server /\ ScreenOK(ui, srv, drawn) /\ StoreStep /\ tasks' = tasks
  BY StoreUnchanged DEF Good, CloseSecret, EditForm, CloseShareEditor
<1>1. ui \in Screens(drawn) /\ Known(ui.cur, srv, drawn) /\ Known(NoDet, srv, drawn)
  BY <1>0, ScreenFacts, NoDetKnown
<1>2. CASE CloseSecret
  BY <1>0, <1>2, ClosedScreen, SameTasks DEF CloseSecret
<1>3. CASE EditForm
  <2>1. ui' = [ui EXCEPT !.form = IF @ = None THEN ui.body ELSE None]
    BY <1>3 DEF EditForm
  <2>2. ui' \in Screens(drawn) /\ ui'.rows = ui.rows /\ ui'.cur = ui.cur
    BY <1>1, <2>1 DEF Screens
  <2>3. ScreenOK(ui', srv, drawn)
    BY <1>0, <1>1, <2>2, ScreenWith
  <2> QED
    BY <1>0, <2>3, SameTasks
<1>4. CASE CloseShareEditor
  <2> DEFINE keep == ui.panel \/ ui.preserve
             d == IF keep THEN ui.cur ELSE NoDet
  <2>1. ui' = [ui EXCEPT !.editor = FALSE, !.preserve = FALSE, !.cur = IF keep THEN @ ELSE NoDet,
                         !.body = IF keep THEN @ ELSE None]
    BY <1>4 DEF CloseShareEditor
  <2> HIDE DEF keep
  <2>2. ui' \in Screens(drawn) /\ ui'.rows = ui.rows /\ ui'.cur = d
    BY <1>1, <2>1 DEF Screens, Known
  <2>3. Known(d, srv, drawn)
    BY <1>1
  <2> HIDE DEF d
  <2>4. ScreenOK(ui', srv, drawn)
    BY <1>0, <2>2, <2>3, ScreenWith
  <2> QED
    BY <1>0, <2>4, SameTasks
<1> QED
  BY <1>2, <1>3, <1>4

-----------------------------------------------------------------------------
(* The clicks.                                                             *)

\* A handler that goes on with the same step, with what fits that step.
Fits(step, x) ==
  \/ step = "batchedit" /\ Known(x, srv, drawn) /\ x.of # None
  \/ step = "unshare" /\ x \in Rotations(drawn) /\ x.d.of # None
  \/ step = "kill"

LEMMA StaysGood ==
  ASSUME Good, NEW t \in Slots, StoreStep, ScreenOK(ui', srv, drawn), tasks[t].todo # <<>>,
         NEW k \in Tasks(drawn), Stays(t, k), k.todo = tasks[t].todo, k.prev = tasks[t].prev,
         \A x \in k.got : x \in tasks[t].got \/ Fits(Head(tasks[t].todo), x)
  PROVE  Good'
<1>1. TaskOK(tasks[t], srv, drawn)
  BY TaskFacts
<1>2. tasks[t].got # {} => Head(k.todo) \in {"put", "prep", "post", "rotate", "batchedit", "unshare",
                                              "kill"}
  BY <1>1 DEF TaskOK, Holds
<1>3. Holds(k, srv, drawn)
  BY <1>1, <1>2 DEF TaskOK, Holds, Fits
<1>4. TaskOK(k, srv, drawn)
  BY <1>1, <1>3 DEF TaskOK
<1> QED
  BY <1>4, TaskStep DEF Stays

LEMMA LostGood ==
  ASSUME Good, NEW t \in Slots, Lost(t) PROVE Good'
<1> DEFINE k == tasks[t]
<1>0. StoreStep /\ ScreenOK(ui', srv, drawn) /\ k \in Tasks(drawn) /\ k.todo # <<>>
  BY StoreUnchanged, TaskFacts DEF Lost
<1>1. CASE Fails(t)
  BY <1>1, FailsGood
<1>2. ASSUME NEW s \in k.ids, Stays(t, [k EXCEPT !.ids = @ \ {s}]) PROVE Good'
  <2> DEFINE x == [k EXCEPT !.ids = @ \ {s}]
  <2>1. x \in Tasks(drawn) /\ x.todo = k.todo /\ x.prev = k.prev /\ x.got = k.got
    BY <1>0 DEF Tasks
  <2>2. Stays(t, x)
    BY <1>2
  <2> HIDE DEF x
  <2> QED
    BY <1>0, <2>1, <2>2, StaysGood
<1>3. ASSUME NEW d \in k.got, Stays(t, [k EXCEPT !.got = @ \ {d}]) PROVE Good'
  <2> DEFINE x == [k EXCEPT !.got = @ \ {d}]
  <2>1. x \in Tasks(drawn) /\ x.todo = k.todo /\ x.prev = k.prev /\ x.got \subseteq k.got
    BY <1>0 DEF Tasks
  <2>2. Stays(t, x)
    BY <1>3
  <2> HIDE DEF x
  <2> QED
    BY <1>0, <2>1, <2>2, StaysGood
<1> QED
  BY <1>1, <1>2, <1>3 DEF Lost

\* A task that starts.
LEMMA TaskTyped ==
  ASSUME NEW p, NEW step, Begins(p, step), NEW n
  PROVE  /\ Task(p) \in Tasks(n) /\ Task(p).todo = p /\ Task(p).got = {} /\ Task(p).prev = <<>>
         /\ p # <<>> /\ Head(p) = step /\ Closed(p) /\ ~HasBack(p)
<1>1. p \in Seq(Steps) /\ p # <<>> /\ Closed(p) /\ Head(p) = step /\ ~HasBack(p)
  BY DEF Begins, Closed, Piece
<1>2. NoTask \in Tasks(n) /\ NoTask.got = {} /\ NoTask.prev = <<>>
  BY NoTaskOK DEF TaskOK, NoTask
<1>3. Task(p) = [NoTask EXCEPT !.todo = p]
  BY DEF Task
<1> QED
  BY <1>1, <1>2, <1>3 DEF Tasks

\* A task with nothing read yet.
LEMMA PlainStart ==
  ASSUME Good, NEW t \in Slots, NEW k \in Tasks(drawn), Start(t, k), ScreenOK(ui', srv, drawn),
         NEW step, Begins(k.todo, step), k.got = {}, k.prev = <<>>
  PROVE  Good'
<1>1. Closed(k.todo) /\ ~HasBack(k.todo)
  BY DEF Begins, Closed
<1>2. Holds(k, srv, drawn)
  BY <1>1 DEF Holds
<1> QED
  BY <1>1, <1>2, StartGood

LEMMA LoadClicksGood ==
  ASSUME Good, NEW t \in Slots, More(t) \/ Focus(t) \/ CreateSecret(t) \/ DeleteSecret(t)
                                \/ MemberChange(t)
  PROVE  Good'
<1>0. ScreenOK(ui, srv, drawn) /\ ui' = ui /\ ui.rows \in Seq(Row(drawn)) /\ Len(ui.rows) \in Nat
  BY ScreenFacts, LenProperties DEF Good, More, Focus, CreateSecret, DeleteSecret, MemberChange
<1>1. ScreenOK(ui', srv, drawn) /\ Cardinality(Secrets) \in Nat /\ ui.cur.id \in Secrets \cup {None}
  BY <1>0, WebVaultAssumption, FS_CardinalityType, ScreenFacts
<1>2. CASE More(t)
  <2>1. PICK want \in {0, Cardinality(Secrets)} :
          Start(t, [Task(<<"page">>) EXCEPT !.from = Len(ui.rows), !.want = want])
    BY <1>2 DEF More
  <2> DEFINE p == <<"page">>
             k == [Task(p) EXCEPT !.from = Len(ui.rows), !.want = want]
  <2>2. Begins(p, "page") /\ Start(t, k)
    BY <2>1, ShortPrograms
  <2> HIDE DEF p
  <2>4. want \in Nat /\ Len(ui.rows) \in Nat
    BY <1>0, <1>1
  <2>5. Task(p) \in Tasks(drawn) /\ Task(p).todo = p /\ Task(p).got = {} /\ Task(p).prev = <<>>
    BY <2>2, TaskTyped
  <2>3. k \in Tasks(drawn) /\ k.todo = p /\ k.got = {} /\ k.prev = <<>>
    BY <2>4, <2>5 DEF Tasks
  <2> HIDE DEF k
  <2> QED
    BY <1>1, <2>2, <2>3, PlainStart
<1>3. CASE Focus(t)
  <2> DEFINE k == [Task(Reload) EXCEPT !.auto = TRUE]
  <2>1. Begins(Reload, "reset") /\ Start(t, k)
    BY <1>3, ReloadPiece DEF Focus
  <2>9. Task(Reload) \in Tasks(drawn) /\ Task(Reload).todo = Reload /\ Task(Reload).got = {} /\ Task(Reload).prev = <<>>
    BY <2>1, TaskTyped
  <2>2. k \in Tasks(drawn) /\ k.todo = Reload /\ k.got = {} /\ k.prev = <<>>
    BY <2>1, <2>9 DEF Tasks
  <2> HIDE DEF k
  <2> QED
    BY <1>1, <2>1, <2>2, PlainStart
<1>4. CASE CreateSecret(t)
  <2> DEFINE p == <<"create">> \o Reload
  <2>1. PICK x \in Targets \cup {NoTask} : Start(t, [Task(p) EXCEPT !.us = x.us, !.gs = x.gs])
    BY <1>4 DEF CreateSecret
  <2> DEFINE k == [Task(p) EXCEPT !.us = x.us, !.gs = x.gs]
  <2>2. Begins(p, "create") /\ Start(t, k) /\ x.us \in SUBSET Users /\ x.gs \in SUBSET Groups
    BY <2>1, Programs DEF Targets, NoTask
  <2> HIDE DEF p
  <2>9. Task(p) \in Tasks(drawn) /\ Task(p).todo = p /\ Task(p).got = {} /\ Task(p).prev = <<>>
    BY <2>2, TaskTyped
  <2>3. k \in Tasks(drawn) /\ k.todo = p /\ k.got = {} /\ k.prev = <<>>
    BY <2>2, <2>9 DEF Tasks
  <2> HIDE DEF k
  <2> QED
    BY <1>1, <2>2, <2>3, PlainStart
<1>5. CASE DeleteSecret(t)
  <2> DEFINE p == <<"delete">> \o Reload
             k == [Task(p) EXCEPT !.id = ui.cur.id]
  <2>1. Begins(p, "delete") /\ Start(t, k)
    BY <1>5, Programs DEF DeleteSecret
  <2> HIDE DEF p
  <2>9. Task(p) \in Tasks(drawn) /\ Task(p).todo = p /\ Task(p).got = {} /\ Task(p).prev = <<>>
    BY <2>1, TaskTyped
  <2>2. k \in Tasks(drawn) /\ k.todo = p /\ k.got = {} /\ k.prev = <<>>
    BY <1>1, <2>1, <2>9 DEF Tasks
  <2> HIDE DEF k
  <2> QED
    BY <1>1, <2>1, <2>2, PlainStart
<1>6. CASE MemberChange(t)
  <2>1. PICK g \in Groups, u \in Users : Start(t, [Task(
          IF u \in members[g] THEN <<"leave", "next">> ELSE <<"join", "post">>)
            EXCEPT !.us = {u}, !.gs = {g}, !.direct = FALSE])
    BY <1>6 DEF MemberChange
  <2> DEFINE p == IF u \in members[g] THEN <<"leave", "next">> ELSE <<"join", "post">>
             step == IF u \in members[g] THEN "leave" ELSE "join"
             k == [Task(p) EXCEPT !.us = {u}, !.gs = {g}, !.direct = FALSE]
  <2>2. Begins(p, step) /\ Start(t, k)
    BY <2>1, ShortPrograms
  <2> HIDE DEF p, step
  <2>9. Task(p) \in Tasks(drawn) /\ Task(p).todo = p /\ Task(p).got = {} /\ Task(p).prev = <<>>
    BY <2>2, TaskTyped
  <2>3. k \in Tasks(drawn) /\ k.todo = p /\ k.got = {} /\ k.prev = <<>>
    BY <2>2, <2>9 DEF Tasks
  <2> HIDE DEF k
  <2> QED
    BY <1>1, <2>2, <2>3, PlainStart
<1> QED
  BY <1>2, <1>3, <1>4, <1>5, <1>6

LEMMA PanelClicksGood ==
  ASSUME Good, NEW t \in Slots, OpenSecret(t) \/ OpenShareEditor(t) \/ ShareChip(t) \/ UnshareChip(t)
  PROVE  Good'
<1>0. ScreenOK(ui, srv, drawn) /\ ui \in Screens(drawn) /\ Known(ui.cur, srv, drawn)
      /\ Ids(ui.rows) \subseteq Secrets /\ ui.cur.id \in Secrets \cup {None} /\ ui.access \in Accesses
      /\ ui.panel \in BOOLEAN
  BY ScreenFacts, RowsKnown DEF Good
<1>1. CASE OpenSecret(t)
  <2> DEFINE p == <<"open", "access">>
  <2>1. PICK s \in Ids(ui.rows) : Start(t, [Task(p) EXCEPT !.id = s])
    BY <1>1 DEF OpenSecret
  <2> DEFINE k == [Task(p) EXCEPT !.id = s]
  <2>2. Begins(p, "open") /\ Start(t, k) /\ s \in Secrets
    BY <1>0, <2>1, ShortPrograms
  <2> HIDE DEF p
  <2>9. Task(p) \in Tasks(drawn) /\ Task(p).todo = p /\ Task(p).got = {} /\ Task(p).prev = <<>>
    BY <2>2, TaskTyped
  <2>3. k \in Tasks(drawn) /\ k.todo = p /\ k.got = {} /\ k.prev = <<>>
    BY <2>2, <2>9 DEF Tasks
  <2> HIDE DEF k
  <2>4. ui' = [ui EXCEPT !.panel = TRUE, !.form = None]
    BY <1>1 DEF OpenSecret
  <2>5. ui' \in Screens(drawn) /\ ui'.rows = ui.rows /\ ui'.cur = ui.cur
    BY <1>0, <2>4 DEF Screens
  <2>6. ScreenOK(ui', srv, drawn)
    BY <1>0, <2>5, ScreenWith
  <2> QED
    BY <2>2, <2>3, <2>6, PlainStart
<1>2. CASE OpenShareEditor(t)
  <2> DEFINE p == <<"edit", "access">>
  <2>1. PICK s \in Ids(ui.rows) : /\ Start(t, [Task(p) EXCEPT !.id = s])
                                  /\ ui' = [ui EXCEPT !.preserve = ui.panel /\ ui.cur.id = s]
    BY <1>2 DEF OpenShareEditor
  <2> DEFINE k == [Task(p) EXCEPT !.id = s]
  <2>2. Begins(p, "edit") /\ Start(t, k) /\ s \in Secrets
    BY <1>0, <2>1, ShortPrograms
  <2> HIDE DEF p
  <2>9. Task(p) \in Tasks(drawn) /\ Task(p).todo = p /\ Task(p).got = {} /\ Task(p).prev = <<>>
    BY <2>2, TaskTyped
  <2>3. k \in Tasks(drawn) /\ k.todo = p /\ k.got = {} /\ k.prev = <<>>
    BY <2>2, <2>9 DEF Tasks
  <2> HIDE DEF k
  <2>4. (ui.panel /\ ui.cur.id = s) \in BOOLEAN
    OBVIOUS
  <2>5. ui' \in Screens(drawn) /\ ui'.rows = ui.rows /\ ui'.cur = ui.cur
    BY <1>0, <2>1, <2>4 DEF Screens
  <2>6. ScreenOK(ui', srv, drawn)
    BY <1>0, <2>5, ScreenWith
  <2> QED
    BY <2>2, <2>3, <2>6, PlainStart
<1>3. ASSUME ui' = [ui EXCEPT !.busy = TRUE] PROVE ScreenOK(ui', srv, drawn)
  <2>1. ui' \in Screens(drawn) /\ ui'.rows = ui.rows /\ ui'.cur = ui.cur
    BY <1>0, <1>3 DEF Screens
  <2> QED
    BY <1>0, <2>1, ScreenWith
<1>4. \A x \in Targets : x.us \in SUBSET Users /\ x.gs \in SUBSET Groups
  BY DEF Targets
<1>5. CASE ShareChip(t)
  <2> DEFINE p == <<"share">> \o After
  <2>1. PICK x \in Targets : Start(t, [Task(p) EXCEPT !.id = ui.cur.id, !.us = x.us, !.gs = x.gs])
    BY <1>5 DEF ShareChip
  <2> DEFINE k == [Task(p) EXCEPT !.id = ui.cur.id, !.us = x.us, !.gs = x.gs]
  <2>2. Begins(p, "share") /\ Start(t, k)
    BY <2>1, Programs
  <2> HIDE DEF p
  <2>9. Task(p) \in Tasks(drawn) /\ Task(p).todo = p /\ Task(p).got = {} /\ Task(p).prev = <<>>
    BY <2>2, TaskTyped
  <2>3. k \in Tasks(drawn) /\ k.todo = p /\ k.got = {} /\ k.prev = <<>>
    BY <1>0, <1>4, <2>2, <2>9 DEF Tasks
  <2> HIDE DEF k
  <2>4. ScreenOK(ui', srv, drawn)
    BY <1>3, <1>5 DEF ShareChip
  <2> QED
    BY <2>2, <2>3, <2>4, PlainStart
<1>6. CASE UnshareChip(t)
  <2> DEFINE p == <<"members", "rotate">> \o After
  <2>1. PICK x \in Targets :
          Start(t, [Task(p) EXCEPT !.us = x.us, !.gs = x.gs, !.acc = ui.access])
    BY <1>6 DEF UnshareChip
  <2> DEFINE k == [Task(p) EXCEPT !.us = x.us, !.gs = x.gs, !.acc = ui.access]
  <2>2. Begins(p, "members") /\ Start(t, k)
    BY <2>1, Programs
  <2> HIDE DEF p
  <2>9. Task(p) \in Tasks(drawn) /\ Task(p).todo = p /\ Task(p).got = {} /\ Task(p).prev = <<>>
    BY <2>2, TaskTyped
  <2>3. k \in Tasks(drawn) /\ k.todo = p /\ k.got = {} /\ k.prev = <<>>
    BY <1>0, <1>4, <2>2, <2>9 DEF Tasks
  <2> HIDE DEF k
  <2>4. ScreenOK(ui', srv, drawn)
    BY <1>3, <1>6 DEF UnshareChip
  <2> QED
    BY <2>2, <2>3, <2>4, PlainStart
<1> QED
  BY <1>1, <1>2, <1>5, <1>6

\* The form is saved with the key and version of the current secret.
LEMMA SaveGood ==
  ASSUME Good, NEW t \in Slots, Save(t) PROVE Good'
<1> DEFINE p == <<"put">> \o Reload \o <<"again", "open", "access">>
           d == [ui.cur EXCEPT !.of = ui.form]
           k == [Task(p) EXCEPT !.got = {d}]
<1>1. Start(t, k) /\ ui' = ui /\ ui.form # None
  BY DEF Save
<1>2. Begins(p, "put")
  BY Programs
<1>3. ScreenOK(ui, srv, drawn) /\ ui.cur \in Answers(drawn) /\ Known(ui.cur, srv, drawn)
      /\ ui.form \in Secrets \cup {None}
  BY ScreenFacts DEF Good
<1>4. /\ d \in Answers(drawn) /\ d.id = ui.cur.id /\ d.kv = ui.cur.kv /\ d.key = ui.cur.key
      /\ d.of = ui.form
  BY <1>3 DEF Answers
<1> HIDE DEF d
<1>5. Known(d, srv, drawn) /\ d.of # None
  BY <1>1, <1>3, <1>4 DEF Known, Dated
<1> HIDE DEF p
<1>6. Closed(p) /\ p # <<>> /\ Head(p) = "put" /\ ~HasBack(p)
  BY <1>2, TaskTyped
<1>7. k \in Tasks(drawn) /\ k.todo = p /\ k.got = {d} /\ k.prev = <<>>
  BY <1>2, <1>4, TaskTyped DEF Tasks
<1> HIDE DEF k
<1>8. Holds(k, srv, drawn)
  BY <1>5, <1>6, <1>7 DEF Holds
<1> QED
  BY <1>1, <1>3, <1>6, <1>7, <1>8, StartGood

\* A batch takes the rows shown, whatever they are by now.
LEMMA OneBatch ==
  ASSUME Good, NEW t \in Slots, NEW todo, NEW step, Begins(todo \o Reload, step),
         NEW k \in Tasks(drawn), k.prev = <<>>, Batch(t, todo, k),
         todo = <<"prep", "post">> => step = "prep"
  PROVE  Good'
<1> DEFINE p == todo \o Reload
<1>0. Begins(p, step)
  OBVIOUS
<1>1. PICK rows \in SUBSET ToSet(ui.rows) : Start(t, [k EXCEPT !.todo = todo \o Reload,
        !.ids = {r.id : r \in rows}, !.got = IF todo = <<"prep", "post">> THEN rows ELSE {}])
  BY DEF Batch
<1> DEFINE got == IF todo = <<"prep", "post">> THEN rows ELSE {}
           ids == {r.id : r \in rows}
           x == [k EXCEPT !.todo = p, !.ids = ids, !.got = got]
<1>2. Start(t, x)
  BY <1>1
<1>3. ScreenOK(ui, srv, drawn) /\ ui' = ui
  BY DEF Good, Batch
<1>4. \A r \in rows : r \in Row(drawn) /\ Known(r, srv, drawn)
  BY <1>3, RowsKnown
<1>5. ids \subseteq Secrets
  BY <1>4 DEF Row
<1>6. got \subseteq Answers(drawn) /\ (\A d \in got : Known(d, srv, drawn)) /\ (got # {} => step = "prep")
  BY <1>4 DEF Known
<1> HIDE DEF p, got, ids
<1>7. p \in Seq(Steps) /\ Closed(p) /\ p # <<>> /\ Head(p) = step /\ ~HasBack(p)
  BY <1>0 DEF Begins, Closed, Piece
<1>8. x \in Tasks(drawn) /\ x.todo = p /\ x.got = got /\ x.prev = <<>>
  BY <1>5, <1>6, <1>7 DEF Tasks
<1> HIDE DEF x
<1>9. Holds(x, srv, drawn)
  BY <1>6, <1>7, <1>8 DEF Holds
<1> QED
  BY <1>2, <1>3, <1>7, <1>8, <1>9, StartGood

LEMMA BatchesGood ==
  ASSUME Good, NEW t \in Slots, \/ BatchEdit(t) \/ BatchDelete(t) \/ BatchShare(t)
                                \/ BatchSetCap(t) \/ BatchUnshare(t)
  PROVE  Good'
<1>1. NoTask \in Tasks(drawn) /\ NoTask.prev = <<>>
  BY NoTaskOK DEF TaskOK, NoTask
<1>2. ASSUME NEW x \in Targets
      PROVE  /\ [NoTask EXCEPT !.us = x.us, !.gs = x.gs] \in Tasks(drawn)
             /\ [NoTask EXCEPT !.us = x.us, !.gs = x.gs].prev = <<>>
             /\ [NoTask EXCEPT !.us = x.us, !.gs = x.gs, !.direct = FALSE] \in Tasks(drawn)
             /\ [NoTask EXCEPT !.us = x.us, !.gs = x.gs, !.direct = FALSE].prev = <<>>
  <2>1. x.us \in SUBSET Users /\ x.gs \in SUBSET Groups
    BY DEF Targets
  <2> QED
    BY <1>1, <2>1 DEF Tasks
<1>3. <<"batchedit">> # <<"prep", "post">> /\ <<"kill">> # <<"prep", "post">>
      /\ <<"unshare">> # <<"prep", "post">>
  <2>1. Len(<<"prep", "post">>) = 2 /\ Len(<<"batchedit">>) = 1 /\ Len(<<"kill">>) = 1
        /\ Len(<<"unshare">>) = 1
    OBVIOUS
  <2> QED
    BY <2>1
<1>4. CASE BatchEdit(t)
  BY <1>1, <1>3, <1>4, Programs, OneBatch DEF BatchEdit
<1>5. CASE BatchDelete(t)
  BY <1>1, <1>3, <1>5, Programs, OneBatch DEF BatchDelete
<1>6. CASE BatchShare(t)
  <2>1. PICK x \in Targets : Batch(t, <<"prep", "post">>, [NoTask EXCEPT !.us = x.us, !.gs = x.gs])
    BY <1>6 DEF BatchShare
  <2> QED
    BY <1>2, <2>1, Programs, OneBatch
<1>7. CASE BatchSetCap(t)
  <2>1. PICK x \in Targets :
          Batch(t, <<"prep", "post">>, [NoTask EXCEPT !.us = x.us, !.gs = x.gs, !.direct = FALSE])
    BY <1>7 DEF BatchSetCap
  <2> QED
    BY <1>2, <2>1, Programs, OneBatch
<1>8. CASE BatchUnshare(t)
  <2>1. PICK x \in Targets : Batch(t, <<"unshare">>, [NoTask EXCEPT !.us = x.us, !.gs = x.gs])
    BY <1>8 DEF BatchUnshare
  <2> QED
    BY <1>2, <1>3, <2>1, Programs, OneBatch
<1> QED
  BY <1>4, <1>5, <1>6, <1>7, <1>8

LEMMA ClickGood ==
  ASSUME Good, NEW t \in Slots, Click(t) PROVE Good'
BY LoadClicksGood, PanelClicksGood, SaveGood, BatchesGood DEF Click

-----------------------------------------------------------------------------
(* The steps that read.                                                    *)

\* Only some steps find what an earlier one left.
LEMMA NothingHeld ==
  ASSUME Good, NEW t \in Slots, NEW step, At(t, step),
         step \notin {"put", "prep", "post", "rotate", "batchedit", "unshare", "kill"}
  PROVE  tasks[t].got = {}
<1>1. Holds(tasks[t], srv, drawn) /\ Head(tasks[t].todo) = step
  BY TaskFacts
<1> QED
  BY <1>1 DEF Holds

LEMMA GoesOn ==
  ASSUME Good, NEW t \in Slots, NEW step, At(t, step), StoreStep, ScreenOK(ui', srv, drawn),
         NEW k \in Tasks(drawn), Goes(t, k), k.todo = tasks[t].todo, k.prev = tasks[t].prev,
         k.got = {}
  PROVE  Good'
<1>1. Holds(tasks[t], srv, drawn) /\ tasks[t].todo # <<>>
  BY TaskFacts
<1>2. Handed(k)
  BY <1>1 DEF Holds, Handed
<1> QED
  BY <1>1, <1>2, GoesGood

\* The same handler goes on, unless it still has something to post.
LEMMA SameGoesOn ==
  ASSUME Good, NEW t \in Slots, NEW step, At(t, step), StoreStep, ScreenOK(ui', srv, drawn),
         Goes(t, tasks[t]),
         \/ step \notin {"put", "prep", "post", "rotate", "batchedit", "unshare", "kill"}
         \/ tasks[t].got = {}
  PROVE  Good'
<1>1. tasks[t].got = {} /\ tasks[t] \in Tasks(drawn)
  BY NothingHeld, TaskFacts
<1> QED
  BY <1>1, GoesOn

LEMMA LoadStepsGood ==
  ASSUME Good, NEW t \in Slots, Reset(t) \/ Page(t) PROVE Good'
<1>0. /\ Server /\ ScreenOK(ui, srv, drawn) /\ StoreStep /\ tasks[t] \in Tasks(drawn)
      /\ Known(ui.cur, srv, drawn) /\ ui \in Screens(drawn) /\ ui.rows \in Seq(Row(drawn))
  BY StoreUnchanged, TaskFacts, ScreenFacts DEF Reset, Page
<1>1. Len(ui.rows) \in Nat /\ PageSize \in Nat
  BY <1>0, LenProperties, WebVaultAssumption
<1>2. CASE Reset(t)
  <2> DEFINE w == IF Len(ui.rows) > PageSize THEN Len(ui.rows) ELSE PageSize
             k == [tasks[t] EXCEPT !.from = 0, !.want = w]
  <2>1. Goes(t, k) /\ At(t, "reset") /\ ui' = [ui EXCEPT !.rows = <<>>]
    BY <1>2 DEF Reset
  <2>2. w \in Nat
    BY <1>1
  <2> HIDE DEF w
  <2>3. k \in Tasks(drawn) /\ k.todo = tasks[t].todo /\ k.prev = tasks[t].prev /\ k.got = {}
    BY <1>0, <2>1, <2>2, NothingHeld DEF Tasks
  <2> HIDE DEF k
  <2>6. <<>> \in Seq(Row(drawn)) /\ DOMAIN <<>> = {}
    OBVIOUS
  <2>4. ui' \in Screens(drawn) /\ ui'.rows = <<>> /\ ui'.cur = ui.cur
    BY <1>0, <2>1, <2>6 DEF Screens
  <2>5. ScreenOK(ui', srv, drawn)
    BY <1>0, <2>4, <2>6 DEF ScreenOK
  <2> QED
    BY <1>0, <2>1, <2>3, <2>5, GoesOn
<1>3. CASE Page(t)
  <2> DEFINE p == PageFrom(tasks[t].from)
             rows == ui.rows \o p
             n == Len(ui'.rows)
  <2>1. At(t, "page") /\ ui' = [ui EXCEPT !.total = Len(list), !.rows = rows]
    BY <1>3 DEF Page
  <2>2. tasks[t].from \in Nat
    BY <1>0 DEF Tasks
  <2>3. /\ p \in Seq(Row(drawn)) /\ Len(list) \in 0 .. Cardinality(Secrets)
        /\ \A j \in 1 .. Len(p) : Dated(p[j], srv)
    <3>1. /\ p \in Seq(Row(drawn))
          /\ \A j \in 1 .. Len(p) :
               tasks[t].from + j \in 1 .. Len(list) /\ p[j] = Listed[tasks[t].from + j]
      BY <1>0, <2>2, PageRows
    <3>2. /\ Len(list) \in 0 .. Cardinality(Secrets)
          /\ \A i \in 1 .. Len(list) : Dated(Listed[i], srv)
      BY <1>0, ListedRows
    <3> HIDE DEF p
    <3> QED
      BY <3>1, <3>2
  <2> HIDE DEF p
  <2>4. /\ rows \in Seq(Row(drawn)) /\ Len(rows) = Len(ui.rows) + Len(p)
        /\ \A j \in 1 .. Len(rows) :
             rows[j] = IF j <= Len(ui.rows) THEN ui.rows[j] ELSE p[j - Len(ui.rows)]
    <3>1. ui.rows \in Seq(Row(drawn)) /\ p \in Seq(Row(drawn))
      BY <1>0, <2>3
    <3>2. rows \in Seq(Row(drawn)) /\ Len(rows) = Len(ui.rows) + Len(p)
      BY <3>1
    <3>3. \A j \in 1 .. Len(ui.rows) + Len(p) :
            rows[j] = IF j <= Len(ui.rows) THEN ui.rows[j] ELSE p[j - Len(ui.rows)]
      BY <3>1, ConcatProperties
    <3> HIDE DEF rows
    <3> QED
      BY <3>2, <3>3
  <2>5. DOMAIN rows = 1 .. Len(rows) /\ Len(p) \in Nat /\ DOMAIN ui.rows = 1 .. Len(ui.rows)
    BY <1>0, <2>3, <2>4, LenProperties
  <2> HIDE DEF rows
  <2>6. \A j \in DOMAIN rows : Dated(rows[j], srv)
    <3> SUFFICES ASSUME NEW j \in 1 .. Len(rows) PROVE Dated(rows[j], srv)
      BY <2>5
    <3>1. CASE j <= Len(ui.rows)
      <4>1. rows[j] = ui.rows[j] /\ j \in DOMAIN ui.rows
        BY <1>1, <2>4, <2>5, <3>1
      <4>2. Dated(ui.rows[j], srv)
        BY <1>0, <4>1 DEF ScreenOK
      <4> QED
        BY <4>1, <4>2
    <3>2. CASE ~(j <= Len(ui.rows))
      <4>1. j - Len(ui.rows) \in 1 .. Len(p) /\ rows[j] = p[j - Len(ui.rows)]
        BY <1>1, <2>4, <2>5, <3>2
      <4> QED
        BY <2>3, <4>1
    <3> QED
      BY <3>1, <3>2
  <2>7. ui' \in Screens(drawn) /\ ui'.rows = rows /\ ui'.cur = ui.cur
    BY <1>0, <2>1, <2>3, <2>4 DEF Screens
  <2>8. ScreenOK(ui', srv, drawn)
    BY <1>0, <2>6, <2>7 DEF ScreenOK
  <2>9. n \in Nat
    BY <2>4, <2>5, <2>7
  <2>10. CASE Goes(t, tasks[t])
    BY <1>0, <2>1, <2>8, <2>10, SameGoesOn
  <2>11. CASE Stays(t, [tasks[t] EXCEPT !.from = n])
    <3> DEFINE k == [tasks[t] EXCEPT !.from = n]
    <3> HIDE DEF n
    <3>1. k \in Tasks(drawn) /\ k.todo = tasks[t].todo /\ k.prev = tasks[t].prev
          /\ k.got = tasks[t].got /\ Stays(t, k)
      BY <1>0, <2>9, <2>11 DEF Tasks
    <3> HIDE DEF k
    <3>2. tasks[t].todo # <<>>
      BY <2>1, TaskFacts
    <3> QED
      BY <1>0, <2>8, <3>1, <3>2, StaysGood
  <2> QED
    BY <1>3, <2>10, <2>11 DEF Page
<1> QED
  BY <1>2, <1>3

LEMMA ReadStepsGood ==
  ASSUME Good, NEW t \in Slots, \/ Open(t) \/ RenderAccess(t) \/ ShowEditor(t) \/ Free(t)
  PROVE  Good'
<1>0. /\ Server /\ ScreenOK(ui, srv, drawn) /\ tasks[t] \in Tasks(drawn)
      /\ Known(ui.cur, srv, drawn) /\ ui \in Screens(drawn) /\ ui.body \in Secrets \cup {None}
      /\ ToSet(list) \subseteq Secrets
  BY TaskFacts, ScreenFacts, StoredTypes
<1>1. CASE Fails(t)
  BY <1>1, FailsGood
<1>2. \A s : There(s) => s \in Secrets /\ Known(Det(s), srv, drawn) /\ Det(s).of \in Secrets \cup {None}
  BY <1>0, DetKnown DEF There, Answers
<1>3. CASE Open(t) /\ ~Fails(t)
  <2> DEFINE d == Det(tasks[t].id)
  <2>1. /\ There(tasks[t].id) /\ UNCHANGED store /\ At(t, "open")
        /\ ui' = [ui EXCEPT !.cur = d, !.body = IF d.of = None THEN @ ELSE d.of]
        /\ Goes(t, tasks[t]) \/ tasks' = [tasks EXCEPT ![t] = NoTask]
    BY <1>3 DEF Open
  <2>2. Known(d, srv, drawn) /\ d.of \in Secrets \cup {None}
    BY <1>2, <2>1
  <2> HIDE DEF d
  <2>3. ui' \in Screens(drawn) /\ ui'.rows = ui.rows /\ ui'.cur = d
    BY <1>0, <2>1, <2>2 DEF Screens, Known
  <2>4. StoreStep /\ ScreenOK(ui', srv, drawn)
    BY <1>0, <2>1, <2>2, <2>3, ScreenWith, StoreUnchanged
  <2> QED
    BY <2>1, <2>4, SameGoesOn, EndsGood
<1>4. CASE RenderAccess(t) /\ ~Fails(t)
  <2>1. /\ There(tasks[t].id) /\ UNCHANGED store /\ At(t, "access") /\ Goes(t, tasks[t])
        /\ ui' = [ui EXCEPT !.access = Access(tasks[t].id)]
    BY <1>4 DEF RenderAccess
  <2>2. srv[tasks[t].id] \in Stored(drawn)
    BY <1>0, <1>2, <2>1, StoredTypes
  <2>3. Access(tasks[t].id) \in Accesses
    BY <2>2 DEF Access, Accesses, Stored
  <2>4. ui' \in Screens(drawn) /\ ui'.rows = ui.rows /\ ui'.cur = ui.cur
    BY <1>0, <2>1, <2>3 DEF Screens
  <2>5. StoreStep /\ ScreenOK(ui', srv, drawn)
    BY <1>0, <2>1, <2>4, ScreenWith, StoreUnchanged
  <2> QED
    BY <2>1, <2>5, SameGoesOn
<1>5. CASE ShowEditor(t) /\ ~Fails(t)
  <2> DEFINE d == Det(tasks[t].id)
  <2>1. /\ There(tasks[t].id) /\ UNCHANGED store /\ At(t, "edit") /\ Goes(t, tasks[t])
        /\ ui' = [ui EXCEPT !.cur = d, !.editor = TRUE]
    BY <1>5 DEF ShowEditor
  <2>2. Known(d, srv, drawn)
    BY <1>2, <2>1
  <2> HIDE DEF d
  <2>3. ui' \in Screens(drawn) /\ ui'.rows = ui.rows /\ ui'.cur = d
    BY <1>0, <2>1, <2>2 DEF Screens, Known
  <2>4. StoreStep /\ ScreenOK(ui', srv, drawn)
    BY <1>0, <2>1, <2>2, <2>3, ScreenWith, StoreUnchanged
  <2> QED
    BY <2>1, <2>4, SameGoesOn
<1>6. CASE Free(t)
  <2>1. UNCHANGED store /\ At(t, "free") /\ Goes(t, tasks[t]) /\ ui' = [ui EXCEPT !.busy = FALSE]
    BY <1>6 DEF Free
  <2>2. ui' \in Screens(drawn) /\ ui'.rows = ui.rows /\ ui'.cur = ui.cur
    BY <1>0, <2>1 DEF Screens
  <2>3. StoreStep /\ ScreenOK(ui', srv, drawn)
    BY <1>0, <2>1, <2>2, ScreenWith, StoreUnchanged
  <2> QED
    BY <2>1, <2>3, SameGoesOn
<1> QED
  BY <1>1, <1>3, <1>4, <1>5, <1>6

LEMMA CurrentStepsGood ==
  ASSUME Good, NEW t \in Slots, OpenAgain(t) \/ BorrowCurrent(t) \/ GiveBack(t)
  PROVE  Good'
<1>0. /\ Server /\ ScreenOK(ui, srv, drawn) /\ tasks[t] \in Tasks(drawn)
      /\ Known(ui.cur, srv, drawn) /\ ui \in Screens(drawn) /\ ui.cur.id \in Secrets \cup {None}
      /\ ToSet(list) \subseteq Secrets /\ ui.access \in Accesses
  BY TaskFacts, ScreenFacts, StoredTypes
<1>1. CASE Fails(t)
  BY <1>1, FailsGood
<1>2. CASE OpenAgain(t) /\ ~Fails(t)
  <2> DEFINE k == [tasks[t] EXCEPT !.id = ui.cur.id]
  <2>1. /\ UNCHANGED store /\ At(t, "again") /\ Goes(t, k)
        /\ ui' = [ui EXCEPT !.panel = TRUE, !.form = None]
    BY <1>2 DEF OpenAgain
  <2>2. k \in Tasks(drawn) /\ k.todo = tasks[t].todo /\ k.prev = tasks[t].prev /\ k.got = {}
    BY <1>0, <2>1, NothingHeld DEF Tasks
  <2> HIDE DEF k
  <2>3. ui' \in Screens(drawn) /\ ui'.rows = ui.rows /\ ui'.cur = ui.cur
    BY <1>0, <2>1 DEF Screens
  <2>4. StoreStep /\ ScreenOK(ui', srv, drawn)
    BY <1>0, <2>1, <2>3, ScreenWith, StoreUnchanged
  <2> QED
    BY <2>1, <2>2, <2>4, GoesOn
<1>3. CASE BorrowCurrent(t) /\ ~Fails(t)
  <2> DEFINE d == Det(tasks[t].id)
             k == [tasks[t] EXCEPT !.acc = ui.access]
  <2>1. /\ There(tasks[t].id) /\ UNCHANGED store /\ At(t, "det") /\ Goes(t, k)
        /\ ui' = [ui EXCEPT !.cur = d, !.busy = TRUE]
    BY <1>3 DEF BorrowCurrent
  <2>2. k \in Tasks(drawn) /\ k.todo = tasks[t].todo /\ k.prev = tasks[t].prev /\ k.got = {}
    BY <1>0, <2>1, NothingHeld DEF Tasks
  <2> HIDE DEF k
  <2>3. Known(d, srv, drawn)
    BY <1>0, <2>1, DetKnown DEF There
  <2> HIDE DEF d
  <2>4. ui' \in Screens(drawn) /\ ui'.rows = ui.rows /\ ui'.cur = d
    BY <1>0, <2>1, <2>3 DEF Screens, Known
  <2>5. StoreStep /\ ScreenOK(ui', srv, drawn)
    BY <1>0, <2>1, <2>3, <2>4, ScreenWith, StoreUnchanged
  <2> QED
    BY <2>1, <2>2, <2>5, GoesOn
<1>4. CASE GiveBack(t)
  <2> DEFINE d == tasks[t].prev[1]
             b == tasks[t].prev[2]
             k == [tasks[t] EXCEPT !.prev = <<>>]
  <2>1. /\ UNCHANGED store /\ At(t, "back") /\ Goes(t, k)
        /\ ui' = [ui EXCEPT !.cur = d, !.busy = b]
    BY <1>4 DEF GiveBack
  <2>2. /\ Holds(tasks[t], srv, drawn) /\ tasks[t].todo \in Seq(Steps) /\ tasks[t].todo # <<>>
        /\ Head(tasks[t].todo) = "back"
    BY <2>1, TaskFacts
  <2>3. HasBack(tasks[t].todo)
    <3>1. Len(tasks[t].todo) \in Nat /\ Len(tasks[t].todo) # 0
      BY <2>2, LenProperties, EmptySeq
    <3>2. 1 \in 1 .. Len(tasks[t].todo) /\ tasks[t].todo[1] = "back"
      BY <2>2, <3>1, HeadIsFirst
    <3> QED
      BY <3>2 DEF HasBack
  <2>4. tasks[t].prev \in Answers(drawn) \X BOOLEAN /\ Dated(d, srv)
    BY <1>0, <2>2, <2>3 DEF Tasks, Holds
  <2>5. Known(d, srv, drawn) /\ b \in BOOLEAN
    BY <2>4 DEF Known
  <2>6. k \in Tasks(drawn) /\ k.todo = tasks[t].todo /\ k.prev = <<>> /\ k.got = {}
    BY <1>0, <2>1, NothingHeld DEF Tasks
  <2> HIDE DEF k, d, b
  <2>7. ui' \in Screens(drawn) /\ ui'.rows = ui.rows /\ ui'.cur = d
    BY <1>0, <2>1, <2>5 DEF Screens, Known
  <2>8. StoreStep /\ ScreenOK(ui', srv, drawn)
    BY <1>0, <2>1, <2>5, <2>7, ScreenWith, StoreUnchanged
  <2>9. Handed(k)
    BY <2>2, <2>6 DEF Handed
  <2> QED
    BY <2>1, <2>2, <2>6, <2>8, <2>9, GoesGood
<1> QED
  BY <1>1, <1>2, <1>3, <1>4 DEF OpenAgain, BorrowCurrent

\* The secret read again; without a panel its access is not drawn.
LEMMA RegetGood ==
  ASSUME Good, NEW t \in Slots, Reget(t) PROVE Good'
<1>0. /\ Server /\ ScreenOK(ui, srv, drawn) /\ tasks[t] \in Tasks(drawn)
      /\ ui \in Screens(drawn) /\ ToSet(list) \subseteq Secrets
      /\ Ordered(tasks[t].todo) /\ Holds(tasks[t], srv, drawn) /\ tasks[t].todo \in Seq(Steps)
      /\ tasks[t].todo # <<>> /\ Head(tasks[t].todo) = "reget"
  BY TaskFacts, ScreenFacts, StoredTypes DEF Reget
<1>1. CASE Fails(t)
  BY <1>1, FailsGood
<1>2. CASE ~Fails(t)
  <2> DEFINE d == Det(tasks[t].id)
             p == tasks[t].todo
             f == Tail(p)
             q == IF ui.panel \/ ui.editor THEN f ELSE Tail(f)
             k == [tasks[t] EXCEPT !.todo = q]
  <2>1. /\ There(tasks[t].id) /\ UNCHANGED store /\ Stays(t, k) /\ At(t, "reget")
        /\ ui' = [ui EXCEPT !.cur = d]
    BY <1>2 DEF Reget
  <2>2. Known(d, srv, drawn)
    BY <1>0, <2>1, DetKnown DEF There
  <2>3. tasks[t].got = {}
    BY <2>1, NothingHeld
  <2> HIDE DEF d, p
  <2>4. Len(p) > 1 /\ Len(p) \in Nat /\ f \in Seq(Steps) /\ f # <<>> /\ Len(f) = Len(p) - 1
    <3>1. Len(p) \in Nat /\ Len(p) # 0 /\ p \in Seq(Steps)
      BY <1>0, LenProperties, EmptySeq DEF p
    <3>2. 1 \in 1 .. Len(p) /\ p[1] = "reget"
      BY <1>0, <3>1, HeadIsFirst DEF p
    <3>3. 1 < Len(p)
      BY <1>0, <3>2 DEF Ordered, p
    <3> QED
      BY <3>1, <3>3
  <2>5. /\ Ordered(f) /\ (HasBack(f) => HasBack(p))
        /\ Head(f) = "access"
    BY <1>0, <2>4, NextStep DEF p
  <2> HIDE DEF f
  <2>6. q \in Seq(Steps) /\ Ordered(q) /\ (HasBack(q) => HasBack(p))
        /\ (q # <<>> => Head(q) \notin {"put", "prep", "post", "rotate", "batchedit", "unshare", "kill"})
    <3>1. CASE ui.panel \/ ui.editor
      BY <2>4, <2>5, <3>1
    <3>2. CASE ~(ui.panel \/ ui.editor) /\ Tail(f) = <<>>
      <4>1. q = <<>> /\ <<>> \in Seq(Steps) /\ Len(<<>>) = 0
        BY <3>2
      <4>2. Ordered(<<>>) /\ ~HasBack(<<>>)
        BY <4>1 DEF Ordered, HasBack
      <4> QED
        BY <4>1, <4>2
    <3>3. CASE ~(ui.panel \/ ui.editor) /\ Tail(f) # <<>>
      BY <2>4, <2>5, <3>3, NextStep
    <3> QED
      BY <3>1, <3>2, <3>3
  <2> HIDE DEF q
  <2>7. k \in Tasks(drawn) /\ k.todo = q /\ k.got = {} /\ k.prev = tasks[t].prev
    BY <1>0, <2>3, <2>6 DEF Tasks
  <2>8. Stays(t, k)
    BY <2>1 DEF q, f, p
  <2> HIDE DEF k
  <2>9. TaskOK(k, srv, drawn)
    BY <1>0, <2>6, <2>7 DEF TaskOK, Holds, p
  <2>10. ui' \in Screens(drawn) /\ ui'.rows = ui.rows /\ ui'.cur = d
    BY <1>0, <2>1, <2>2 DEF Screens, Known
  <2>11. StoreStep /\ ScreenOK(ui', srv, drawn)
    BY <1>0, <2>1, <2>2, <2>10, ScreenWith, StoreUnchanged
  <2> QED
    BY <2>8, <2>9, <2>11, TaskStep DEF Stays
<1> QED
  BY <1>1, <1>2

\* The members of groups are users.
LEMMA MembersAreUsers ==
  ASSUME Server, NEW gs \in SUBSET Groups PROVE MembersOf(gs) \in SUBSET Users
BY DEF Server, MembersOf

LEMMA EndsOfBatchesGood ==
  ASSUME Good, NEW t \in Slots, EndBatch(t) \/ EndDelete(t) PROVE Good'
<1>0. /\ Server /\ ScreenOK(ui, srv, drawn) /\ tasks[t] \in Tasks(drawn) /\ StoreStep
  BY TaskFacts, StoreUnchanged DEF EndBatch, EndDelete
<1>1. CASE EndBatch(t)
  <2>1. ui' = ui /\ Goes(t, tasks[t]) /\ tasks[t].got = {} /\ \E step : At(t, step)
    BY <1>1 DEF EndBatch
  <2> QED
    BY <1>0, <2>1, SameGoesOn
<1>2. CASE EndDelete(t)
  <2> DEFINE k == [tasks[t] EXCEPT !.got = {}]
  <2>1. At(t, "kill") /\ Goes(t, k) /\ ui' \in {ui, ClosePanel}
    BY <1>2 DEF EndDelete
  <2>2. k \in Tasks(drawn) /\ k.todo = tasks[t].todo /\ k.prev = tasks[t].prev /\ k.got = {}
    BY <1>0 DEF Tasks
  <2> HIDE DEF k
  <2>3. ScreenOK(ui', srv, drawn)
    BY <1>0, <2>1, ClosedScreen
  <2> QED
    BY <1>0, <2>1, <2>2, <2>3, GoesOn
<1> QED
  BY <1>1, <1>2

\* What is to be rotated is the secret that is current, for those who keep it.
LEMMA MembersGood ==
  ASSUME Good, NEW t \in Slots, Members(t) PROVE Good'
<1> DEFINE k == tasks[t]
           s == ui.cur.id
           acc == IF k.acc # None THEN k.acc ELSE Access(s)
           keep == (IF k.direct THEN acc.users \ k.us ELSE acc.users)
                   \cup MembersOf(acc.groups \ k.gs)
           r == [d |-> ui.cur, to |-> keep]
           x == [k EXCEPT !.got = {r}]
<1>0. /\ Server /\ ScreenOK(ui, srv, drawn) /\ k \in Tasks(drawn) /\ Holds(k, srv, drawn)
      /\ k.todo # <<>> /\ Head(k.todo) = "members" /\ ui.cur \in Answers(drawn)
      /\ ToSet(list) \subseteq Secrets
  BY TaskFacts, ScreenFacts, StoredTypes DEF Members
<1>1. CASE Fails(t)
  BY <1>1, FailsGood
<1>2. CASE ~Fails(t)
  <2>1. /\ ui.cur.of # None /\ (k.acc # None \/ There(s)) /\ Goes(t, x) /\ UNCHANGED <<store, ui>>
    BY <1>2 DEF Members
  <2>2. k.acc \in Accesses
    BY <1>0 DEF Tasks
  <2>3. acc \in [users : SUBSET Users, groups : SUBSET Groups]
    <3>1. CASE k.acc # None
      BY <2>2, <3>1 DEF Accesses
    <3>2. CASE k.acc = None
      <4>1. srv[s] \in Stored(drawn)
        BY <1>0, <2>1, <3>2, StoredTypes DEF There
      <4> QED
        BY <3>2, <4>1 DEF Access, Stored
    <3> QED
      BY <3>1, <3>2
  <2> HIDE DEF acc
  <2>4. acc.users \in SUBSET Users /\ (acc.groups \ k.gs) \in SUBSET Groups
    BY <2>3
  <2>5. keep \in SUBSET Users
    BY <1>0, <2>4, MembersAreUsers
  <2> HIDE DEF keep
  <2>6. r \in Rotations(drawn) /\ r.d = ui.cur
    BY <1>0, <2>5 DEF Rotations
  <2> HIDE DEF r
  <2>7. x \in Tasks(drawn) /\ x.todo = k.todo /\ x.prev = k.prev /\ x.got = {r}
    BY <1>0, <2>6 DEF Tasks
  <2> HIDE DEF x
  <2>8. Handed(x)
    BY <1>0, <2>1, <2>6, <2>7 DEF Handed, Holds
  <2>9. StoreStep /\ ScreenOK(ui', srv, drawn)
    BY <1>0, <2>1, StoreUnchanged
  <2> QED
    BY <1>0, <2>1, <2>7, <2>8, <2>9, GoesGood
<1> QED
  BY <1>1, <1>2

LEMMA PrepareGood ==
  ASSUME Good, NEW t \in Slots, Prepare(t) PROVE Good'
<1> DEFINE k == tasks[t]
           to == k.us \cup MembersOf(k.gs)
           x == [k EXCEPT !.us = to, !.ids = {}]
<1>0. /\ Server /\ ScreenOK(ui, srv, drawn) /\ k \in Tasks(drawn) /\ Holds(k, srv, drawn)
      /\ k.todo # <<>> /\ Head(k.todo) = "prep"
  BY TaskFacts DEF Prepare
<1>1. CASE Fails(t)
  BY <1>1, FailsGood
<1>2. CASE ~Fails(t)
  <2>1. Goes(t, x) /\ UNCHANGED <<store, ui>>
    BY <1>2 DEF Prepare
  <2>2. k.us \in SUBSET Users /\ k.gs \in SUBSET Groups
    BY <1>0 DEF Tasks
  <2>3. to \in SUBSET Users
    BY <1>0, <2>2, MembersAreUsers
  <2> HIDE DEF to
  <2>4. x \in Tasks(drawn) /\ x.todo = k.todo /\ x.prev = k.prev /\ x.got = k.got
    BY <1>0, <2>3 DEF Tasks
  <2> HIDE DEF x
  <2>5. Handed(x)
    BY <1>0, <2>4 DEF Handed, Holds
  <2>6. StoreStep /\ ScreenOK(ui', srv, drawn)
    BY <1>0, <2>1, StoreUnchanged
  <2> QED
    BY <1>0, <2>1, <2>4, <2>5, <2>6, GoesGood
<1> QED
  BY <1>1, <1>2

\* The next rotation after a member was removed: the current secret is kept.
LEMMA NextRotationGood ==
  ASSUME Good, NEW t \in Slots, NextRotation(t) PROVE Good'
<1> DEFINE k == tasks[t]
<1>0. /\ Server /\ ScreenOK(ui', srv, drawn) /\ StoreStep /\ k \in Tasks(drawn) /\ At(t, "next")
      /\ ui.cur \in Answers(drawn) /\ Dated(ui.cur, srv) /\ ui.busy \in BOOLEAN
  BY TaskFacts, ScreenFacts, StoreUnchanged DEF NextRotation, Known
<1>1. CASE k.ids = {}
  BY <1>0, <1>1, SameGoesOn DEF NextRotation
<1>2. CASE k.ids # {}
  <2> DEFINE p == <<"det", "members", "rotate">> \o After \o <<"back", "next">>
             b == <<ui.cur, ui.busy>>
  <2>1. PICK s \in k.ids :
          Stays(t, [k EXCEPT !.id = s, !.ids = @ \ {s}, !.prev = b, !.todo = p])
    BY <1>2 DEF NextRotation
  <2> DEFINE x == [k EXCEPT !.id = s, !.ids = @ \ {s}, !.prev = b, !.todo = p]
  <2>2. Stays(t, x)
    BY <2>1
  <2>3. p \in Seq(Steps) /\ Ordered(p) /\ p # <<>> /\ Head(p) = "det"
    BY RotationProgram DEF Piece
  <2> HIDE DEF p
  <2>4. b \in Answers(drawn) \X BOOLEAN /\ b[1] = ui.cur /\ b # <<>>
    BY <1>0
  <2> HIDE DEF b
  <2>5. k.got = {}
    BY <1>0, NothingHeld
  <2>6. s \in Secrets
    BY <1>0 DEF Tasks
  <2>7. x \in Tasks(drawn) /\ x.todo = p /\ x.got = {} /\ x.prev = b
    BY <1>0, <2>3, <2>4, <2>5, <2>6 DEF Tasks
  <2> HIDE DEF x
  <2>8. TaskOK(x, srv, drawn)
    BY <1>0, <2>3, <2>4, <2>7 DEF TaskOK, Holds
  <2> QED
    BY <1>0, <2>2, <2>8, TaskStep DEF Stays
<1> QED
  BY <1>1, <1>2

-----------------------------------------------------------------------------
(* The steps that write.                                                   *)

\* A version that follows one the server knew.
LEMMA NextVersion ==
  ASSUME Server, NEW kv \in Versions(drawn)
  PROVE  NewVersion(kv) \in Versions(drawn + 1)
<1>1. drawn \in Nat /\ First \in Nat /\ First <= drawn
  BY StoredTypes
<1> QED
  BY <1>1 DEF NewVersion, Versions

\* A rotation posted for an answer, and a change with the key of an answer.
LEMMA RotationAccepted ==
  ASSUME Good, NEW x \in Rotations(drawn), x.d.of # None, NEW s \in Secrets, There(s),
         NewVersion(x.d.kv) > srv[s].kv, NEW us, NEW gs,
         Rotate(s, NewVersion(x.d.kv), x.d.of, x.to, us, gs)
  PROVE  StoreStep
<1>1. Server /\ Agree(srv)
  BY DEF Good
<1>2. x.d \in Answers(drawn)
  BY DEF Rotations
<1>3. x.d.kv \in Versions(drawn) /\ x.d.of \in Secrets
  BY <1>2 DEF Answers
<1>4. NewVersion(x.d.kv) \in Versions(drawn + 1)
  BY <1>1, <1>3, NextVersion
<1> QED
  BY <1>1, <1>3, <1>4, RotateStep

LEMMA ShareAccepted ==
  ASSUME Good, NEW d, Known(d, srv, drawn), NEW to, Accepts(d.id, d.kv, to),
         NEW us \in SUBSET Users, NEW gs \in SUBSET Groups, Share(d.id, d.key, to, us, gs)
  PROVE  StoreStep
<1>1. Server /\ Agree(srv)
  BY DEF Good
<1>2. There(d.id) /\ d.kv = srv[d.id].kv /\ d.id \in Secrets
  BY <1>1, StoredTypes DEF Accepts, There
<1>3. d.key = srv[d.id].mine
  BY <1>2 DEF Known, Dated
<1> QED
  BY <1>1, <1>2, <1>3, ShareStep

LEMMA PutAccepted ==
  ASSUME Good, NEW d \in Answers(drawn), d.of # None, NEW s, There(s), Put(s, d.key, d.of)
  PROVE  StoreStep
<1>1. Server /\ Agree(srv) /\ ToSet(list) \subseteq Secrets
  BY StoredTypes DEF Good
<1>2. s \in Secrets /\ d.key \in 0 .. drawn /\ d.of \in Secrets
  BY <1>1 DEF There, Answers
<1> QED
  BY <1>1, <1>2, PutStep

LEMMA PutFormGood ==
  ASSUME Good, NEW t \in Slots, PutForm(t) PROVE Good'
<1>0. /\ Server /\ ScreenOK(ui, srv, drawn) /\ tasks[t] \in Tasks(drawn)
      /\ Holds(tasks[t], srv, drawn) /\ At(t, "put") /\ tasks[t].todo # <<>>
      /\ Head(tasks[t].todo) = "put" /\ ui \in Screens(drawn) /\ Known(ui.cur, srv, drawn)
  BY TaskFacts, ScreenFacts DEF PutForm
<1>1. CASE tasks' = [tasks EXCEPT ![t] = NoTask] /\ UNCHANGED <<store, ui>>
  BY <1>0, <1>1, StoreUnchanged, EndsGood
<1>2. ASSUME NEW d \in tasks[t].got, Accepts(ui.cur.id, d.kv, {}), Put(ui.cur.id, d.key, d.of),
             ui' = [ui EXCEPT !.form = None], Goes(t, [tasks[t] EXCEPT !.got = {}])
      PROVE  Good'
  <2> DEFINE k == [tasks[t] EXCEPT !.got = {}]
  <2>1. d \in Answers(drawn) /\ d.of # None
    BY <1>0 DEF Holds, Known
  <2>2. There(ui.cur.id)
    BY <1>2 DEF Accepts
  <2>3. StoreStep
    BY <1>2, <2>1, <2>2, PutAccepted
  <2>4. ui' \in Screens(drawn) /\ ui'.rows = ui.rows /\ ui'.cur = ui.cur
    BY <1>0, <1>2 DEF Screens
  <2>5. ScreenOK(ui', srv, drawn)
    BY <1>0, <2>4, ScreenWith
  <2>6. k \in Tasks(drawn) /\ k.todo = tasks[t].todo /\ k.prev = tasks[t].prev /\ k.got = {}
    BY <1>0 DEF Tasks
  <2>7. Goes(t, k)
    BY <1>2
  <2> HIDE DEF k
  <2> QED
    BY <1>0, <2>3, <2>5, <2>6, <2>7, GoesOn
<1> QED
  BY <1>1, <1>2 DEF PutForm

LEMMA PostShareGood ==
  ASSUME Good, NEW t \in Slots, PostShare(t) PROVE Good'
<1> DEFINE k == tasks[t]
           to == k.us \cup MembersOf(k.gs)
           s == SecretNow(t)
           x == [k EXCEPT !.id = s]
<1>0. /\ ScreenOK(ui, srv, drawn) /\ k \in Tasks(drawn) /\ At(t, "share")
      /\ Known(ui.cur, srv, drawn) /\ s = ui.cur.id /\ s \in Secrets \cup {None}
  BY TaskFacts, ScreenFacts DEF PostShare, SecretNow
<1>1. CASE Fails(t)
  BY <1>1, FailsGood
<1>2. CASE ~Fails(t)
  <2>1. /\ Accepts(s, ui.cur.kv, to) /\ Share(s, ui.cur.key, to, k.us, k.gs) /\ ui' = ui /\ Goes(t, x)
    BY <1>2 DEF PostShare
  <2>2. k.us \in SUBSET Users /\ k.gs \in SUBSET Groups
    BY <1>0 DEF Tasks
  <2>3. k.got = {}
    BY <1>0, NothingHeld
  <2> HIDE DEF to, s
  <2>4. StoreStep
    BY <1>0, <2>1, <2>2, ShareAccepted
  <2>5. x \in Tasks(drawn) /\ x.todo = k.todo /\ x.prev = k.prev /\ x.got = {}
    BY <1>0, <2>3 DEF Tasks
  <2>6. ScreenOK(ui', srv, drawn)
    BY <1>0, <2>1
  <2> HIDE DEF x
  <2> QED
    BY <1>0, <2>1, <2>4, <2>5, <2>6, GoesOn
<1> QED
  BY <1>1, <1>2

LEMMA PostRotateGood ==
  ASSUME Good, NEW t \in Slots, PostRotate(t) PROVE Good'
<1> DEFINE k == tasks[t]
           s == ui.cur.id
<1>0. /\ Server /\ ScreenOK(ui, srv, drawn) /\ k \in Tasks(drawn) /\ Holds(k, srv, drawn)
      /\ k.todo # <<>> /\ Head(k.todo) = "rotate" /\ At(t, "rotate") /\ ToSet(list) \subseteq Secrets
  BY TaskFacts, StoredTypes DEF PostRotate
<1>1. CASE Fails(t)
  BY <1>1, FailsGood
<1>2. CASE ~Fails(t)
  <2>1. PICK x \in k.got :
          /\ There(s) /\ NewVersion(x.d.kv) > srv[s].kv /\ ui' = ui
          /\ Rotate(s, NewVersion(x.d.kv), x.d.of, x.to, IF k.direct THEN k.us ELSE {}, k.gs)
          /\ Goes(t, [k EXCEPT !.id = s, !.got = {}])
    BY <1>2 DEF PostRotate
  <2> DEFINE y == [k EXCEPT !.id = s, !.got = {}]
  <2>2. x \in Rotations(drawn) /\ x.d.of # None
    BY <1>0 DEF Holds
  <2>3. s \in Secrets
    BY <1>0, <2>1 DEF There
  <2>4. StoreStep
    BY <2>1, <2>2, <2>3, RotationAccepted
  <2>5. y \in Tasks(drawn) /\ y.todo = k.todo /\ y.prev = k.prev /\ y.got = {}
    BY <1>0, <2>3 DEF Tasks
  <2>6. Goes(t, y) /\ ScreenOK(ui', srv, drawn)
    BY <1>0, <2>1
  <2> HIDE DEF y
  <2> QED
    BY <1>0, <2>4, <2>5, <2>6, GoesOn
<1> QED
  BY <1>1, <1>2

\* The batches, one secret at a time.
LEMMA EditOneGood ==
  ASSUME Good, NEW t \in Slots, EditOne(t) PROVE Good'
<1> DEFINE k == tasks[t]
<1>0. /\ Server /\ ScreenOK(ui', srv, drawn) /\ k \in Tasks(drawn) /\ Holds(k, srv, drawn)
      /\ k.todo # <<>> /\ Head(k.todo) = "batchedit" /\ ToSet(list) \subseteq Secrets
  BY TaskFacts, StoredTypes DEF EditOne
<1>1. ASSUME NEW s \in k.ids, UNCHANGED store,
             Stays(t, [k EXCEPT !.ids = @ \ {s},
               !.got = IF There(s) /\ Det(s).of # None THEN @ \cup {Det(s)} ELSE @])
      PROVE  Good'
  <2> DEFINE got == IF There(s) /\ Det(s).of # None THEN k.got \cup {Det(s)} ELSE k.got
             x == [k EXCEPT !.ids = @ \ {s}, !.got = got]
  <2>1. Stays(t, x)
    BY <1>0, <1>1 DEF Tasks
  <2>2. \A d \in got : d \in k.got \/ (Known(d, srv, drawn) /\ d.of # None)
    BY <1>0, DetKnown DEF There
  <2>3. got \in SUBSET (Answers(drawn) \cup Rotations(drawn) \cup Secrets)
    BY <1>0, <2>2 DEF Tasks, Known
  <2> HIDE DEF got
  <2>4. x \in Tasks(drawn) /\ x.todo = k.todo /\ x.prev = k.prev /\ x.got = got
    BY <1>0, <2>3 DEF Tasks
  <2> HIDE DEF x
  <2>5. \A d \in x.got : d \in k.got \/ Fits(Head(k.todo), d)
    BY <1>0, <2>2, <2>4 DEF Fits
  <2>6. StoreStep
    BY <1>1, StoreUnchanged
  <2> QED
    BY <1>0, <2>1, <2>4, <2>5, <2>6, StaysGood
<1>2. ASSUME NEW d \in k.got, Stays(t, [k EXCEPT !.got = @ \ {d}]),
             IF Accepts(d.id, d.kv, {}) THEN Put(d.id, d.key, d.of) ELSE UNCHANGED store
      PROVE  Good'
  <2> DEFINE x == [k EXCEPT !.got = @ \ {d}]
  <2>1. Stays(t, x)
    BY <1>2
  <2>2. x \in Tasks(drawn) /\ x.todo = k.todo /\ x.prev = k.prev /\ x.got \subseteq k.got
    BY <1>0 DEF Tasks
  <2> HIDE DEF x
  <2>3. Known(d, srv, drawn) /\ d.of # None
    BY <1>0 DEF Holds
  <2>4. d \in Answers(drawn)
    BY <2>3 DEF Known
  <2>5. StoreStep
    <3>1. CASE Accepts(d.id, d.kv, {})
      <4>1. There(d.id) /\ Put(d.id, d.key, d.of)
        BY <1>2, <3>1 DEF Accepts
      <4> QED
        BY <2>3, <2>4, <4>1, PutAccepted
    <3>2. CASE ~Accepts(d.id, d.kv, {})
      BY <1>2, <3>2, StoreUnchanged
    <3> QED
      BY <3>1, <3>2
  <2> QED
    BY <1>0, <2>1, <2>2, <2>5, StaysGood
<1> QED
  BY <1>1, <1>2 DEF EditOne

LEMMA ShareOneGood ==
  ASSUME Good, NEW t \in Slots, ShareOne(t) PROVE Good'
<1> DEFINE k == tasks[t]
<1>0. /\ ScreenOK(ui', srv, drawn) /\ k \in Tasks(drawn) /\ Holds(k, srv, drawn)
      /\ k.todo # <<>> /\ Head(k.todo) = "post"
  BY TaskFacts DEF ShareOne
<1>1. PICK d \in k.got :
        /\ Stays(t, [k EXCEPT !.got = @ \ {d}])
        /\ \/ /\ Accepts(d.id, d.kv, k.us)
              /\ Share(d.id, d.key, k.us, IF k.gs = {} THEN k.us ELSE {}, k.gs)
           \/ UNCHANGED store
  BY DEF ShareOne
<1> DEFINE x == [k EXCEPT !.got = @ \ {d}]
<1>2. Stays(t, x)
  BY <1>1
<1>3. x \in Tasks(drawn) /\ x.todo = k.todo /\ x.prev = k.prev /\ x.got \subseteq k.got
  BY <1>0 DEF Tasks
<1> HIDE DEF x
<1>4. Known(d, srv, drawn)
  BY <1>0 DEF Holds
<1>5. k.us \in SUBSET Users /\ k.gs \in SUBSET Groups
  BY <1>0 DEF Tasks
<1>6. (IF k.gs = {} THEN k.us ELSE {}) \in SUBSET Users
  BY <1>5
<1>7. StoreStep
  BY <1>1, <1>4, <1>5, <1>6, ShareAccepted, StoreUnchanged
<1> QED
  BY <1>0, <1>2, <1>3, <1>7, StaysGood

LEMMA UnshareOneGood ==
  ASSUME Good, NEW t \in Slots, UnshareOne(t) PROVE Good'
<1> DEFINE k == tasks[t]
<1>0. /\ Server /\ ScreenOK(ui', srv, drawn) /\ k \in Tasks(drawn) /\ Holds(k, srv, drawn)
      /\ k.todo # <<>> /\ Head(k.todo) = "unshare" /\ ToSet(list) \subseteq Secrets
  BY TaskFacts, StoredTypes DEF UnshareOne
<1>1. ASSUME NEW s \in k.ids, UNCHANGED store,
             Stays(t, [k EXCEPT !.ids = @ \ {s}, !.got =
                 IF There(s) /\ Det(s).of # None
                    /\ k.us \subseteq srv[s].users /\ k.gs \subseteq srv[s].groups
                 THEN @ \cup {[d |-> Det(s), to |-> {u \in Users : srv[s].env[u] > 0}
                                 \cup (srv[s].users \ k.us) \cup MembersOf(srv[s].groups \ k.gs)]}
                 ELSE @])
      PROVE  Good'
  <2> DEFINE keep == {u \in Users : srv[s].env[u] > 0} \cup (srv[s].users \ k.us)
                     \cup MembersOf(srv[s].groups \ k.gs)
             r == [d |-> Det(s), to |-> keep]
             good == There(s) /\ Det(s).of # None
                     /\ k.us \subseteq srv[s].users /\ k.gs \subseteq srv[s].groups
             got == IF good THEN k.got \cup {r} ELSE k.got
             x == [k EXCEPT !.ids = @ \ {s}, !.got = got]
  <2>1. Stays(t, x)
    BY <1>0, <1>1 DEF Tasks
  <2>2. good => r \in Rotations(drawn) /\ r.d.of # None
    <3> SUFFICES ASSUME good PROVE r \in Rotations(drawn) /\ r.d.of # None
      OBVIOUS
    <3>1. s \in Secrets /\ Det(s).of # None /\ Det(s) \in Answers(drawn) /\ srv[s] \in Stored(drawn)
      BY <1>0, DetKnown, StoredTypes DEF There
    <3>2. srv[s].users \in SUBSET Users /\ (srv[s].groups \ k.gs) \in SUBSET Groups
      BY <3>1 DEF Stored
    <3>3. keep \in SUBSET Users
      BY <1>0, <3>2, MembersAreUsers
    <3> HIDE DEF keep
    <3> QED
      BY <3>1, <3>3 DEF Rotations
  <2> HIDE DEF r, good
  <2>3. \A d \in got : d \in k.got \/ (d \in Rotations(drawn) /\ d.d.of # None)
    BY <2>2
  <2>4. got \in SUBSET (Answers(drawn) \cup Rotations(drawn) \cup Secrets)
    BY <1>0, <2>3 DEF Tasks
  <2> HIDE DEF got
  <2>5. x \in Tasks(drawn) /\ x.todo = k.todo /\ x.prev = k.prev /\ x.got = got
    BY <1>0, <2>4 DEF Tasks
  <2> HIDE DEF x
  <2>6. \A d \in x.got : d \in k.got \/ Fits(Head(k.todo), d)
    BY <1>0, <2>3, <2>5 DEF Fits
  <2>7. StoreStep
    BY <1>1, StoreUnchanged
  <2> QED
    BY <1>0, <2>1, <2>5, <2>6, <2>7, StaysGood
<1>2. ASSUME NEW x \in k.got, Stays(t, [k EXCEPT !.got = @ \ {x}]),
             IF There(x.d.id) /\ NewVersion(x.d.kv) > srv[x.d.id].kv
                 THEN Rotate(x.d.id, NewVersion(x.d.kv), x.d.of, x.to, k.us, k.gs)
                 ELSE UNCHANGED store
      PROVE  Good'
  <2> DEFINE y == [k EXCEPT !.got = @ \ {x}]
  <2>1. Stays(t, y)
    BY <1>2
  <2>2. y \in Tasks(drawn) /\ y.todo = k.todo /\ y.prev = k.prev /\ y.got \subseteq k.got
    BY <1>0 DEF Tasks
  <2> HIDE DEF y
  <2>3. x \in Rotations(drawn) /\ x.d.of # None
    BY <1>0 DEF Holds
  <2>4. StoreStep
    <3>1. CASE There(x.d.id) /\ NewVersion(x.d.kv) > srv[x.d.id].kv
      <4>1. x.d.id \in Secrets
        BY <1>0, <3>1 DEF There
      <4> QED
        BY <1>2, <2>3, <3>1, <4>1, RotationAccepted
    <3>2. CASE ~(There(x.d.id) /\ NewVersion(x.d.kv) > srv[x.d.id].kv)
      BY <1>2, <3>2, StoreUnchanged
    <3> QED
      BY <3>1, <3>2
  <2> QED
    BY <1>0, <2>1, <2>2, <2>4, StaysGood
<1> QED
  BY <1>1, <1>2 DEF UnshareOne

LEMMA DeletesGood ==
  ASSUME Good, NEW t \in Slots, DeleteOne(t) \/ DeleteShown(t) PROVE Good'
<1> DEFINE k == tasks[t]
<1>0. /\ Server /\ Agree(srv) /\ ScreenOK(ui, srv, drawn) /\ k \in Tasks(drawn)
      /\ ToSet(list) \subseteq Secrets /\ k.todo # <<>> /\ ScreenOK(ClosePanel, srv, drawn)
  BY TaskFacts, StoredTypes, ClosedScreen DEF DeleteOne, DeleteShown
<1>1. CASE DeleteOne(t)
  <2>1. Head(k.todo) = "kill" /\ ui' = ui
    BY <1>1, TaskFacts DEF DeleteOne
  <2>2. ScreenOK(ui', srv, drawn)
    BY <1>0, <2>1
  <2>3. ASSUME NEW s \in k.ids, There(s), Delete(s),
               Stays(t, [k EXCEPT !.ids = @ \ {s}, !.got = @ \cup {s}])
        PROVE  Good'
    <3> DEFINE x == [k EXCEPT !.ids = @ \ {s}, !.got = @ \cup {s}]
    <3>1. Stays(t, x)
      BY <2>3
    <3>2. s \in Secrets
      BY <1>0 DEF Tasks
    <3>3. x \in Tasks(drawn) /\ x.todo = k.todo /\ x.prev = k.prev /\ x.got = k.got \cup {s}
      BY <1>0, <3>2 DEF Tasks
    <3> HIDE DEF x
    <3>4. StoreStep
      BY <1>0, <2>3, <3>2, DeleteStep
    <3>5. \A d \in x.got : d \in k.got \/ Fits(Head(k.todo), d)
      BY <2>1 DEF Fits
    <3> QED
      BY <1>0, <2>2, <3>1, <3>3, <3>4, <3>5, StaysGood
  <2>4. ASSUME NEW s \in k.ids, Stays(t, [k EXCEPT !.ids = @ \ {s}]), UNCHANGED store
        PROVE  Good'
    <3> DEFINE x == [k EXCEPT !.ids = @ \ {s}]
    <3>1. Stays(t, x)
      BY <2>4
    <3>2. x \in Tasks(drawn) /\ x.todo = k.todo /\ x.prev = k.prev /\ x.got = k.got
      BY <1>0 DEF Tasks
    <3> HIDE DEF x
    <3>3. StoreStep
      BY <2>4, StoreUnchanged
    <3> QED
      BY <1>0, <2>2, <3>1, <3>2, <3>3, StaysGood
  <2> QED
    BY <1>1, <2>3, <2>4 DEF DeleteOne
<1>2. CASE DeleteShown(t) /\ Fails(t)
  BY <1>2, FailsGood
<1>3. CASE DeleteShown(t) /\ ~Fails(t)
  <2>1. There(k.id) /\ Delete(k.id) /\ ui' = ClosePanel /\ Goes(t, k) /\ At(t, "delete")
    BY <1>3 DEF DeleteShown
  <2>2. k.id \in Secrets
    BY <1>0, <2>1 DEF There
  <2>3. StoreStep /\ ScreenOK(ui', srv, drawn)
    BY <1>0, <2>1, <2>2, DeleteStep
  <2> QED
    BY <2>1, <2>3, SameGoesOn
<1> QED
  BY <1>1, <1>2, <1>3

LEMMA PostCreateGood ==
  ASSUME Good, NEW t \in Slots, PostCreate(t) PROVE Good'
<1>0. /\ Server /\ Agree(srv) /\ ScreenOK(ui', srv, drawn) /\ tasks[t] \in Tasks(drawn)
      /\ At(t, "create")
  BY TaskFacts DEF PostCreate
<1>1. CASE Fails(t)
  BY <1>1, FailsGood
<1>2. ASSUME NEW s \in Unused, Create(s, tasks[t].us, tasks[t].gs), Goes(t, tasks[t])
      PROVE  Good'
  <2>1. tasks[t].us \in SUBSET Users /\ tasks[t].gs \in SUBSET Groups
    BY <1>0 DEF Tasks
  <2>2. StoreStep
    BY <1>0, <1>2, <2>1, CreateStep
  <2> QED
    BY <1>0, <1>2, <2>2, SameGoesOn
<1> QED
  BY <1>1, <1>2 DEF PostCreate

\* A member is added: what the group's secrets need is read for the posting.
LEMMA JoinGood ==
  ASSUME Good, NEW t \in Slots, Join(t) PROVE Good'
<1> DEFINE k == tasks[t]
           got == {Det(s) : s \in {x \in ToSet(list) :
                    k.gs \subseteq srv[x].groups /\ \A u \in k.us : srv[x].env[u] = 0}}
           x == [k EXCEPT !.got = got]
<1>0. /\ Server /\ Agree(srv) /\ ScreenOK(ui', srv, drawn) /\ k \in Tasks(drawn)
      /\ Holds(k, srv, drawn) /\ k.todo # <<>> /\ Head(k.todo) = "join"
      /\ ToSet(list) \subseteq Secrets
  BY TaskFacts, StoredTypes DEF Join
<1>1. Goes(t, x) /\ UNCHANGED <<srv, list, drawn>>
      /\ members' = [g \in Groups |-> members[g] \cup IF g \in k.gs THEN k.us ELSE {}]
  BY DEF Join
<1>2. members' \in [Groups -> SUBSET Users]
  <2>1. k.us \in SUBSET Users /\ members \in [Groups -> SUBSET Users]
    BY <1>0 DEF Tasks, Server
  <2> QED
    BY <1>1, <2>1
<1>3. StoreStep
  BY <1>0, <1>1, <1>2, SameStore
<1>4. \A d \in got : Known(d, srv, drawn)
  BY <1>0, DetKnown
<1>5. got \in SUBSET (Answers(drawn) \cup Rotations(drawn) \cup Secrets)
  BY <1>4 DEF Known
<1> HIDE DEF got
<1>6. x \in Tasks(drawn) /\ x.todo = k.todo /\ x.prev = k.prev /\ x.got = got
  BY <1>0, <1>5 DEF Tasks
<1> HIDE DEF x
<1>7. Handed(x)
  BY <1>0, <1>4, <1>6 DEF Handed, Holds
<1> QED
  BY <1>0, <1>1, <1>3, <1>6, <1>7, GoesGood

\* A member is removed: the envelopes of the member go, and nothing else.
Revoked(us, of) ==
  srv' = [s \in Secrets |-> IF s \notin of THEN srv[s] ELSE
           [srv[s] EXCEPT !.cut = @ \cup {u \in us : srv[s].env[u] > 0},
              !.env = [u \in Users |-> IF u \in us THEN 0 ELSE @[u]]]]

LEMMA LeaveStep ==
  ASSUME Server, Agree(srv), NEW us \in SUBSET Users, NEW of, Revoked(us, of),
         UNCHANGED <<list, drawn>>, members' \in [Groups -> SUBSET Users]
  PROVE  StoreStep
<1>0. /\ drawn \in Nat /\ First <= drawn /\ First \in Nat /\ ToSet(list) \subseteq Secrets
      /\ list \in Seq(Secrets) /\ IsInjective(list)
      /\ \A s \in ToSet(list) : srv[s].kv # 0
  BY StoredTypes DEF Server
<1>1. ASSUME NEW s \in Secrets
      PROVE  /\ srv'[s] \in Stored(drawn) /\ srv'[s].kv = srv[s].kv /\ srv'[s].mine = srv[s].mine
             /\ \A u \in Users : srv'[s].env[u] \in {0, srv[s].mine}
  <2> DEFINE e == [u \in Users |-> IF u \in us THEN 0 ELSE srv[s].env[u]]
             c == srv[s].cut \cup {u \in us : srv[s].env[u] > 0}
             x == [srv[s] EXCEPT !.cut = c, !.env = e]
  <2>1. srv[s] \in Stored(drawn) /\ \A u \in Users : srv[s].env[u] \in {0, srv[s].mine}
    BY StoredTypes DEF Agree
  <2>2. srv'[s] = IF s \notin of THEN srv[s] ELSE x
    BY DEF Revoked
  <2>3. e \in [Users -> 0 .. drawn] /\ c \in SUBSET Users
    BY <1>0, <2>1 DEF Stored
  <2>4. \A u \in Users : e[u] \in {0, srv[s].mine}
    BY <2>1
  <2> HIDE DEF e, c
  <2>5. x \in Stored(drawn) /\ x.kv = srv[s].kv /\ x.mine = srv[s].mine /\ x.env = e
    BY <2>1, <2>3 DEF Stored
  <2> HIDE DEF x
  <2> QED
    BY <2>1, <2>2, <2>4, <2>5
<1>2. srv' \in [Secrets -> Stored(drawn)]
  BY <1>1 DEF Revoked
<1>3. Agree(srv')
  BY <1>1 DEF Agree
<1>4. Newer(srv, drawn, srv', drawn')
  BY <1>0, <1>1, StoredTypes DEF Newer
<1>5. \A s \in ToSet(list) : srv'[s].kv # 0
  BY <1>0, <1>1
<1>6. Server'
  BY <1>0, <1>2, <1>5 DEF Server
<1> QED
  BY <1>3, <1>4, <1>6 DEF StoreStep

LEMMA LeaveGood ==
  ASSUME Good, NEW t \in Slots, Leave(t) PROVE Good'
<1> DEFINE k == tasks[t]
           of == {s \in ToSet(list) : k.gs \subseteq srv[s].groups /\ k.us \cap srv[s].users = {}}
           x == [k EXCEPT !.ids = of, !.gs = {}]
<1>0. /\ Server /\ Agree(srv) /\ ScreenOK(ui', srv, drawn) /\ k \in Tasks(drawn)
      /\ At(t, "leave") /\ ToSet(list) \subseteq Secrets /\ k.us \in SUBSET Users
  BY TaskFacts, StoredTypes DEF Leave, Tasks
<1>1. /\ Goes(t, x) /\ UNCHANGED <<list, drawn>>
      /\ members' = [g \in Groups |-> members[g] \ IF g \in k.gs THEN k.us ELSE {}]
      /\ Revoked(k.us, of)
  BY DEF Leave, Revoked
<1>2. of \in SUBSET Secrets
  BY <1>0
<1> HIDE DEF of
<1>3. members' \in [Groups -> SUBSET Users]
  BY <1>0, <1>1 DEF Server
<1>4. StoreStep
  BY <1>0, <1>1, <1>3, LeaveStep
<1>5. x \in Tasks(drawn) /\ x.todo = k.todo /\ x.prev = k.prev /\ x.got = {}
  BY <1>0, <1>2, NothingHeld DEF Tasks
<1> HIDE DEF x
<1> QED
  BY <1>0, <1>1, <1>4, <1>5, GoesOn

LEMMA StepGood ==
  ASSUME Good, NEW t \in Slots, Step(t) PROVE Good'
BY LoadStepsGood, ReadStepsGood, CurrentStepsGood, RegetGood, EndsOfBatchesGood, MembersGood,
   PrepareGood, NextRotationGood, PutFormGood, PostShareGood, PostRotateGood, EditOneGood,
   ShareOneGood, UnshareOneGood, DeletesGood, PostCreateGood, JoinGood, LeaveGood DEF Step

-----------------------------------------------------------------------------
(* The initial states.                                                     *)

\* The list there is at first holds each secret once.
LEMMA FirstList ==
  ASSUME Init
  PROVE  /\ list \in Seq(Secrets) /\ IsInjective(list) /\ ToSet(list) \subseteq DOMAIN SharedWith
         /\ Len(list) = First /\ First \in Nat /\ DOMAIN list = 1 .. First
<1> DEFINE S == DOMAIN SharedWith
<1>1. IsFiniteSet(S) /\ S \subseteq Secrets
  BY WebVaultAssumption, FS_Subset
<1>2. First = Cardinality(S) /\ First \in Nat /\ ExistsBijection(1 .. First, S)
  BY <1>1, FS_CardinalityType DEF First
<1>3. PICK f \in Bijection(1 .. First, S) : TRUE
  BY <1>2 DEF ExistsBijection
<1>4. f \in [1 .. First -> S] /\ IsInjective(f)
  BY <1>3 DEF Bijection, Injection
<1>5. list = CHOOSE g \in [1 .. First -> S] : IsInjective(g)
  BY <1>2 DEF Init, SetToSeq
<1>6. list \in [1 .. First -> S] /\ IsInjective(list)
  BY <1>4, <1>5
<1>7. list \in Seq(S) /\ Len(list) = First /\ DOMAIN list = 1 .. First
  BY <1>2, <1>6, SeqDef, LenProperties
<1>8. list \in Seq(Secrets)
  BY <1>1, <1>7, SeqMonotonic
<1>9. ToSet(list) \subseteq S
  BY <1>6, <1>7 DEF ToSet
<1> QED
  BY <1>2, <1>6, <1>7, <1>8, <1>9

LEMMA InitServer ==
  ASSUME Init
  PROVE  Server /\ Agree(srv)
<1>0. /\ list \in Seq(Secrets) /\ IsInjective(list) /\ ToSet(list) \subseteq DOMAIN SharedWith
      /\ First \in Nat /\ DOMAIN list = 1 .. First
      /\ drawn = First /\ members = Joined /\ Joined \in [Groups -> SUBSET Users]
  BY FirstList, WebVaultAssumption DEF Init
<1>1. ASSUME NEW s \in Secrets
      PROVE  /\ srv[s] \in Stored(drawn) /\ (There(s) => srv[s].kv # 0)
             /\ \A u \in Users : srv[s].env[u] \in {0, srv[s].mine}
  <2> DEFINE was == There(s)
             k == IF was THEN CHOOSE i \in DOMAIN list : list[i] = s ELSE 0
             us == IF was THEN SharedWith[s].users ELSE {}
             gs == IF was THEN SharedWith[s].groups ELSE {}
             e == [u \in Users |-> IF u \in us \cup MembersOf(gs) THEN k ELSE 0]
             v == IF was THEN 1 ELSE 0
             x == [kv |-> v, key |-> k, mine |-> k, of |-> s, cut |-> {},
                   users |-> us, groups |-> gs, env |-> e]
  <2>1. srv[s] = x
    BY DEF Init
  <2>2. was => s \in DOMAIN SharedWith /\ \E i \in DOMAIN list : list[i] = s
    BY <1>0 DEF There, ToSet
  <2>3. us \in SUBSET Users /\ gs \in SUBSET Groups
    BY <2>2, WebVaultAssumption
  <2>4. k \in 0 .. drawn
    BY <1>0, <2>2
  <2>5. v \in Versions(drawn) /\ (was => v # 0)
    BY <1>0 DEF Versions
  <2> HIDE DEF us, gs, v, k, was
  <2>6. e \in [Users -> 0 .. drawn] /\ \A u \in Users : e[u] \in {0, k}
    BY <1>0, <2>4
  <2> HIDE DEF e
  <2>7. x \in Stored(drawn) /\ x.kv = v /\ x.mine = k /\ x.env = e
    BY <2>3, <2>4, <2>5, <2>6 DEF Stored
  <2> HIDE DEF x
  <2> QED
    BY <2>1, <2>5, <2>6, <2>7 DEF was
<1>2. srv \in [Secrets -> Stored(drawn)]
  <2>1. DOMAIN srv = Secrets /\ srv = [s \in Secrets |-> srv[s]]
    BY DEF Init
  <2> QED
    BY <1>1, <2>1
<1>3. Agree(srv)
  BY <1>1 DEF Agree
<1>4. ToSet(list) \subseteq Secrets
  BY <1>0, WebVaultAssumption
<1>5. Server
  BY <1>0, <1>1, <1>2, <1>4 DEF Server, There
<1> QED
  BY <1>3, <1>5

LEMMA InitGood ==
  ASSUME Init PROVE Good
<1>0. Server /\ Agree(srv)
  BY InitServer
<1>1. /\ PageFrom(0) \in Seq(Row(drawn)) /\ Len(list) \in 0 .. Cardinality(Secrets)
      /\ Known(NoDet, srv, drawn) /\ \A i \in DOMAIN PageFrom(0) : Dated(PageFrom(0)[i], srv)
  <2> DEFINE p == PageFrom(0)
  <2>1. /\ p \in Seq(Row(drawn))
        /\ \A j \in 1 .. Len(p) : 0 + j \in 1 .. Len(list) /\ p[j] = Listed[0 + j]
    BY <1>0, PageRows
  <2>2. /\ Len(list) \in 0 .. Cardinality(Secrets)
        /\ \A i \in 1 .. Len(list) : Dated(Listed[i], srv)
    BY <1>0, ListedRows
  <2>3. DOMAIN p = 1 .. Len(p)
    BY <2>1, LenProperties
  <2> HIDE DEF p
  <2>4. \A i \in DOMAIN p : Dated(p[i], srv)
    BY <2>1, <2>2, <2>3
  <2> QED
    BY <1>0, <2>1, <2>2, <2>4, NoDetKnown DEF p
<1>2. ui = [rows |-> PageFrom(0), total |-> Len(list), cur |-> NoDet,
            body |-> None, form |-> None, access |-> None, panel |-> FALSE,
            editor |-> FALSE, preserve |-> FALSE, busy |-> FALSE]
  BY DEF Init
<1>3. ui \in Screens(drawn) /\ ui.rows = PageFrom(0) /\ ui.cur = NoDet
  BY <1>1, <1>2 DEF Screens, Accesses, Known
<1>4. ScreenOK(ui, srv, drawn)
  BY <1>1, <1>3 DEF ScreenOK, Known
<1>5. tasks = [t \in Slots |-> NoTask]
  BY DEF Init
<1>6. DOMAIN tasks = Slots /\ \A t \in Slots : TaskOK(tasks[t], srv, drawn)
  BY <1>5, NoTaskOK
<1> QED
  BY <1>0, <1>4, <1>6 DEF Good

\* Every step keeps the invariant.
LEMMA NextGood ==
  ASSUME Good, [Next]_vars PROVE Good'
<1>1. CASE UNCHANGED vars
  <2>1. StoreStep /\ ScreenOK(ui', srv, drawn) /\ tasks' = tasks
    BY <1>1, StoreUnchanged DEF vars, store, Good
  <2> QED
    BY <2>1, SameTasks
<1> QED
  BY <1>1, ElsewhereGood, PanelsGood, ClickGood, StepGood, LostGood DEF Next

\* Whatever handlers run at once, every answer kept anywhere in the page is
\* of a version the server has reached, with the key of that version, and every
\* handler holds what its next step posts (fetchSecretDetailWithRetry
\* and its callers).
THEOREM Always == Spec => []Good
<1>1. Init => Good
  BY InitGood
<1>2. Good /\ [Next]_vars => Good'
  BY NextGood
<1> QED
  BY <1>1, <1>2, PTL DEF Spec

-----------------------------------------------------------------------------
(* The quiet list.                                                         *)

\* A set with fewer than two elements has one at most.
LEMMA OneElement ==
  ASSUME NEW S, IsFiniteSet(S), Cardinality(S) < 2, NEW x \in S, NEW y \in S
  PROVE  x = y
<1> SUFFICES ASSUME x # y PROVE FALSE
  OBVIOUS
<1>1. IsFiniteSet({x}) /\ Cardinality({x}) = 1
  BY FS_Singleton
<1>2. Cardinality({x} \cup {y}) = Cardinality({x}) + 1
  BY <1>1, FS_AddElement
<1>3. {x} \cup {y} \subseteq S
  OBVIOUS
<1>4. Cardinality({x} \cup {y}) <= Cardinality(S) /\ Cardinality(S) \in Nat
  BY <1>3, FS_Subset, FS_CardinalityType
<1> QED
  BY <1>1, <1>2, <1>4

LEMMA OneLoad ==
  ASSUME Cardinality(Loads) < 2, NEW x \in Loads, NEW y \in Loads
  PROVE  x = y
<1>1. Loads \subseteq Slots /\ IsFiniteSet(Slots)
  BY WebVaultAssumption DEF Loads
<1>2. IsFiniteSet(Loads)
  BY <1>1, FS_Subset
<1> QED
  BY <1>2, OneElement

LEMMA OneLoadLater ==
  ASSUME Cardinality(Loads') < 2, NEW x \in Loads', NEW y \in Loads'
  PROVE  x = y
<1>1. Loads' \subseteq Slots /\ IsFiniteSet(Slots)
  BY WebVaultAssumption DEF Loads
<1>2. IsFiniteSet(Loads')
  BY <1>1, FS_Subset
<1> QED
  BY <1>2, OneElement

\* A step of one handler that leaves the rows alone: it begins no load by a
\* reset, and if it waits for a page afterwards, then for the one it waited for
\* before or for the one behind the rows there are.
Minds(t) ==
  /\ ui'.rows = ui.rows /\ ui'.total = ui.total
  /\ \A u \in Slots \ {t} : tasks'[u] = tasks[u]
  /\ At(t, "page")' => /\ ~At(t, "reset")
                       /\ \/ tasks'[t].from = Len(ui.rows)
                          \/ At(t, "page") /\ tasks'[t].from = tasks[t].from

\* The server's list is as long as before when its rows are.
LEMMA SameLength ==
  ASSUME Server, Server', Listed' = Listed
  PROVE  Len(list') = Len(list)
<1>1. Len(Listed) = Len(list)
  BY ListedRows
<1>2. (Len(Listed) = Len(list))'
  <2>1. list' \in Seq(Secrets) /\ DOMAIN list' = 1 .. Len(list') /\ Len(list') \in Nat
    BY LenProperties DEF Server
  <2>2. DOMAIN Listed' = DOMAIN list' /\ Listed' = Listed
    BY DEF Listed
  <2>3. DOMAIN Listed = 1 .. Len(Listed) /\ Len(Listed) \in Nat
    BY ListedRows, LenProperties
  <2> QED
    BY <2>1, <2>2, <2>3
<1> QED
  BY <1>1, <1>2

LEMMA QuietKept ==
  ASSUME Good, Good', Quiet, Watch, NEW t, Minds(t)
  PROVE  Quiet'
<1>1. calm' \in BOOLEAN
  BY DEF Watch
<1>2. ASSUME calm'
      PROVE  QuietListIsTrue' /\ (Cardinality(Loads) < 2)'
             /\ \A u \in Loads' : tasks'[u].from = Len(ui'.rows)
  <2>1. Cardinality(Loads') < 2
    BY <1>2 DEF Watch
  <2>2. ~\E u \in Slots : At(u, "reset") /\ u \in Loads'
    <3> SUFFICES ASSUME NEW u \in Slots, At(u, "reset"), u \in Loads' PROVE FALSE
      OBVIOUS
    <3>1. u # t
      BY DEF Minds, Loads
    <3>2. tasks'[u] = tasks[u]
      BY <3>1 DEF Minds
    <3> QED
      BY <3>2 DEF Loads, At
  <2>3. calm /\ Listed' = Listed
    BY <1>2, <2>2 DEF Watch
  <2>4. /\ IsPrefix(ui.rows, Listed) /\ (ui.rows # <<>> => ui.total = Len(list))
        /\ \A u \in Loads : tasks[u].from = Len(ui.rows)
    BY <2>3 DEF Quiet, QuietListIsTrue
  <2>5. Len(list') = Len(list)
    BY <2>3, SameLength DEF Good
  <2>6. ui'.rows = ui.rows /\ ui'.total = ui.total
    BY DEF Minds
  <2>7. QuietListIsTrue'
    BY <2>3, <2>4, <2>5, <2>6 DEF QuietListIsTrue
  <2>8. ASSUME NEW u \in Loads' PROVE tasks'[u].from = Len(ui'.rows)
    <3>1. u \in Slots /\ At(u, "page")'
      BY DEF Loads
    <3>2. CASE u = t
      BY <2>4, <2>6, <3>1, <3>2 DEF Minds, Loads
    <3>3. CASE u # t
      <4>1. tasks'[u] = tasks[u]
        BY <3>1, <3>3 DEF Minds
      <4>2. u \in Loads
        BY <3>1, <4>1 DEF Loads, At
      <4> QED
        BY <2>4, <2>6, <4>1, <4>2
    <3> QED
      BY <3>2, <3>3
  <2> QED
    BY <2>1, <2>7, <2>8
<1> QED
  BY <1>1, <1>2 DEF Quiet

\* A step of no handler.
LEMMA NoneMinds ==
  ASSUME NEW t, tasks' = tasks, ui'.rows = ui.rows, ui'.total = ui.total
  PROVE  Minds(t)
BY DEF Minds, At

\* The ways a handler goes on.
Runs(t, k) == "todo" \in DOMAIN k /\ k.todo = tasks[t].todo

LEMMA GoesMinds ==
  ASSUME Good, NEW t \in Slots, NEW step, At(t, step), step # "reset", NEW k, Goes(t, k),
         Runs(t, k), ui'.rows = ui.rows, ui'.total = ui.total
  PROVE  Minds(t)
<1> DEFINE f == Tail(k.todo)
           x == [k EXCEPT !.todo = f]
<1>1. tasks' = [tasks EXCEPT ![t] = IF f = <<>> THEN NoTask ELSE x]
  BY DEF Goes, Rest
<1>2. k.todo \in Seq(Steps) /\ Ordered(k.todo) /\ k.todo # <<>> /\ Head(k.todo) = step
  BY TaskFacts DEF Runs
<1>3. f # <<>> => Head(f) # "page"
  BY <1>2, NextStep
<1>4. x.todo = f
  BY DEF Runs
<1> HIDE DEF f, x
<1>5. \A u \in Slots : tasks'[u] = IF u = t THEN IF f = <<>> THEN NoTask ELSE x ELSE tasks[u]
  BY <1>1 DEF Good
<1>6. NoTask.todo = <<>>
  BY DEF NoTask
<1> QED
  BY <1>3, <1>4, <1>5, <1>6 DEF Minds, At

LEMMA StaysMinds ==
  ASSUME Good, NEW t \in Slots, NEW k, Stays(t, k), ui'.rows = ui.rows, ui'.total = ui.total,
         k.todo = <<>> \/ Head(k.todo) # "page"
  PROVE  Minds(t)
<1>1. \A u \in Slots : tasks'[u] = IF u = t THEN k ELSE tasks[u]
  BY DEF Good, Stays
<1> QED
  BY <1>1 DEF Minds, At

LEMMA EndsMinds ==
  ASSUME Good, NEW t \in Slots, tasks' = [tasks EXCEPT ![t] = NoTask],
         ui'.rows = ui.rows, ui'.total = ui.total
  PROVE  Minds(t)
BY StaysMinds DEF Stays, NoTask

LEMMA FailsMinds ==
  ASSUME Good, NEW t \in Slots, Fails(t)
  PROVE  Minds(t)
<1> DEFINE k == tasks[t]
           f == Finally(k.todo)
           x == [[k EXCEPT !.got = {}] EXCEPT !.todo = f]
<1>1. tasks' = [tasks EXCEPT ![t] = IF f = <<>> THEN NoTask ELSE x] /\ ui' = ui
  BY DEF Fails, Rest, Good
<1>2. k.todo \in Seq(Steps) /\ Ordered(k.todo) /\ k \in Tasks(drawn)
  BY TaskFacts
<1>3. f = <<>> \/ Head(f) # "page"
  BY <1>2, FinallyOrdered
<1>4. x.todo = f
  BY <1>2 DEF Tasks
<1> HIDE DEF f, x
<1> DEFINE y == IF f = <<>> THEN NoTask ELSE x
<1>5. y.todo = <<>> \/ Head(y.todo) # "page"
  BY <1>3, <1>4 DEF NoTask
<1>6. Stays(t, y)
  BY <1>1 DEF Stays
<1> HIDE DEF y
<1> QED
  BY <1>1, <1>5, <1>6, StaysMinds

LEMMA StartMinds ==
  ASSUME Good, NEW t \in Slots, NEW k, Start(t, k), ui'.rows = ui.rows, ui'.total = ui.total,
         NEW step, Begins(k.todo, step), step # "page" \/ k.from = Len(ui.rows)
  PROVE  Minds(t)
<1>1. \A u \in Slots : tasks'[u] = IF u = t THEN k ELSE tasks[u]
  BY DEF Good, Start
<1>2. tasks[t].todo = <<>>
  BY DEF Start, NoTask
<1>3. Head(k.todo) = step
  BY DEF Begins
<1> QED
  BY <1>1, <1>2, <1>3 DEF Minds, At

\* The clicks leave the rows alone, and the one that loads asks for what is
\* behind them.
Starts(t, p) ==
  /\ tasks[t] = NoTask
  /\ \E k : k.todo = p /\ tasks' = [tasks EXCEPT ![t] = k]

LEMMA StartsMinds ==
  ASSUME Good, NEW t \in Slots, NEW p, Starts(t, p), ui'.rows = ui.rows, ui'.total = ui.total,
         NEW step, Begins(p, step), step # "page"
  PROVE  Minds(t)
<1>1. PICK k : k.todo = p /\ Stays(t, k)
  BY DEF Starts, Stays
<1>2. Head(k.todo) # "page"
  BY <1>1 DEF Begins
<1> QED
  BY <1>1, <1>2, StaysMinds

\* A task is what its program makes it, whatever else it is given.
LEMMA TaskProgram ==
  ASSUME NEW p, NEW a, NEW b, NEW c
  PROVE  /\ [Task(p) EXCEPT !.id = a].todo = p
         /\ [Task(p) EXCEPT !.auto = a].todo = p
         /\ [Task(p) EXCEPT !.got = a].todo = p
         /\ [Task(p) EXCEPT !.from = a, !.want = b].todo = p
         /\ [Task(p) EXCEPT !.from = a, !.want = b].from = a
         /\ [Task(p) EXCEPT !.us = a, !.gs = b].todo = p
         /\ [Task(p) EXCEPT !.id = a, !.us = b, !.gs = c].todo = p
         /\ [Task(p) EXCEPT !.us = a, !.gs = b, !.acc = c].todo = p
         /\ [Task(p) EXCEPT !.us = a, !.gs = b, !.direct = c].todo = p
BY DEF Task, NoTask

LEMMA LoadClicksMind ==
  ASSUME Good, NEW t \in Slots, More(t) \/ Focus(t) \/ CreateSecret(t) \/ DeleteSecret(t)
                                \/ MemberChange(t)
  PROVE  Minds(t)
<1>0. ui'.rows = ui.rows /\ ui'.total = ui.total
  BY DEF More, Focus, CreateSecret, DeleteSecret, MemberChange
<1>1. CASE More(t)
  <2>1. PICK want : Start(t, [Task(<<"page">>) EXCEPT !.from = Len(ui.rows), !.want = want])
    BY <1>1 DEF More
  <2> DEFINE k == [Task(<<"page">>) EXCEPT !.from = Len(ui.rows), !.want = want]
  <2>2. k.todo = <<"page">> /\ k.from = Len(ui.rows) /\ Start(t, k)
    BY <2>1, TaskProgram
  <2> HIDE DEF k
  <2> QED
    BY <1>0, <2>2, ShortPrograms, StartMinds
<1>2. CASE Focus(t)
  <2>1. Starts(t, Reload)
    BY <1>2 DEF Focus, Starts, Start, Task, NoTask
  <2> QED
    BY <1>0, <2>1, ReloadPiece, StartsMinds
<1>3. CASE CreateSecret(t)
  <2> DEFINE p == <<"create">> \o Reload
  <2>1. PICK a, b : Start(t, [Task(p) EXCEPT !.us = a, !.gs = b])
    BY <1>3 DEF CreateSecret
  <2>2. Begins(p, "create")
    BY Programs
  <2> HIDE DEF p
  <2>3. Starts(t, p)
    BY <2>1 DEF Starts, Start, Task, NoTask
  <2> QED
    BY <1>0, <2>2, <2>3, StartsMinds
<1>4. CASE DeleteSecret(t)
  <2> DEFINE p == <<"delete">> \o Reload
  <2>1. Start(t, [Task(p) EXCEPT !.id = ui.cur.id])
    BY <1>4 DEF DeleteSecret
  <2>2. Begins(p, "delete")
    BY Programs
  <2> HIDE DEF p
  <2>3. Starts(t, p)
    BY <2>1 DEF Starts, Start, Task, NoTask
  <2> QED
    BY <1>0, <2>2, <2>3, StartsMinds
<1>5. CASE MemberChange(t)
  <2>1. PICK p \in {<<"leave", "next">>, <<"join", "post">>} :
          \E a, b : Start(t, [Task(p) EXCEPT !.us = a, !.gs = b, !.direct = FALSE])
    BY <1>5 DEF MemberChange
  <2>4. PICK a, b : Start(t, [Task(p) EXCEPT !.us = a, !.gs = b, !.direct = FALSE])
    BY <2>1
  <2>2. Begins(p, "leave") \/ Begins(p, "join")
    BY ShortPrograms
  <2>3. Starts(t, p)
    BY <2>4 DEF Starts, Start, Task, NoTask
  <2> QED
    BY <1>0, <2>2, <2>3, StartsMinds
<1> QED
  BY <1>1, <1>2, <1>3, <1>4, <1>5

LEMMA PanelClicksMind ==
  ASSUME Good, NEW t \in Slots, OpenSecret(t) \/ OpenShareEditor(t) \/ ShareChip(t) \/ UnshareChip(t)
                                \/ Save(t)
  PROVE  Minds(t)
<1>0. ui \in Screens(drawn)
  BY ScreenFacts DEF Good
<1>1. ui'.rows = ui.rows /\ ui'.total = ui.total
  BY <1>0 DEF OpenSecret, OpenShareEditor, ShareChip, UnshareChip, Save, Screens
<1>2. CASE OpenSecret(t)
  <2>1. Starts(t, <<"open", "access">>)
    BY <1>2 DEF OpenSecret, Starts, Start, Task, NoTask
  <2> QED
    BY <1>1, <2>1, ShortPrograms, StartsMinds
<1>3. CASE OpenShareEditor(t)
  <2>1. Starts(t, <<"edit", "access">>)
    BY <1>3 DEF OpenShareEditor, Starts, Start, Task, NoTask
  <2> QED
    BY <1>1, <2>1, ShortPrograms, StartsMinds
<1>4. CASE ShareChip(t)
  <2> DEFINE p == <<"share">> \o After
  <2>1. PICK a, b, c : Start(t, [Task(p) EXCEPT !.id = a, !.us = b, !.gs = c])
    BY <1>4 DEF ShareChip
  <2>2. Begins(p, "share")
    BY Programs
  <2> HIDE DEF p
  <2>3. Starts(t, p)
    BY <2>1 DEF Starts, Start, Task, NoTask
  <2> QED
    BY <1>1, <2>2, <2>3, StartsMinds
<1>5. CASE UnshareChip(t)
  <2> DEFINE p == <<"members", "rotate">> \o After
  <2>1. PICK a, b, c : Start(t, [Task(p) EXCEPT !.us = a, !.gs = b, !.acc = c])
    BY <1>5 DEF UnshareChip
  <2>2. Begins(p, "members")
    BY Programs
  <2> HIDE DEF p
  <2>3. Starts(t, p)
    BY <2>1 DEF Starts, Start, Task, NoTask
  <2> QED
    BY <1>1, <2>2, <2>3, StartsMinds
<1>6. CASE Save(t)
  <2> DEFINE p == <<"put">> \o Reload \o <<"again", "open", "access">>
  <2>1. PICK a : Start(t, [Task(p) EXCEPT !.got = a])
    BY <1>6 DEF Save
  <2>2. Begins(p, "put")
    BY Programs
  <2> HIDE DEF p
  <2>3. Starts(t, p)
    BY <2>1 DEF Starts, Start, Task, NoTask
  <2> QED
    BY <1>1, <2>2, <2>3, StartsMinds
<1> QED
  BY <1>2, <1>3, <1>4, <1>5, <1>6

LEMMA BatchMinds ==
  ASSUME Good, NEW t \in Slots, NEW todo, NEW step, Begins(todo \o Reload, step), step # "page",
         NEW k \in Tasks(drawn), Batch(t, todo, k)
  PROVE  Minds(t)
<1> DEFINE p == todo \o Reload
<1>1. PICK a, b : Start(t, [k EXCEPT !.todo = p, !.ids = a, !.got = b])
  BY DEF Batch
<1>2. Begins(p, step) /\ ui' = ui
  BY DEF Batch
<1> HIDE DEF p
<1>3. [k EXCEPT !.todo = p, !.ids = a, !.got = b].todo = p
  BY DEF Tasks
<1>4. Starts(t, p)
  BY <1>1, <1>3 DEF Starts, Start
<1> QED
  BY <1>2, <1>4, StartsMinds

LEMMA BatchesMind ==
  ASSUME Good, NEW t \in Slots, \/ BatchEdit(t) \/ BatchDelete(t) \/ BatchShare(t)
                                \/ BatchSetCap(t) \/ BatchUnshare(t)
  PROVE  Minds(t)
<1>1. NoTask \in Tasks(drawn)
  BY NoTaskOK DEF TaskOK
<1>2. ASSUME NEW x \in Targets
      PROVE  /\ [NoTask EXCEPT !.us = x.us, !.gs = x.gs] \in Tasks(drawn)
             /\ [NoTask EXCEPT !.us = x.us, !.gs = x.gs, !.direct = FALSE] \in Tasks(drawn)
  <2>1. x.us \in SUBSET Users /\ x.gs \in SUBSET Groups
    BY DEF Targets
  <2> QED
    BY <1>1, <2>1 DEF Tasks
<1> QED
  BY <1>1, <1>2, Programs, BatchMinds DEF BatchEdit, BatchDelete, BatchShare, BatchSetCap, BatchUnshare

\* The same step again.
LEMMA AgainMinds ==
  ASSUME Good, NEW t \in Slots, NEW step, At(t, step), step # "page", NEW k, Stays(t, k),
         k.todo = tasks[t].todo, ui'.rows = ui.rows, ui'.total = ui.total
  PROVE  Minds(t)
<1>1. Head(k.todo) # "page"
  BY TaskFacts
<1> QED
  BY <1>1, StaysMinds

\* What handlers change of themselves leaves the program they run.
LEMMA SameProgram ==
  ASSUME NEW t, NEW n, tasks[t] \in Tasks(n), NEW a, NEW b
  PROVE  /\ Runs(t, tasks[t])
         /\ Runs(t, [tasks[t] EXCEPT !.id = a]) /\ Runs(t, [tasks[t] EXCEPT !.acc = a])
         /\ Runs(t, [tasks[t] EXCEPT !.got = a]) /\ Runs(t, [tasks[t] EXCEPT !.prev = a])
         /\ Runs(t, [tasks[t] EXCEPT !.ids = a]) /\ Runs(t, [tasks[t] EXCEPT !.us = a, !.ids = b])
         /\ Runs(t, [tasks[t] EXCEPT !.id = a, !.got = b])
         /\ Runs(t, [tasks[t] EXCEPT !.ids = a, !.gs = b])
         /\ Runs(t, [tasks[t] EXCEPT !.ids = a, !.got = b])
BY DEF Tasks, Runs

LEMMA LostMinds ==
  ASSUME Good, NEW t \in Slots, Lost(t) PROVE Minds(t)
<1>0. tasks[t] \in Tasks(drawn) /\ ui' = ui /\ tasks[t].todo # <<>>
  BY TaskFacts DEF Lost
<1>1. CASE Fails(t)
  BY <1>1, FailsMinds
<1>2. CASE ~Fails(t)
  <2>1. Head(tasks[t].todo) \in {"batchedit", "post", "unshare", "kill"}
        /\ \/ \E s : Stays(t, [tasks[t] EXCEPT !.ids = @ \ {s}])
           \/ \E d : Stays(t, [tasks[t] EXCEPT !.got = @ \ {d}])
    BY <1>2 DEF Lost
  <2>2. CASE \E s : Stays(t, [tasks[t] EXCEPT !.ids = @ \ {s}])
    <3>1. PICK s : Stays(t, [tasks[t] EXCEPT !.ids = @ \ {s}])
      BY <2>2
    <3> DEFINE k == [tasks[t] EXCEPT !.ids = @ \ {s}]
    <3>2. Stays(t, k) /\ k.todo = tasks[t].todo
      BY <1>0, <3>1 DEF Tasks
    <3> HIDE DEF k
    <3> QED
      BY <1>0, <2>1, <3>2, StaysMinds
  <2>3. CASE \E d : Stays(t, [tasks[t] EXCEPT !.got = @ \ {d}])
    <3>1. PICK d : Stays(t, [tasks[t] EXCEPT !.got = @ \ {d}])
      BY <2>3
    <3> DEFINE k == [tasks[t] EXCEPT !.got = @ \ {d}]
    <3>2. Stays(t, k) /\ k.todo = tasks[t].todo
      BY <1>0, <3>1 DEF Tasks
    <3> HIDE DEF k
    <3> QED
      BY <1>0, <2>1, <3>2, StaysMinds
  <2> QED
    BY <2>1, <2>2, <2>3
<1> QED
  BY <1>1, <1>2

\* The steps that are no loads leave the rows alone as well.
LEMMA ReadsMind ==
  ASSUME Good, NEW t \in Slots, \/ Open(t) \/ RenderAccess(t) \/ ShowEditor(t) \/ Free(t)
                                \/ OpenAgain(t) \/ BorrowCurrent(t) \/ GiveBack(t)
  PROVE  Minds(t)
<1>0. ui \in Screens(drawn) /\ tasks[t] \in Tasks(drawn)
  BY ScreenFacts, TaskFacts
<1>1. ui'.rows = ui.rows /\ ui'.total = ui.total
  BY <1>0 DEF Open, RenderAccess, ShowEditor, Free, OpenAgain, BorrowCurrent, GiveBack, Fails, Screens
<1>2. CASE Fails(t)
  BY <1>2, FailsMinds
<1>3. CASE Open(t) /\ ~Fails(t)
  <2>1. At(t, "open") /\ (Goes(t, tasks[t]) \/ tasks' = [tasks EXCEPT ![t] = NoTask])
    BY <1>3 DEF Open
  <2> QED
    BY <1>0, <1>1, <2>1, SameProgram, GoesMinds, EndsMinds
<1>4. CASE RenderAccess(t) /\ ~Fails(t)
  <2>1. At(t, "access") /\ Goes(t, tasks[t])
    BY <1>4 DEF RenderAccess
  <2> QED
    BY <1>0, <1>1, <2>1, SameProgram, GoesMinds
<1>5. CASE ShowEditor(t) /\ ~Fails(t)
  <2>1. At(t, "edit") /\ Goes(t, tasks[t])
    BY <1>5 DEF ShowEditor
  <2> QED
    BY <1>0, <1>1, <2>1, SameProgram, GoesMinds
<1>6. CASE Free(t)
  <2>1. At(t, "free") /\ Goes(t, tasks[t])
    BY <1>6 DEF Free
  <2> QED
    BY <1>0, <1>1, <2>1, SameProgram, GoesMinds
<1>7. CASE OpenAgain(t) /\ ~Fails(t)
  <2> DEFINE k == [tasks[t] EXCEPT !.id = ui.cur.id]
  <2>1. At(t, "again") /\ Goes(t, k) /\ Runs(t, k)
    BY <1>0, <1>7, SameProgram DEF OpenAgain
  <2> HIDE DEF k
  <2> QED
    BY <1>1, <2>1, GoesMinds
<1>8. CASE BorrowCurrent(t) /\ ~Fails(t)
  <2> DEFINE k == [tasks[t] EXCEPT !.acc = ui.access]
  <2>1. At(t, "det") /\ Goes(t, k) /\ Runs(t, k)
    BY <1>0, <1>8, SameProgram DEF BorrowCurrent
  <2> HIDE DEF k
  <2> QED
    BY <1>1, <2>1, GoesMinds
<1>9. CASE GiveBack(t)
  <2> DEFINE k == [tasks[t] EXCEPT !.prev = <<>>]
  <2>1. At(t, "back") /\ Goes(t, k) /\ Runs(t, k)
    BY <1>0, <1>9, SameProgram DEF GiveBack
  <2> HIDE DEF k
  <2> QED
    BY <1>1, <2>1, GoesMinds
<1> QED
  BY <1>2, <1>3, <1>4, <1>5, <1>6, <1>7, <1>8, <1>9

LEMMA RegetMinds ==
  ASSUME Good, NEW t \in Slots, Reget(t) PROVE Minds(t)
<1> DEFINE p == tasks[t].todo
           f == Tail(p)
           q == IF ui.panel \/ ui.editor THEN f ELSE Tail(f)
           k == [tasks[t] EXCEPT !.todo = q]
<1>0. /\ ui \in Screens(drawn) /\ tasks[t] \in Tasks(drawn) /\ p \in Seq(Steps) /\ Ordered(p)
      /\ p # <<>> /\ Head(p) = "reget"
  BY ScreenFacts, TaskFacts DEF Reget
<1>1. CASE Fails(t)
  BY <1>1, FailsMinds
<1>2. CASE ~Fails(t)
  <2>1. Stays(t, k) /\ ui'.rows = ui.rows /\ ui'.total = ui.total
    BY <1>0, <1>2 DEF Reget, Screens
  <2>2. k.todo = q
    BY <1>0 DEF Tasks
  <2>3. f # <<>> => f \in Seq(Steps) /\ Ordered(f) /\ Head(f) = "access"
    BY <1>0, NextStep
  <2>4. f # <<>>
    <3>1. Len(p) \in Nat /\ Len(p) # 0
      BY <1>0, LenProperties, EmptySeq
    <3>2. 1 \in 1 .. Len(p) /\ p[1] = "reget"
      BY <1>0, <3>1, HeadIsFirst
    <3>3. 1 < Len(p)
      BY <1>0, <3>2 DEF Ordered
    <3>4. Len(f) = Len(p) - 1 /\ f \in Seq(Steps)
      BY <1>0, <3>1, HeadTailProperties
    <3> HIDE DEF p, f
    <3> QED
      BY <3>1, <3>3, <3>4
  <2> HIDE DEF k, f
  <2>5. Tail(f) # <<>> => Head(Tail(f)) # "page"
    BY <2>3, <2>4, NextStep
  <2>6. q = <<>> \/ Head(q) # "page"
    BY <2>3, <2>4, <2>5
  <2> HIDE DEF q
  <2> QED
    BY <2>1, <2>2, <2>6, StaysMinds
<1> QED
  BY <1>1, <1>2

LEMMA NextRotationMinds ==
  ASSUME Good, NEW t \in Slots, NextRotation(t) PROVE Minds(t)
<1>0. tasks[t] \in Tasks(drawn) /\ ui' = ui /\ At(t, "next")
  BY TaskFacts DEF NextRotation
<1>1. CASE tasks[t].ids = {}
  <2>1. Goes(t, tasks[t])
    BY <1>1 DEF NextRotation
  <2> QED
    BY <1>0, <2>1, SameProgram, GoesMinds
<1>2. CASE tasks[t].ids # {}
  <2> DEFINE p == <<"det", "members", "rotate">> \o After \o <<"back", "next">>
  <2>1. PICK s, a, b : Stays(t, [tasks[t] EXCEPT !.id = s, !.ids = a, !.prev = b, !.todo = p])
    BY <1>0, <1>2 DEF NextRotation, Tasks
  <2>2. Head(p) = "det"
    BY RotationProgram
  <2> HIDE DEF p
  <2> DEFINE k == [tasks[t] EXCEPT !.id = s, !.ids = a, !.prev = b, !.todo = p]
  <2>3. k.todo = p /\ Stays(t, k)
    BY <1>0, <2>1 DEF Tasks
  <2> HIDE DEF k
  <2> QED
    BY <1>0, <2>2, <2>3, StaysMinds
<1> QED
  BY <1>1, <1>2

LEMMA WritesMind ==
  ASSUME Good, NEW t \in Slots, \/ PutForm(t) \/ PostShare(t) \/ Members(t) \/ PostRotate(t)
                                \/ EndBatch(t) \/ Prepare(t) \/ EndDelete(t) \/ DeleteShown(t)
                                \/ PostCreate(t) \/ Join(t) \/ Leave(t)
  PROVE  Minds(t)
<1>0. /\ ui \in Screens(drawn) /\ tasks[t] \in Tasks(drawn)
      /\ ClosePanel.rows = ui.rows /\ ClosePanel.total = ui.total
  BY ScreenFacts, TaskFacts, ClosedScreen
<1>1. ui'.rows = ui.rows /\ ui'.total = ui.total
  BY <1>0 DEF PutForm, PostShare, Members, PostRotate, EndBatch, Prepare, EndDelete, DeleteShown,
              PostCreate, Join, Leave, Fails, Screens
<1>2. CASE Fails(t)
  BY <1>2, FailsMinds
<1>3. CASE PutForm(t) /\ ~Fails(t)
  <2> DEFINE k == [tasks[t] EXCEPT !.got = {}]
  <2>1. At(t, "put") /\ (Goes(t, k) \/ tasks' = [tasks EXCEPT ![t] = NoTask]) /\ Runs(t, k)
    BY <1>0, <1>3, SameProgram DEF PutForm
  <2> HIDE DEF k
  <2> QED
    BY <1>1, <2>1, GoesMinds, EndsMinds
<1>4. CASE PostShare(t) /\ ~Fails(t)
  <2> DEFINE k == [tasks[t] EXCEPT !.id = SecretNow(t)]
  <2>1. At(t, "share") /\ Goes(t, k) /\ Runs(t, k)
    BY <1>0, <1>4, SameProgram DEF PostShare
  <2> HIDE DEF k
  <2> QED
    BY <1>1, <2>1, GoesMinds
<1>5. CASE Members(t) /\ ~Fails(t)
  <2>1. PICK a : Goes(t, [tasks[t] EXCEPT !.got = a])
    BY <1>5 DEF Members
  <2> DEFINE k == [tasks[t] EXCEPT !.got = a]
  <2>2. At(t, "members") /\ Goes(t, k) /\ Runs(t, k)
    BY <1>0, <1>5, <2>1, SameProgram DEF Members
  <2> HIDE DEF k
  <2> QED
    BY <1>1, <2>2, GoesMinds
<1>6. CASE PostRotate(t) /\ ~Fails(t)
  <2> DEFINE k == [tasks[t] EXCEPT !.id = ui.cur.id, !.got = {}]
  <2>1. At(t, "rotate") /\ Goes(t, k) /\ Runs(t, k)
    BY <1>0, <1>6, SameProgram DEF PostRotate
  <2> HIDE DEF k
  <2> QED
    BY <1>1, <2>1, GoesMinds
<1>7. CASE EndBatch(t)
  <2>1. PICK step \in {"batchedit", "post", "unshare"} : At(t, step)
    BY <1>7 DEF EndBatch
  <2>2. Goes(t, tasks[t]) /\ step # "reset"
    BY <1>7 DEF EndBatch
  <2> QED
    BY <1>0, <1>1, <2>1, <2>2, SameProgram, GoesMinds
<1>8. CASE Prepare(t) /\ ~Fails(t)
  <2> DEFINE to == tasks[t].us \cup MembersOf(tasks[t].gs)
             k == [tasks[t] EXCEPT !.us = to, !.ids = {}]
  <2>1. At(t, "prep") /\ Goes(t, k) /\ Runs(t, k)
    BY <1>0, <1>8, SameProgram DEF Prepare
  <2> HIDE DEF k
  <2> QED
    BY <1>1, <2>1, GoesMinds
<1>9. CASE EndDelete(t)
  <2> DEFINE k == [tasks[t] EXCEPT !.got = {}]
  <2>1. At(t, "kill") /\ Goes(t, k) /\ Runs(t, k)
    BY <1>0, <1>9, SameProgram DEF EndDelete
  <2> HIDE DEF k
  <2> QED
    BY <1>1, <2>1, GoesMinds
<1>10. CASE DeleteShown(t) /\ ~Fails(t)
  <2>1. At(t, "delete") /\ Goes(t, tasks[t])
    BY <1>10 DEF DeleteShown
  <2> QED
    BY <1>0, <1>1, <2>1, SameProgram, GoesMinds
<1>11. CASE PostCreate(t) /\ ~Fails(t)
  <2>1. At(t, "create") /\ Goes(t, tasks[t])
    BY <1>11 DEF PostCreate
  <2> QED
    BY <1>0, <1>1, <2>1, SameProgram, GoesMinds
<1>12. CASE Join(t)
  <2>1. PICK a : Goes(t, [tasks[t] EXCEPT !.got = a])
    BY <1>12 DEF Join
  <2> DEFINE k == [tasks[t] EXCEPT !.got = a]
  <2>2. At(t, "join") /\ Goes(t, k) /\ Runs(t, k)
    BY <1>0, <1>12, <2>1, SameProgram DEF Join
  <2> HIDE DEF k
  <2> QED
    BY <1>1, <2>2, GoesMinds
<1>13. CASE Leave(t)
  <2>1. PICK a : Goes(t, [tasks[t] EXCEPT !.ids = a, !.gs = {}])
    BY <1>13 DEF Leave
  <2> DEFINE k == [tasks[t] EXCEPT !.ids = a, !.gs = {}]
  <2>2. At(t, "leave") /\ Goes(t, k) /\ Runs(t, k)
    BY <1>0, <1>13, <2>1, SameProgram DEF Leave
  <2> HIDE DEF k
  <2> QED
    BY <1>1, <2>2, GoesMinds
<1> QED
  BY <1>2, <1>3, <1>4, <1>5, <1>6, <1>7, <1>8, <1>9, <1>10, <1>11, <1>12, <1>13

\* One secret of a batch.
LEMMA OneOfBatchMinds ==
  ASSUME Good, NEW t \in Slots, EditOne(t) \/ ShareOne(t) \/ UnshareOne(t) \/ DeleteOne(t)
  PROVE  Minds(t)
<1>0. tasks[t] \in Tasks(drawn) /\ ui' = ui
  BY TaskFacts DEF EditOne, ShareOne, UnshareOne, DeleteOne
<1>1. PICK step \in {"batchedit", "post", "unshare", "kill"} : At(t, step)
  BY DEF EditOne, ShareOne, UnshareOne, DeleteOne
<1>2. ASSUME NEW a, NEW b, Stays(t, [tasks[t] EXCEPT !.ids = a, !.got = b]) PROVE Minds(t)
  <2> DEFINE k == [tasks[t] EXCEPT !.ids = a, !.got = b]
  <2>1. Stays(t, k) /\ k.todo = tasks[t].todo
    BY <1>0, <1>2 DEF Tasks
  <2> HIDE DEF k
  <2> QED
    BY <1>0, <1>1, <2>1, AgainMinds
<1>3. ASSUME NEW a, Stays(t, [tasks[t] EXCEPT !.got = a]) PROVE Minds(t)
  <2> DEFINE k == [tasks[t] EXCEPT !.got = a]
  <2>1. Stays(t, k) /\ k.todo = tasks[t].todo
    BY <1>0, <1>3 DEF Tasks
  <2> HIDE DEF k
  <2> QED
    BY <1>0, <1>1, <2>1, AgainMinds
<1>4. ASSUME NEW a, Stays(t, [tasks[t] EXCEPT !.ids = a]) PROVE Minds(t)
  <2> DEFINE k == [tasks[t] EXCEPT !.ids = a]
  <2>1. Stays(t, k) /\ k.todo = tasks[t].todo
    BY <1>0, <1>4 DEF Tasks
  <2> HIDE DEF k
  <2> QED
    BY <1>0, <1>1, <2>1, AgainMinds
<1>5. CASE EditOne(t)
  <2>1. (\E a, b : Stays(t, [tasks[t] EXCEPT !.ids = a, !.got = b]))
        \/ \E a : Stays(t, [tasks[t] EXCEPT !.got = a])
    BY <1>0, <1>5 DEF EditOne, Tasks
  <2> QED
    BY <1>2, <1>3, <2>1
<1>6. CASE ShareOne(t)
  <2>1. \E a : Stays(t, [tasks[t] EXCEPT !.got = a])
    BY <1>0, <1>6 DEF ShareOne, Tasks
  <2> QED
    BY <1>3, <2>1
<1>7. CASE UnshareOne(t)
  <2>1. (\E a, b : Stays(t, [tasks[t] EXCEPT !.ids = a, !.got = b]))
        \/ \E a : Stays(t, [tasks[t] EXCEPT !.got = a])
    BY <1>0, <1>7 DEF UnshareOne, Tasks
  <2> QED
    BY <1>2, <1>3, <2>1
<1>8. CASE DeleteOne(t)
  <2>1. (\E a, b : Stays(t, [tasks[t] EXCEPT !.ids = a, !.got = b]))
        \/ \E a : Stays(t, [tasks[t] EXCEPT !.ids = a])
    BY <1>0, <1>8 DEF DeleteOne, Tasks
  <2> QED
    BY <1>2, <1>4, <2>1
<1> QED
  BY <1>5, <1>6, <1>7, <1>8

\* The rows of the list, now and after a step.
LEMMA RowsListed == Server => Listed \in Seq(Row(drawn))
BY ListedRows

LEMMA RowsListedLater == Server' => (Listed \in Seq(Row(drawn)))'
BY RowsListed, PTL

\* A reset empties the list, and no other load waits for a page then.
LEMMA ResetQuiet ==
  ASSUME Good, Good', NEW t \in Slots, Reset(t), Watch PROVE Quiet'
<1> DEFINE p == tasks[t].todo
           f == Tail(p)
           w == IF Len(ui.rows) > PageSize THEN Len(ui.rows) ELSE PageSize
           k == [tasks[t] EXCEPT !.from = 0, !.want = w]
           x == [k EXCEPT !.todo = Tail(k.todo)]
<1>0. /\ ui \in Screens(drawn) /\ tasks[t] \in Tasks(drawn) /\ p \in Seq(Steps) /\ Ordered(p)
      /\ p # <<>> /\ Head(p) = "reset"
  BY ScreenFacts, TaskFacts DEF Reset
<1>1. tasks' = [tasks EXCEPT ![t] = IF Tail(k.todo) = <<>> THEN NoTask ELSE x]
      /\ ui' = [ui EXCEPT !.rows = <<>>]
  BY DEF Reset, Goes, Rest
<1>2. k.todo = p /\ x.todo = f /\ x.from = 0 /\ ui'.rows = <<>>
  BY <1>0, <1>1 DEF Tasks, Screens
<1>3. f # <<>>
  <2>1. Len(p) \in Nat /\ Len(p) # 0
    BY <1>0, LenProperties, EmptySeq
  <2>2. 1 \in 1 .. Len(p) /\ p[1] = "reset"
    BY <1>0, <2>1, HeadIsFirst
  <2>3. 1 < Len(p)
    BY <1>0, <2>2 DEF Ordered
  <2>4. Len(f) = Len(p) - 1 /\ f \in Seq(Steps)
    BY <1>0, <2>1, HeadTailProperties
  <2> HIDE DEF p, f
  <2> QED
    BY <2>1, <2>3, <2>4
<1>4. Head(f) = "page"
  BY <1>0, <1>3, NextStep
<1>5. tasks'[t] = x
  BY <1>1, <1>2, <1>3 DEF Good
<1> HIDE DEF f, x, k
<1>6. t \in Loads' /\ tasks'[t].from = 0
  BY <1>2, <1>3, <1>4, <1>5 DEF Loads, At
<1>7. calm' \in BOOLEAN
  BY DEF Watch
<1>8. ASSUME calm'
      PROVE  QuietListIsTrue' /\ (Cardinality(Loads) < 2)'
             /\ \A u \in Loads' : tasks'[u].from = Len(ui'.rows)
  <2>1. Cardinality(Loads') < 2
    BY <1>8 DEF Watch
  <2>2. \A u \in Loads' : tasks'[u].from = Len(ui'.rows)
    BY <1>2, <1>6, <2>1, OneLoadLater
  <2>3. IsPrefix(<<>>, Listed')
    <3>1. Server'
      BY DEF Good
    <3>2. (Listed \in Seq(Row(drawn)))'
      BY <3>1, RowsListedLater
    <3> QED
      BY <3>2 DEF IsPrefix
  <2>4. QuietListIsTrue'
    BY <1>2, <2>3 DEF QuietListIsTrue
  <2> QED
    BY <2>1, <2>2, <2>4
<1> QED
  BY <1>7, <1>8 DEF Quiet

LEMMA PrefixOf ==
  ASSUME NEW S, NEW r \in Seq(S), NEW q \in Seq(S)
  PROVE  IsPrefix(r, q) <=> Len(r) <= Len(q) /\ \A i \in 1 .. Len(r) : r[i] = q[i]
<1>0. Len(r) \in Nat /\ Len(q) \in Nat
  BY LenProperties
<1> DEFINE a == SubSeq(r, 1, Len(r))
           b == SubSeq(q, 1, Len(r))
<1>1. a = r
  BY <1>0
<1>2. ASSUME Len(r) <= Len(q)
      PROVE  b \in Seq(S) /\ Len(b) = Len(r) /\ \A i \in 1 .. Len(r) : b[i] = q[i]
  <2>1. \A i \in 1 .. Len(r) : q[i] \in S
    BY <1>0, <1>2, ElementOfSeq
  <2> QED
    BY <1>0, <2>1
<1>3. IsPrefix(r, q) <=> Len(r) <= Len(q) /\ a = b
  BY DEF IsPrefix
<1> HIDE DEF a, b
<1>4. ASSUME Len(r) <= Len(q) PROVE a = b <=> \A i \in 1 .. Len(r) : r[i] = q[i]
  BY <1>0, <1>1, <1>2, <1>4, SeqEqual
<1> QED
  BY <1>3, <1>4

\* A page goes behind the rows it was asked for.
LEMMA PageQuiet ==
  ASSUME Good, Good', Quiet, NEW t \in Slots, Page(t), Watch PROVE Quiet'
<1> DEFINE p == PageFrom(Len(ui.rows))
           rows == ui.rows \o p
<1>0. /\ Server /\ ui \in Screens(drawn) /\ tasks[t] \in Tasks(drawn) /\ ui.rows \in Seq(Row(drawn))
      /\ At(t, "page") /\ tasks[t].todo \in Seq(Steps) /\ Ordered(tasks[t].todo)
      /\ tasks[t].todo # <<>> /\ Head(tasks[t].todo) = "page"
  BY ScreenFacts, TaskFacts DEF Page
<1>1. calm' \in BOOLEAN
  BY DEF Watch
<1>2. ui' = [ui EXCEPT !.total = Len(list), !.rows = @ \o PageFrom(tasks[t].from)]
  BY DEF Page
<1>3. \/ Stays(t, [tasks[t] EXCEPT !.from = Len(ui'.rows)])
      \/ Goes(t, tasks[t])
  BY DEF Page
<1>4. ASSUME NEW u \in Slots, u # t PROVE tasks'[u] = tasks[u]
  BY <1>3, <1>4 DEF Stays, Goes, Good
<1>5. t \in Loads' => tasks'[t].from = Len(ui'.rows)
  <2>1. CASE Stays(t, [tasks[t] EXCEPT !.from = Len(ui'.rows)])
    <3> DEFINE n == Len(ui'.rows)
    <3>1. tasks'[t] = [tasks[t] EXCEPT !.from = n]
      BY <2>1 DEF Stays, Good
    <3> HIDE DEF n
    <3>2. tasks'[t].from = n
      BY <1>0, <3>1 DEF Tasks
    <3> QED
      BY <3>2 DEF n
  <2>2. CASE Goes(t, tasks[t])
    <3> DEFINE f == Tail(tasks[t].todo)
               x == [tasks[t] EXCEPT !.todo = f]
    <3>1. tasks'[t] = IF f = <<>> THEN NoTask ELSE x
      BY <2>2 DEF Goes, Rest, Good
    <3>2. f # <<>> => Head(f) # "page"
      BY <1>0, NextStep
    <3>3. x.todo = f
      BY <1>0 DEF Tasks
    <3> HIDE DEF f, x
    <3>4. ~At(t, "page")'
      BY <3>1, <3>2, <3>3 DEF At, NoTask
    <3> QED
      BY <3>4 DEF Loads
  <2> QED
    BY <1>3, <2>1, <2>2
<1>6. ASSUME calm'
      PROVE  QuietListIsTrue' /\ (Cardinality(Loads) < 2)'
             /\ \A u \in Loads' : tasks'[u].from = Len(ui'.rows)
  <2>1. Cardinality(Loads') < 2
    BY <1>6 DEF Watch
  <2>2. ~\E u \in Slots : At(u, "reset") /\ u \in Loads'
    <3> SUFFICES ASSUME NEW u \in Slots, At(u, "reset"), u \in Loads' PROVE FALSE
      OBVIOUS
    <3>1. u # t
      BY <1>0 DEF At
    <3>2. tasks'[u] = tasks[u]
      BY <1>4, <3>1
    <3> QED
      BY <3>2 DEF Loads, At
  <2>3. calm /\ Listed' = Listed
    BY <1>6, <2>2 DEF Watch
  <2>4. /\ IsPrefix(ui.rows, Listed) /\ Cardinality(Loads) < 2
        /\ t \in Loads /\ tasks[t].from = Len(ui.rows)
    BY <1>0, <2>3 DEF Quiet, QuietListIsTrue, Loads
  <2>5. Len(list') = Len(list)
    BY <2>3, SameLength DEF Good
  <2>6. ui'.rows = rows /\ ui'.total = Len(list)
    BY <1>0, <1>2, <2>4 DEF Screens
  <2>7. /\ Listed \in Seq(Row(drawn)) /\ Len(Listed) = Len(list) /\ Len(list) \in Nat
        /\ Len(ui.rows) \in Nat
    BY <1>0, ListedRows, LenProperties
  <2>8. Len(ui.rows) <= Len(list) /\ \A i \in 1 .. Len(ui.rows) : ui.rows[i] = Listed[i]
    BY <1>0, <2>4, <2>7, PrefixOf
  <2>9. /\ p \in Seq(Row(drawn)) /\ Len(ui.rows) + Len(p) <= Len(list) /\ Len(p) \in Nat
        /\ \A j \in 1 .. Len(p) : p[j] = Listed[Len(ui.rows) + j]
    BY <1>0, <2>7, <2>8, PageRows, LenProperties
  <2> HIDE DEF p
  <2>10. rows \in Seq(Row(drawn)) /\ Len(rows) = Len(ui.rows) + Len(p)
    BY <1>0, <2>9
  <2>11. \A j \in 1 .. Len(ui.rows) + Len(p) :
           rows[j] = IF j <= Len(ui.rows) THEN ui.rows[j] ELSE p[j - Len(ui.rows)]
    <3>1. ui.rows \in Seq(Row(drawn)) /\ p \in Seq(Row(drawn))
      BY <1>0, <2>9
    <3> QED
      BY <3>1, ConcatProperties
  <2> HIDE DEF rows
  <2>12. ASSUME NEW j \in 1 .. Len(rows) PROVE rows[j] = Listed[j]
    <3>1. CASE j <= Len(ui.rows)
      BY <2>7, <2>8, <2>10, <2>11, <3>1
    <3>2. CASE ~(j <= Len(ui.rows))
      <4>1. j - Len(ui.rows) \in 1 .. Len(p) /\ Len(ui.rows) + (j - Len(ui.rows)) = j
        BY <2>7, <2>9, <2>10, <3>2
      <4>2. rows[j] = p[j - Len(ui.rows)]
        BY <2>10, <2>11, <3>2
      <4> QED
        BY <2>9, <4>1, <4>2
    <3> QED
      BY <3>1, <3>2
  <2>13. IsPrefix(rows, Listed)
    BY <2>7, <2>9, <2>10, <2>12, PrefixOf
  <2>14. QuietListIsTrue'
    BY <2>3, <2>5, <2>6, <2>13 DEF QuietListIsTrue
  <2>15. ASSUME NEW u \in Loads' PROVE tasks'[u].from = Len(ui'.rows)
    <3>1. CASE u = t
      BY <1>5, <2>15, <3>1
    <3>2. CASE u # t
      <4>1. u \in Slots /\ tasks'[u] = tasks[u]
        BY <1>4, <2>15, <3>2 DEF Loads
      <4>2. u \in Loads
        BY <2>15, <4>1 DEF Loads, At
      <4> QED
        BY <2>4, <3>2, <4>2, OneLoad
    <3> QED
      BY <3>1, <3>2
  <2> QED
    BY <2>1, <2>14, <2>15
<1> QED
  BY <1>1, <1>6 DEF Quiet

LEMMA ClickQuiet ==
  ASSUME Good, Good', Quiet, NEW t \in Slots, Click(t), Watch PROVE Quiet'
<1>1. Minds(t)
  BY LoadClicksMind, PanelClicksMind, BatchesMind DEF Click
<1> QED
  BY <1>1, QuietKept

LEMMA StepQuiet ==
  ASSUME Good, Good', Quiet, NEW t \in Slots, Step(t), Watch PROVE Quiet'
<1>1. CASE Reset(t)
  BY <1>1, ResetQuiet
<1>2. CASE Page(t)
  BY <1>2, PageQuiet
<1>3. CASE ~Reset(t) /\ ~Page(t)
  <2>1. Minds(t)
    BY <1>3, ReadsMind, RegetMinds, NextRotationMinds, WritesMind, OneOfBatchMinds DEF Step
  <2> QED
    BY <2>1, QuietKept
<1> QED
  BY <1>1, <1>2, <1>3

LEMMA OthersQuiet ==
  ASSUME Good, Good', Quiet, Elsewhere \/ CloseSecret \/ EditForm \/ CloseShareEditor, Watch
  PROVE  Quiet'
<1>1. ui \in Screens(drawn) /\ ClosePanel.rows = ui.rows /\ ClosePanel.total = ui.total
  BY ScreenFacts, ClosedScreen DEF Good
<1>2. tasks' = tasks /\ ui'.rows = ui.rows /\ ui'.total = ui.total
  BY <1>1 DEF Elsewhere, CloseSecret, EditForm, CloseShareEditor, Screens
<1>3. Minds(NoTask)
  BY <1>2, NoneMinds
<1> QED
  BY <1>3, QuietKept

LEMMA NextQuiet ==
  ASSUME Good, Good', Quiet, [Next]_vars PROVE Quiet'
<1>1. CASE UNCHANGED vars
  <2>1. calm' = calm /\ ui' = ui /\ tasks' = tasks /\ list' = list /\ srv' = srv
    BY <1>1 DEF vars
  <2>2. Loads' = Loads /\ Listed' = Listed
    BY <2>1 DEF Loads, At, Listed, Det
  <2> QED
    BY <2>1, <2>2 DEF Quiet, QuietListIsTrue
<1>2. CASE Next
  <2>1. Watch
    BY <1>2 DEF Next
  <2>2. ASSUME NEW t \in Slots, Lost(t) PROVE Quiet'
    BY <2>1, <2>2, LostMinds, QuietKept
  <2> QED
    BY <1>2, <2>1, <2>2, ClickQuiet, StepQuiet, OthersQuiet DEF Next
<1> QED
  BY <1>1, <1>2

LEMMA InitQuiet ==
  ASSUME Init PROVE Quiet
<1>0. Server
  BY InitServer
<1>1. ui.rows = PageFrom(0) /\ ui.total = Len(list) /\ calm = TRUE /\ tasks = [t \in Slots |-> NoTask]
  BY DEF Init
<1>2. Loads = {}
  BY <1>1 DEF Loads, At, NoTask
<1>3. Cardinality(Loads) < 2
  BY <1>2, FS_EmptySet
<1>4. /\ PageFrom(0) \in Seq(Row(drawn)) /\ Listed \in Seq(Row(drawn)) /\ Len(Listed) = Len(list)
      /\ 0 + Len(PageFrom(0)) <= Len(list)
      /\ \A j \in 1 .. Len(PageFrom(0)) : PageFrom(0)[j] = Listed[0 + j]
  BY <1>0, PageRows, ListedRows
<1> DEFINE p == PageFrom(0)
<1>5. Len(p) \in Nat /\ \A j \in 1 .. Len(p) : 0 + j = j
  BY <1>4, LenProperties
<1> HIDE DEF p
<1>6. p \in Seq(Row(drawn)) /\ Len(p) <= Len(Listed) /\ \A j \in 1 .. Len(p) : p[j] = Listed[j]
  BY <1>4, <1>5 DEF p
<1>7. IsPrefix(p, Listed)
  BY <1>4, <1>6, PrefixOf
<1> QED
  BY <1>1, <1>2, <1>3, <1>7 DEF Quiet, QuietListIsTrue, p

\* While the list counts as quiet there is at most one load, which goes on
\* behind the rows there are (refreshSecrets, ensureAllSecretsLoaded).
THEOREM AlwaysQuiet == Spec => []GoodQuiet
<1>1. Init => GoodQuiet
  BY InitGood, InitQuiet DEF GoodQuiet
<1>2. GoodQuiet /\ [Next]_vars => GoodQuiet'
  BY NextGood, NextQuiet DEF GoodQuiet
<1> QED
  BY <1>1, <1>2, PTL DEF Spec

-----------------------------------------------------------------------------
(* The theorems.                                                           *)

LEMMA TypesFollow == Good => TypeOK
<1> SUFFICES ASSUME Good PROVE TypeOK
  OBVIOUS
<1>0. Server /\ ScreenOK(ui, srv, drawn)
  BY DEF Good
<1>1. ASSUME NEW s \in Secrets
      PROVE  LET x == srv[s] IN
             /\ {x.key, x.mine} \subseteq 0..drawn
             /\ x.kv \in 0..1 + drawn - Cardinality(DOMAIN SharedWith) /\ x.of \in Secrets /\ x.cut \subseteq Users
             /\ x.users \subseteq Users /\ x.groups \subseteq Groups /\ x.env \in [Users -> 0..drawn]
  <2>1. srv[s] \in Stored(drawn)
    BY <1>0, StoredTypes
  <2> QED
    BY <2>1 DEF Stored, Versions, First
<1>2. ToSet(list) \subseteq Secrets /\ Cardinality(ToSet(list)) = Len(list)
  BY <1>0, StoredTypes, ListedRows
<1>3. Ids(ui.rows) \subseteq Secrets /\ ui.total \in 0..Cardinality(Secrets)
  BY <1>0, RowsKnown DEF ScreenOK, Screens
<1>4. {ui.cur.id, ui.body, ui.form} \subseteq Secrets \cup {None}
  BY <1>0, ScreenFacts
<1>5. ASSUME NEW t \in Slots PROVE ToSet(tasks[t].todo) \subseteq Steps
  <2>1. tasks[t].todo \in Seq(Steps)
    BY TaskFacts
  <2> QED
    BY <2>1, LenProperties, ElementOfSeq DEF ToSet
<1> QED
  BY <1>1, <1>2, <1>3, <1>4, <1>5 DEF TypeOK

\* Whatever runs at once, the globals, the handlers that wait and the server
\* stay in their types, no secret is in the list twice, and no version is
\* higher than the data keys drawn account for.
THEOREM WebVaultTypes == Spec => []TypeOK
BY Always, TypesFollow, PTL

\* Whatever runs at once, every envelope of a secret holds the key the user's
\* own envelope holds: no recipient of an access change, a batch or a change
\* of members is sealed the key of another secret or of another version
\* (shareSecretWithUser, shareSecretByTarget, rotateSecretExcludingUser).
THEOREM EnvelopesHoldOneKey == Spec => []EnvelopesAgree
<1>1. Good => EnvelopesAgree
  BY DEF Good, Agree, EnvelopesAgree
<1> QED
  BY <1>1, Always, PTL

\* A list that was reset with no other load beside it and has not changed on
\* the server since holds the server's secrets from the first on, each once and
\* in their order, and counts them right (refreshSecrets, ensureAllSecretsLoaded).
THEOREM QuietListTrue == Spec => []QuietListIsTrue
<1>1. GoodQuiet => QuietListIsTrue
  BY DEF GoodQuiet, Quiet, QuietListIsTrue
<1> QED
  BY <1>1, AlwaysQuiet, PTL
=============================================================================
