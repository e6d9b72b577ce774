-------------------------- MODULE Extension_proofs --------------------------
(***************************************************************************)
(* Theorems about Extension: what is typed goes into the page the user     *)
(* clicked on and the entry allows, and the paging of the list stays       *)
(* inside the list, for any secrets, origins, accounts, addresses, page    *)
(* sizes and bounds.                                                       *)
(*                                                                         *)
(* The list the server answers with is filtered by a recursive function of *)
(* the position; its lemmas use the first-order induction of               *)
(* ImportExport_proofs.                                                    *)
(***************************************************************************)
EXTENDS Extension, FiniteSetTheorems, SequenceTheorems, WellFoundedInduction, TLAPS

-----------------------------------------------------------------------------
(* What a Fill or Copy has found out about the tab, by the step it waits    *)
(* at.  The tab may navigate in between; the message says where it was.     *)
AskedAllowed == task.at \in {"payload", "send"} => Allowed(task, task.asked)

SentToAsked == task.at = "send" => task.asked = None \/ task.origin = task.asked

TaskInvariant == AskedAllowed /\ SentToAsked

\* Typing is the page's decision: if it agrees with the message, the message is
\* about the origin of the click.
LEMMA SentMeansFilled == TaskInvariant => FilledWhereAllowed
BY DEF TaskInvariant, AskedAllowed, SentToAsked, FilledWhereAllowed, Types

LEMMA InitTask == Init => TaskInvariant
BY DEF Init, Idle, TaskInvariant, AskedAllowed, SentToAsked

LEMMA NextTask ==
  ASSUME TaskInvariant, [Next]_vars
  PROVE  TaskInvariant'
<1>1. CASE UNCHANGED task
  BY <1>1 DEF TaskInvariant, AskedAllowed, SentToAsked, Allowed
<1>2. CASE task' = Idle
  BY <1>2 DEF Idle, TaskInvariant, AskedAllowed, SentToAsked
<1>3. ASSUME NEW kind \in {"fill", "copy"}, NEW e \in pop.cache, Click(kind, e)
      PROVE  TaskInvariant'
  <2> DEFINE o == IF kind = "fill" THEN page ELSE pop.tab
  <2>1. CASE ~Allowed(e, o)
    BY <1>2, <1>3, <2>1 DEF Click
  <2>2. CASE Allowed(e, o)
    <3> DEFINE new == [at |-> "payload", kind |-> kind, id |-> e.id, origins |-> e.origins, asked |-> o]
    <3>1. task' = new
      BY <1>3, <2>2 DEF Click
    <3>2. new.at = "payload" /\ new.origins = e.origins /\ new.asked = o
      OBVIOUS
    <3> HIDE DEF new
    <3> QED
      BY <2>2, <3>1, <3>2 DEF TaskInvariant, AskedAllowed, SentToAsked, Allowed
  <2> QED
    BY <2>1, <2>2
<1>4. CASE Payload
  <2>1. CASE task' # Idle
    <3> DEFINE urls == vault.urls[task.id]
               new == [at |-> "send", origins |-> task.origins, asked |-> task.asked,
                       origin |-> page, fits |-> urls = {} \/ task.asked \in urls]
    <3>1. task' = new /\ task.at = "payload" /\ task.asked \in {None, page}
      BY <1>4, <2>1 DEF Payload
    <3>2. /\ new.at = "send" /\ new.origins = task.origins
          /\ new.asked = task.asked /\ new.origin = page
      OBVIOUS
    <3> HIDE DEF new
    <3> QED
      BY <3>1, <3>2 DEF TaskInvariant, AskedAllowed, SentToAsked, Allowed
  <2> QED
    BY <1>2, <2>1
<1>5. CASE UNCHANGED vars
  BY <1>1, <1>5 DEF vars
<1>6. CASE \E u \in Users : SignIn(u) \/ TotpStep(u)
  BY <1>1, <1>6 DEF SignIn, TotpStep
<1>7. CASE SaveBase \/ BeginUnlock \/ Lock \/ Logout
  BY <1>1, <1>7 DEF SaveBase, BeginUnlock, Lock, Logout
<1>8. CASE Edit \/ Navigate \/ EndUnlock \/ LoggedOut \/ RefreshStep \/ Focus \/ CoolDown
  BY <1>1, <1>8 DEF Edit, Navigate, EndUnlock, LoggedOut, RefreshStep, FetchPage, OpenTitle,
     OpenPayload, EndRefresh, FailRefresh, Focus, CoolDown
<1>9. CASE Reopen \/ Fill
  BY <1>2, <1>9 DEF Reopen, Fill
<1> QED
  BY <1>3, <1>4, <1>5, <1>6, <1>7, <1>8, <1>9 DEF Next, User

\* Whatever the tab, the vault and the popup do while the payload is fetched, text is
\* typed only into the origin that was active at the click, unless the browser hid
\* that one, and only where the entry the user clicked on allows (popup.js
\* fillTab, content.js fillLogin).
THEOREM TypedWhereAllowed == Spec => []FilledWhereAllowed
BY InitTask, NextTask, SentMeansFilled, PTL DEF Spec

-----------------------------------------------------------------------------
(* Induction over a set of numbers and over a set of sequences.             *)

LEMMA Least ==
  ASSUME NEW T, T \subseteq Nat, T # {}
  PROVE  \E x \in T : \A y \in T : x <= y
<1> DEFINE R == OpToRel(<, Nat)
<1>1. R = {r \in Nat \X Nat : r[1] < r[2]}
  BY DEF OpToRel
<1>2. IsWellFoundedOn(R, Nat)
  BY NatLessThanWellFounded
<1> HIDE DEF R
<1>3. PICK x \in T : \A y \in T : ~ (<<y, x>> \in R)
  BY <1>2, WFMin
<1>4. \A y \in T : x <= y
  <2> SUFFICES ASSUME NEW y \in T, ~ (x <= y) PROVE FALSE
    OBVIOUS
  <2>1. y \in Nat /\ x \in Nat
    OBVIOUS
  <2>2. y < x
    BY <2>1
  <2>3. <<y, x>> \in Nat \X Nat
    BY <2>1
  <2>4. <<y, x>> \in R
    BY <1>1, <2>2, <2>3
  <2> QED
    BY <1>3, <2>4
<1> QED
  BY <1>4

\* Induction over the numbers, for a set of them.
LEMMA Induct ==
  ASSUME NEW S, 0 \in S, \A n \in Nat : n \in S => n + 1 \in S
  PROVE  Nat \subseteq S
<1> SUFFICES ASSUME Nat \ S # {} PROVE FALSE
  OBVIOUS
<1>1. PICK x \in Nat \ S : \A y \in Nat \ S : x <= y
  BY Least
<1>2. x # 0
  OBVIOUS
<1>3. x - 1 \in Nat /\ x - 1 \in S
  BY <1>1, <1>2
<1> QED
  BY <1>1, <1>3

\* Induction over sequences, for a set of them.
LEMMA SeqInduct ==
  ASSUME NEW T, NEW P, <<>> \in P,
         \A s \in Seq(T), x \in T : s \in P => Append(s, x) \in P
  PROVE  Seq(T) \subseteq P
<1> DEFINE S == {n \in Nat : \A s \in Seq(T) : Len(s) = n => s \in P}
<1>1. 0 \in S
  BY EmptySeq
<1>2. ASSUME NEW n \in Nat, n \in S PROVE n + 1 \in S
  <2> SUFFICES ASSUME NEW s \in Seq(T), Len(s) = n + 1 PROVE s \in P
    OBVIOUS
  <2>1. s # <<>>
    BY EmptySeq
  <2>2. PICK t \in Seq(T), x \in T : s = Append(t, x)
    BY <2>1, SequenceEmptyOrAppend
  <2>3. Len(t) = n
    BY <2>2, AppendProperties
  <2> QED
    BY <1>2, <2>2, <2>3
<1>3. Nat \subseteq S
  <2> HIDE DEF S
  <2> QED
    BY <1>1, <1>2, Induct
<1> QED
  BY <1>3, LenProperties

\* g[n] is what the first n steps of F make of b; m is their number.
Folds(g, m, b, F, D) ==
  g \in [0 .. m -> D] /\ g[0] = b /\ \A n \in 1 .. m : g[n] = F[n][g[n - 1]]

LEMMA FoldExists ==
  ASSUME NEW m \in Nat, NEW D, NEW b \in D, NEW F \in [1 .. m -> [D -> D]]
  PROVE  \E g : Folds(g, m, b, F, D)
<1> DEFINE S == {k \in Nat : k <= m => \E g : Folds(g, k, b, F, D)}
<1>1. 0 \in S
  <2> DEFINE g == [n \in 0 .. 0 |-> b]
  <2>1. Folds(g, 0, b, F, D)
    BY DEF Folds
  <2> QED
    BY <2>1
<1>2. ASSUME NEW k \in Nat, k \in S PROVE k + 1 \in S
  <2> SUFFICES ASSUME k + 1 <= m PROVE \E g : Folds(g, k + 1, b, F, D)
    OBVIOUS
  <2>1. PICK h : Folds(h, k, b, F, D)
    BY <1>2
  <2> DEFINE g == [n \in 0 .. k + 1 |-> IF n <= k THEN h[n] ELSE F[k + 1][h[k]]]
  <2>2. h \in [0 .. k -> D] /\ F[k + 1] \in [D -> D] /\ h[k] \in D
    BY <2>1 DEF Folds
  <2>3. g \in [0 .. k + 1 -> D]
    BY <2>2
  <2>4. \A n \in 1 .. k + 1 : g[n] = F[n][g[n - 1]]
    <3> TAKE n \in 1 .. k + 1
    <3>1. CASE n <= k
      <4>1. h[n] = F[n][h[n - 1]]
        BY <2>1, <3>1 DEF Folds
      <4>2. g[n] = h[n] /\ g[n - 1] = h[n - 1]
        BY <3>1
      <4> HIDE DEF g
      <4> QED
        BY <4>1, <4>2
    <3>2. CASE n = k + 1
      <4>1. g[n] = F[k + 1][h[k]] /\ g[n - 1] = h[k]
        BY <3>2
      <4> HIDE DEF g
      <4> QED
        BY <4>1, <3>2
    <3> QED
      BY <3>1, <3>2
  <2>5. g[0] = b
    BY <2>1 DEF Folds
  <2> HIDE DEF g
  <2>6. Folds(g, k + 1, b, F, D)
    BY <2>3, <2>4, <2>5 DEF Folds
  <2> QED
    BY <2>6
<1>3. Nat \subseteq S
  <2> HIDE DEF S
  <2> QED
    BY <1>1, <1>2, Induct
<1> QED
  BY <1>3

\* A function that takes the steps of F where it stays in D stays in D.
LEMMA FoldIs ==
  ASSUME NEW m \in Nat, NEW D, NEW b \in D, NEW F \in [1 .. m -> [D -> D]], NEW g,
         g = [n \in 0 .. m |-> g[n]], g[0] = b, 
         \A n \in 1 .. m : g[n - 1] \in D => g[n] = F[n][g[n - 1]]
  PROVE  Folds(g, m, b, F, D)
<1> DEFINE S == {n \in Nat : n <= m => g[n] \in D}
<1>1. 0 \in S
  OBVIOUS
<1>2. ASSUME NEW n \in Nat, n \in S PROVE n + 1 \in S
  <2> SUFFICES ASSUME n + 1 <= m PROVE g[n + 1] \in D
    OBVIOUS
  <2>1. n + 1 \in 1 .. m /\ (n + 1) - 1 = n /\ g[n] \in D
    BY <1>2
  <2>2. F[n + 1] \in [D -> D]
    BY <2>1
  <2> QED
    BY <2>1, <2>2
<1>3. Nat \subseteq S
  <2> HIDE DEF S
  <2> QED
    BY <1>1, <1>2, Induct
<1>4. \A n \in 0 .. m : g[n] \in D
  <2> TAKE n \in 0 .. m
  <2>1. n \in Nat /\ n <= m
    OBVIOUS
  <2> QED
    BY <1>3, <2>1
<1>5. g \in [0 .. m -> D]
  BY <1>4
<1>6. \A n \in 1 .. m : g[n] = F[n][g[n - 1]]
  <2> TAKE n \in 1 .. m
  <2>1. n - 1 \in 0 .. m
    OBVIOUS
  <2> QED
    BY <1>4, <2>1
<1> QED
  BY <1>5, <1>6 DEF Folds

\* A fold with one step more goes on from where the other one ends.
LEMMA FoldNext ==
  ASSUME NEW m \in Nat, NEW D, NEW b \in D, NEW F, NEW G, NEW g, NEW h,
         Folds(g, m, b, F, D), Folds(h, m + 1, b, G, D), \A n \in 1 .. m : F[n] = G[n]
  PROVE  h[m + 1] = G[m + 1][g[m]] /\ g[m] \in D
<1> DEFINE S == {n \in Nat : n <= m => g[n] = h[n]}
<1>1. 0 \in S
  BY DEF Folds
<1>2. ASSUME NEW n \in Nat, n \in S PROVE n + 1 \in S
  <2> SUFFICES ASSUME n + 1 <= m PROVE g[n + 1] = h[n + 1]
    OBVIOUS
  <2>1. n + 1 \in 1 .. m /\ n + 1 \in 1 .. m + 1 /\ (n + 1) - 1 = n
    OBVIOUS
  <2>2. g[n] = h[n]
    BY <1>2
  <2>3. g[n + 1] = F[n + 1][g[n]] /\ h[n + 1] = G[n + 1][h[n]]
    BY <2>1 DEF Folds
  <2> QED
    BY <2>1, <2>2, <2>3
<1>3. Nat \subseteq S
  <2> HIDE DEF S
  <2> QED
    BY <1>1, <1>2, Induct
<1>4. g[m] = h[m]
  BY <1>3
<1>5. h[m + 1] = G[m + 1][h[m]]
  <2>1. m + 1 \in 1 .. m + 1 /\ (m + 1) - 1 = m
    OBVIOUS
  <2> QED
    BY <2>1 DEF Folds
<1>6. g[m] \in D
  BY DEF Folds
<1> QED
  BY <1>4, <1>5, <1>6

-----------------------------------------------------------------------------
(* Folds of the model: what a recursive function of a sequence does with one *)
(* more element.                                                            *)

WithoutSteps(s, S, D) == [n \in 1 .. Len(s) |-> [q \in D |-> IF s[n] \in S THEN q ELSE Append(q, s[n])]]

LEMMA WithoutFold ==
  ASSUME NEW T, NEW S, NEW s \in Seq(T)
  PROVE  \E g : Folds(g, Len(s), <<>>, WithoutSteps(s, S, Seq(T)), Seq(T)) /\ Without(s, S) = g[Len(s)]
<1> DEFINE D == Seq(T)
           m == Len(s)
           F == WithoutSteps(s, S, D)
           Is(g) == g = [n \in 0 .. Len(s) |-> IF n = 0 THEN <<>> ELSE IF s[n] \in S THEN g[n - 1] ELSE Append(g[n - 1], s[n])]
           K == CHOOSE g : Is(g)
<1>0. \A q \in D, e \in T : (IF e \in S THEN q ELSE Append(q, e)) \in D
  <2> SUFFICES ASSUME NEW q \in Seq(T), NEW e \in T PROVE Append(q, e) \in Seq(T)
    OBVIOUS
  <2> QED
    BY AppendProperties
<1>1. m \in Nat /\ <<>> \in D
  OBVIOUS
<1>2. \A n \in 1 .. m : s[n] \in T
  OBVIOUS
<1> HIDE DEF D, m
<1>3. F = [n \in 1 .. m |-> [q \in D |-> IF s[n] \in S THEN q ELSE Append(q, s[n])]]
  BY DEF WithoutSteps, m
<1> HIDE DEF F
<1>4. \A n \in 1 .. m, q \in D : F[n][q] = IF s[n] \in S THEN q ELSE Append(q, s[n])
  BY <1>3
<1>5. F \in [1 .. m -> [D -> D]]
  <2>1. \A n \in 1 .. m : n \in Nat
    OBVIOUS
  <2>2. \A n \in 1 .. m, q \in D : (IF s[n] \in S THEN q ELSE Append(q, s[n])) \in D
    BY <1>0, <1>2, <2>1
  <2> QED
    BY <1>3, <2>2
<1>6. PICK g : Folds(g, m, <<>>, F, D)
  BY <1>1, <1>5, FoldExists
<1>7. Is(g)
  <2>1. g \in [0 .. m -> D] /\ g[0] = <<>> /\ \A n \in 1 .. m : g[n] = F[n][g[n - 1]]
    BY <1>6 DEF Folds
  <2>2. \A n \in 0 .. m : g[n] = IF n = 0 THEN <<>> ELSE IF s[n] \in S THEN g[n - 1] ELSE Append(g[n - 1], s[n])
    <3> TAKE n \in 0 .. m
    <3>1. CASE n = 0
      BY <2>1, <3>1
    <3>2. CASE n # 0
      <4>0. n \in 1 .. m /\ n - 1 \in 0 .. m
        BY <1>1, <3>2
      <4>1. n \in 1 .. m /\ g[n - 1] \in D
        BY <2>1, <4>0
      <4> QED
        BY <1>4, <2>1, <3>2, <4>1
    <3> QED
      BY <3>1, <3>2
  <2> QED
    BY <2>1, <2>2 DEF m
<1>8. Is(K)
  <2> HIDE DEF Is
  <2> QED
    BY <1>7
<1>9. Without(s, S) = K[m]
  BY DEF Without, m
<1> HIDE DEF K
<1>10. K = [n \in 0 .. m |-> K[n]] /\ K[0] = <<>>
  BY <1>1, <1>8 DEF m
<1>11. \A n \in 1 .. m : K[n - 1] \in D => K[n] = F[n][K[n - 1]]
  <2> SUFFICES ASSUME NEW n \in 1 .. m, K[n - 1] \in D PROVE K[n] = F[n][K[n - 1]]
    OBVIOUS
  <2>1. n \in 0 .. m /\ n # 0
    BY <1>1
  <2>2. K[n] = IF s[n] \in S THEN K[n - 1] ELSE Append(K[n - 1], s[n])
    BY <1>8, <2>1 DEF m
  <2> QED
    BY <1>4, <2>2
<1>12. Folds(K, m, <<>>, F, D)
  BY <1>1, <1>5, <1>10, <1>11, FoldIs
<1> QED
  BY <1>9, <1>12 DEF F, D, m

LEMMA WithoutType ==
  ASSUME NEW T, NEW S, NEW s \in Seq(T)
  PROVE  Without(s, S) \in Seq(T)
<1>1. PICK g : Folds(g, Len(s), <<>>, WithoutSteps(s, S, Seq(T)), Seq(T)) /\ Without(s, S) = g[Len(s)]
  BY WithoutFold
<1>2. Len(s) \in 0 .. Len(s)
  OBVIOUS
<1>3. g \in [0 .. Len(s) -> Seq(T)]
  BY <1>1 DEF Folds
<1> QED
  BY <1>1, <1>2, <1>3

LEMMA WithoutAppend ==
  ASSUME NEW T, NEW S, NEW s \in Seq(T), NEW e \in T
  PROVE  /\ Without(s, S) \in Seq(T)
         /\ Without(Append(s, e), S) = IF e \in S THEN Without(s, S) ELSE Append(Without(s, S), e)
<1> DEFINE t == Append(s, e)
           D == Seq(T)
           m == Len(s)
           F == WithoutSteps(s, S, D)
           G == WithoutSteps(t, S, D)
<1>1. t \in Seq(T) /\ Len(t) = m + 1 /\ m \in Nat /\ t[m + 1] = e /\ \A n \in 1 .. m : t[n] = s[n]
  OBVIOUS
<1>2. <<>> \in D
  OBVIOUS
<1> HIDE DEF t, D
<1>3. PICK g : Folds(g, m, <<>>, F, D) /\ Without(s, S) = g[m]
  BY WithoutFold DEF D
<1>4. PICK h : Folds(h, m + 1, <<>>, G, D) /\ Without(t, S) = h[m + 1]
  <2>1. \E h : Folds(h, Len(t), <<>>, G, D) /\ Without(t, S) = h[Len(t)]
    BY <1>1, WithoutFold DEF D
  <2> QED
    BY <1>1, <2>1
<1> HIDE DEF m
<1>5. \A n \in 1 .. m : F[n] = G[n]
  <2> TAKE n \in 1 .. m
  <2>1. n \in 1 .. Len(t) /\ n \in 1 .. Len(s) /\ s[n] = t[n]
    BY <1>1 DEF m
  <2> QED
    BY <2>1 DEF WithoutSteps
<1>6. \A q \in D : G[m + 1][q] = IF e \in S THEN q ELSE Append(q, e)
  BY <1>1 DEF WithoutSteps
<1> HIDE DEF F, G
<1>7. h[m + 1] = G[m + 1][g[m]] /\ g[m] \in D
  <2>1. m \in Nat
    BY <1>1
  <2> QED
    BY <1>2, <1>3, <1>4, <1>5, <2>1, FoldNext
<1> QED
  BY <1>3, <1>4, <1>6, <1>7 DEF t, D

LEMMA WithoutEmpty ==
  ASSUME NEW S
  PROVE  Without(<<>>, S) = <<>>
<1>1. <<>> \in Seq({}) /\ Len(<<>>) = 0
  OBVIOUS
<1>2. PICK g : Folds(g, Len(<<>>), <<>>, WithoutSteps(<<>>, S, Seq({})), Seq({})) /\ Without(<<>>, S) = g[Len(<<>>)]
  BY <1>1, WithoutFold
<1> QED
  BY <1>1, <1>2 DEF Folds

-----------------------------------------------------------------------------
(* What an index of a list counts: at most the secrets there are.            *)
LEMMA WithoutKeeps ==
  ASSUME NEW T, NEW S, NEW s \in Seq(T)
  PROVE  /\ Without(s, S) \in Seq(T)
         /\ \A i \in DOMAIN Without(s, S) : Without(s, S)[i] \notin S
         /\ IsInjective(s) => IsInjective(Without(s, S))
<1> DEFINE In(t) == {t[j] : j \in 1 .. Len(t)}
           P == {t \in Seq(T) : /\ \A i \in 1 .. Len(Without(t, S)) : Without(t, S)[i] \in In(t) \ S
                                /\ IsInjective(t) => IsInjective(Without(t, S))}
<1>1. <<>> \in P
  <2>1. Without(<<>>, S) = <<>>
    BY WithoutEmpty
  <2> QED
    BY <2>1
<1>2. ASSUME NEW t \in Seq(T), NEW x \in T, t \in P PROVE Append(t, x) \in P
  <2> DEFINE k == Without(t, S)
             u == Append(t, x)
  <2>1. k \in Seq(T) /\ Without(u, S) = IF x \in S THEN k ELSE Append(k, x)
    BY WithoutAppend
  <2>2. \A i \in 1 .. Len(k) : k[i] \in In(t) \ S
    BY <1>2
  <2>3. IsInjective(t) => IsInjective(k)
    BY <1>2
  <2>4. u \in Seq(T) /\ Len(u) = Len(t) + 1 /\ u[Len(t) + 1] = x /\ \A i \in 1 .. Len(t) : u[i] = t[i]
    OBVIOUS
  <2>4a. Len(t) \in Nat /\ DOMAIN t = 1 .. Len(t) /\ DOMAIN u = 1 .. Len(u)
    BY <2>4
  <2>5. In(t) \subseteq In(u) /\ x \in In(u)
    <3>1. ASSUME NEW j \in 1 .. Len(t) PROVE j \in 1 .. Len(u) /\ t[j] = u[j]
      BY <2>4, <2>4a
    <3>2. Len(t) + 1 \in 1 .. Len(u)
      BY <2>4, <2>4a
    <3> HIDE DEF u
    <3> QED
      BY <3>1, <3>2, <2>4
  <2>6. IsInjective(u) => IsInjective(t) /\ x \notin In(t)
    <3> HIDE DEF u
    <3> SUFFICES ASSUME IsInjective(u) PROVE IsInjective(t) /\ x \notin In(t)
      OBVIOUS
    <3>1. \A i \in 1 .. Len(t) : i \in 1 .. Len(u) /\ i # Len(t) + 1 /\ Len(t) + 1 \in 1 .. Len(u)
      BY <2>4, <2>4a
    <3>2. \A i, j \in 1 .. Len(u) : u[i] = u[j] => i = j
      BY <2>4a DEF IsInjective
    <3> QED
      BY <3>1, <3>2, <2>4, <2>4a DEF IsInjective
  <2>7. CASE x \in S
    <3> HIDE DEF u, k
    <3>1. Without(u, S) = k
      BY <2>1, <2>7
    <3> QED
      BY <3>1, <2>2, <2>3, <2>4, <2>5, <2>6 DEF u
  <2>8. CASE x \notin S
    <3> DEFINE v == Append(k, x)
    <3>1. Without(u, S) = v
      BY <2>1, <2>8
    <3>2. v \in Seq(T) /\ Len(v) = Len(k) + 1 /\ v[Len(k) + 1] = x /\ \A i \in 1 .. Len(k) : v[i] = k[i]
      BY <2>1
    <3>3. Len(k) \in Nat /\ DOMAIN k = 1 .. Len(k) /\ DOMAIN v = 1 .. Len(v)
      BY <2>1, <3>2
    <3> HIDE DEF u, k, v
    <3>4. \A i \in 1 .. Len(v) : i \in 1 .. Len(k) \/ i = Len(k) + 1
      BY <3>2, <3>3
    <3>5. \A i \in 1 .. Len(v) : v[i] \in In(u) \ S
      BY <3>2, <3>4, <2>2, <2>5, <2>8
    <3>6. IsInjective(u) => IsInjective(v)
      <4> SUFFICES ASSUME IsInjective(u), NEW i \in 1 .. Len(v), NEW j \in 1 .. Len(v), v[i] = v[j]
                   PROVE  i = j
        BY <3>3 DEF IsInjective
      <4>1. \A m \in 1 .. Len(k) : v[m] \in In(t)
        BY <2>2, <3>2
      <4>2. x \notin In(t) /\ IsInjective(k)
        BY <2>3, <2>6
      <4>3. CASE i \in 1 .. Len(k) /\ j \in 1 .. Len(k)
        BY <4>2, <4>3, <3>2, <3>3 DEF IsInjective
      <4> QED
        BY <4>1, <4>2, <4>3, <3>2, <3>4
    <3> QED
      BY <3>1, <3>5, <3>6, <2>4 DEF u
  <2> QED
    BY <2>7, <2>8
<1>3. Seq(T) \subseteq P
  <2> HIDE DEF P
  <2> QED
    BY <1>1, <1>2, SeqInduct
<1>4. Without(s, S) \in Seq(T)
  BY WithoutType
<1>5. DOMAIN Without(s, S) = 1 .. Len(Without(s, S))
  BY <1>4
<1> QED
  BY <1>3, <1>4, <1>5

\* A list without repetitions is no longer than there are secrets.
LEMMA ListLength ==
  ASSUME NEW T, IsFiniteSet(T), NEW s \in Seq(T), IsInjective(s)
  PROVE  Len(s) <= Cardinality(T)
<1>1. Len(s) \in Nat /\ s \in [1 .. Len(s) -> T]
  OBVIOUS
<1>2. s \in Injection(1 .. Len(s), T)
  BY <1>1 DEF Injection
<1>3. Cardinality(1 .. Len(s)) <= Cardinality(T)
  BY <1>2, FS_Injection
<1>4. Cardinality(1 .. Len(s)) = IF 1 > Len(s) THEN 0 ELSE Len(s) - 1 + 1
  BY <1>1, FS_Interval
<1>5. Cardinality(T) \in Nat
  BY FS_CardinalityType
<1> QED
  BY <1>1, <1>3, <1>4, <1>5

\* The list the server starts with.
LEMMA SetToSeqIs ==
  ASSUME NEW T, IsFiniteSet(T)
  PROVE  SetToSeq(T) \in Seq(T) /\ IsInjective(SetToSeq(T))
<1> DEFINE n == Cardinality(T)
           Is(f) == f \in [1 .. n -> T] /\ IsInjective(f)
<1>1. n \in Nat /\ ExistsBijection(1 .. n, T)
  BY FS_CardinalityType
<1>2. PICK f : f \in Bijection(1 .. n, T)
  BY <1>1 DEF ExistsBijection
<1>3. f \in [1 .. n -> T] /\ IsInjective(f)
  BY <1>2 DEF Bijection, Injection
<1> HIDE DEF n
<1>4. SetToSeq(T) \in [1 .. n -> T] /\ IsInjective(SetToSeq(T))
  BY <1>3 DEF SetToSeq, n
<1> QED
  BY <1>1, <1>4

-----------------------------------------------------------------------------
(* Every value the popup, its refresh and the server hold has its type.  The *)
(* offset of a refresh is bounded through the page that was not the last:    *)
(* the list it was cut from was longer than the offset.                      *)
VaultType ==
  /\ vault \in [list : Seq(Secrets), urls : [Secrets -> SUBSET Origins],
                readers : [Secrets -> SUBSET Users]]
  /\ IsInjective(vault.list)

Pops ==
  [panes : SUBSET Panes, home : BOOLEAN, sk : Users \cup {None}, cache : SUBSET Entry,
   tab : Origins \cup {None}, token : Token, leaving : BOOLEAN, cool : BOOLEAN]

PopType == pop \in Pops

JobType ==
  \/ job = Idle
  \/ /\ job \in [at : {"page"}, rows : Seq(Secrets), offset : Nat]
     /\ job.offset <= Cardinality(Secrets) + PageSize
  \/ job \in [at : {"title"}, rows : Seq(Secrets), cache : SUBSET Entry]
  \/ /\ job \in [at : {"payload"}, rows : Seq(Secrets), cache : SUBSET Entry, title : BOOLEAN]
     /\ job.rows # <<>>

AroundType ==
  /\ session \in Users \cup {None} /\ page \in Origins \cup {None}
  /\ unlocking \in Users \cup {None} /\ events \in 0 .. MaxEvents

StateInvariant == VaultType /\ PopType /\ JobType /\ AroundType

\* A secret goes to the front of the list, where it stood or not.
LEMMA Fronted ==
  ASSUME NEW T, NEW list \in Seq(T), IsInjective(list), NEW s \in T
  PROVE  /\ <<s>> \o Without(list, {s}) \in Seq(T)
         /\ IsInjective(<<s>> \o Without(list, {s}))
<1> DEFINE S == {s}
           k == Without(list, S)
           v == <<s>> \o k
<1>1. k \in Seq(T) /\ IsInjective(k) /\ \A i \in DOMAIN k : k[i] # s
  <2>1. \A i \in DOMAIN k : k[i] \notin S
    <3> HIDE DEF S
    <3> QED
      BY WithoutKeeps
  <2>2. k \in Seq(T) /\ IsInjective(k)
    <3> HIDE DEF S
    <3> QED
      BY WithoutKeeps
  <2> QED
    BY <2>1, <2>2
<1> HIDE DEF k
<1>2. v \in Seq(T) /\ Len(v) = Len(k) + 1 /\ v[1] = s /\ \A i \in 2 .. Len(k) + 1 : v[i] = k[i - 1]
  BY <1>1
<1>3. Len(k) \in Nat /\ DOMAIN k = 1 .. Len(k) /\ DOMAIN v = 1 .. Len(v)
  BY <1>1, <1>2
<1> HIDE DEF v
<1>4. \A i \in 1 .. Len(v) : i = 1 \/ (i \in 2 .. Len(k) + 1 /\ i - 1 \in 1 .. Len(k))
  BY <1>2, <1>3
<1>5. ASSUME NEW i \in 1 .. Len(v), NEW j \in 1 .. Len(v), v[i] = v[j] PROVE i = j
  <2>1. CASE i = 1 \/ j = 1
    BY <1>1, <1>2, <1>3, <1>4, <1>5, <2>1
  <2>2. CASE i # 1 /\ j # 1
    <3>1. i - 1 \in 1 .. Len(k) /\ j - 1 \in 1 .. Len(k) /\ k[i - 1] = k[j - 1]
      BY <1>2, <1>4, <1>5, <2>2
    <3>2. i - 1 = j - 1
      BY <1>1, <1>3, <3>1 DEF IsInjective
    <3> QED
      BY <3>2
  <2> QED
    BY <2>1, <2>2
<1> QED
  BY <1>2, <1>3, <1>5 DEF IsInjective, v, k

LEMMA InitState == Init => StateInvariant
<1> SUFFICES ASSUME Init PROVE StateInvariant
  OBVIOUS
<1> USE ExtensionAssumption
<1>1. VaultType
  <2>1. SetToSeq(Secrets) \in Seq(Secrets) /\ IsInjective(SetToSeq(Secrets))
    BY SetToSeqIs
  <2>2. [s \in Secrets |-> Users] \in [Secrets -> SUBSET Users]
    OBVIOUS
  <2> QED
    BY <2>1, <2>2 DEF Init, VaultType
<1>2. PopType
  BY DEF Init, PopType, Pops, Popup, Panes, Token, NoToken
<1>3. JobType /\ AroundType
  BY DEF Init, JobType, AroundType
<1> QED
  BY <1>1, <1>2, <1>3 DEF StateInvariant

LEMMA EditVault ==
  ASSUME VaultType, Edit
  PROVE  VaultType'
<1>1. vault.list \in Seq(Secrets) /\ IsInjective(vault.list)
  BY DEF VaultType
<1>2. ASSUME NEW list \in Seq(Secrets), IsInjective(list), vault' = [vault EXCEPT !.list = list]
      PROVE  VaultType'
  BY <1>2 DEF VaultType
<1>3. PICK s \in Secrets :
         \/ vault' = [vault EXCEPT !.list = <<s>> \o Without(@, {s})]
         \/ s \in ToSet(vault.list) /\ vault' = [vault EXCEPT !.list = Without(@, {s})]
         \/ \E o \in Origins : vault' = [vault EXCEPT !.urls[s] = {o},
              !.list = IF s \in ToSet(@) THEN <<s>> \o Without(@, {s}) ELSE @]
         \/ \E u \in Users : vault' = [vault EXCEPT !.readers[s] =
              IF u \in @ THEN @ \ {u} ELSE @ \cup {u}]
  BY DEF Edit
<1> DEFINE S == {s}
           k == Without(vault.list, S)
           front == <<s>> \o Without(vault.list, {s})
<1>4. k \in Seq(Secrets) /\ IsInjective(k)
  <2> HIDE DEF S
  <2> QED
    BY <1>1, WithoutKeeps
<1>5. front \in Seq(Secrets) /\ IsInjective(front)
  BY <1>1, Fronted
<1>6. CASE vault' = [vault EXCEPT !.list = <<s>> \o Without(@, {s})]
  <2>1. vault' = [vault EXCEPT !.list = front]
    BY <1>6
  <2> HIDE DEF front
  <2> QED
    BY <1>2, <1>5, <2>1
<1>7. CASE vault' = [vault EXCEPT !.list = Without(@, {s})]
  <2>1. vault' = [vault EXCEPT !.list = k]
    BY <1>7
  <2> HIDE DEF k
  <2> QED
    BY <1>2, <1>4, <2>1
<1>8. ASSUME NEW o \in Origins,
             vault' = [vault EXCEPT !.urls[s] = {o},
              !.list = IF s \in ToSet(@) THEN <<s>> \o Without(@, {s}) ELSE @]
      PROVE  VaultType'
  <2> DEFINE list == IF s \in ToSet(vault.list) THEN front ELSE vault.list
  <2>1. list \in Seq(Secrets) /\ IsInjective(list)
    <3> HIDE DEF front
    <3> QED
      BY <1>1, <1>5
  <2>2. vault' = [vault EXCEPT !.urls[s] = {o}, !.list = list]
    BY <1>8
  <2> HIDE DEF list, front
  <2> QED
    BY <2>1, <2>2 DEF VaultType
<1>9. ASSUME NEW u \in Users,
             vault' = [vault EXCEPT !.readers[s] = IF u \in @ THEN @ \ {u} ELSE @ \cup {u}]
      PROVE  VaultType'
  BY <1>9 DEF VaultType
<1> QED
  BY <1>3, <1>6, <1>7, <1>8, <1>9

\* The page that was not the last begins inside the list.
LEMMA FetchPageJob ==
  ASSUME VaultType, JobType, FetchPage
  PROVE  JobType'
<1> USE ExtensionAssumption
<1> DEFINE S == {s \in Secrets : Caller \notin vault.readers[s]}
           all == Without(vault.list, S)
           end == IF job.offset + PageSize < Len(all) THEN job.offset + PageSize ELSE Len(all)
           answer == SubSeq(all, job.offset + 1, end)
           rows == job.rows \o answer
<1>1. job \in [at : {"page"}, rows : Seq(Secrets), offset : Nat]
  BY DEF JobType, FetchPage, Idle
<1>2. job' = IF LastPage(answer, rows, Len(all))
                   THEN [at |-> "title", rows |-> rows, cache |-> {}]
                   ELSE [at |-> "page", rows |-> rows, offset |-> job.offset + PageSize]
  BY DEF FetchPage, Listed
<1>3. all \in Seq(Secrets) /\ IsInjective(all)
  <2> HIDE DEF S
  <2> QED
    BY WithoutKeeps DEF VaultType
<1> HIDE DEF all
<1>4. Len(all) \in Nat /\ Len(all) <= Cardinality(Secrets) /\ Cardinality(Secrets) \in Nat
  BY <1>3, ListLength, FS_CardinalityType
<1>5. end \in Nat /\ end <= Len(all) /\ job.offset \in Nat /\ job.rows \in Seq(Secrets)
  BY <1>1, <1>4
<1> HIDE DEF end
<1>6. \A i \in job.offset + 1 .. end : all[i] \in Secrets
  BY <1>3, <1>4, <1>5
<1>7. answer \in Seq(Secrets) /\ (answer # <<>> => job.offset < end)
  BY <1>3, <1>4, <1>5, <1>6
<1> HIDE DEF answer
<1>8. rows \in Seq(Secrets)
  BY <1>5, <1>7
<1> HIDE DEF rows
<1>9. CASE LastPage(answer, rows, Len(all))
  BY <1>2, <1>8, <1>9 DEF JobType
<1>10. CASE ~LastPage(answer, rows, Len(all))
  <2>1. job.offset < end
    BY <1>7, <1>10 DEF LastPage
  <2>2. /\ job.offset + PageSize \in Nat
        /\ job.offset + PageSize <= Cardinality(Secrets) + PageSize
    BY <1>4, <1>5, <2>1
  <2> QED
    BY <1>2, <1>8, <1>10, <2>2 DEF JobType
<1> QED
  BY <1>9, <1>10

LEMMA TitleJob ==
  ASSUME JobType, OpenTitle
  PROVE  JobType'
<1>1. job \in [at : {"title"}, rows : Seq(Secrets), cache : SUBSET Entry]
  BY DEF JobType, OpenTitle, Idle
<1> QED
  BY <1>1 DEF JobType, OpenTitle

\* The payload step has a first row.
LEMMA PayloadJob ==
  ASSUME VaultType, JobType, OpenPayload
  PROVE  JobType'
<1>1. /\ job \in [at : {"payload"}, rows : Seq(Secrets), cache : SUBSET Entry, title : BOOLEAN]
      /\ job.rows # <<>>
  BY DEF JobType, OpenPayload, Idle
<1>2. Head(job.rows) \in Secrets /\ Tail(job.rows) \in Seq(Secrets)
  <2> DEFINE r == job.rows
  <2>1. r \in Seq(Secrets) /\ r # <<>>
    BY <1>1
  <2> HIDE DEF r
  <2>2. Head(r) \in Secrets /\ Tail(r) \in Seq(Secrets)
    BY <2>1, HeadTailProperties
  <2> QED
    BY <2>2 DEF r
<1>3. PICK lost \in BOOLEAN :
         LET s == Head(job.rows)
             origins == IF ~lost /\ Opens(s) THEN vault.urls[s] ELSE {}
         IN job' = [at |-> "title", rows |-> Tail(job.rows),
                    cache |-> job.cache \cup {[id |-> s, title |-> job.title, origins |-> origins]}]
  BY DEF OpenPayload
<1> DEFINE s == Head(job.rows)
           rest == Tail(job.rows)
           origins == IF ~lost /\ Opens(s) THEN vault.urls[s] ELSE {}
           e == [id |-> s, title |-> job.title, origins |-> origins]
<1>4. job' = [at |-> "title", rows |-> rest, cache |-> job.cache \cup {e}]
  BY <1>3
<1>5. s \in Secrets /\ rest \in Seq(Secrets)
  BY <1>2
<1> HIDE DEF s, rest
<1>6. origins \in SUBSET Origins
  BY <1>5 DEF VaultType
<1> HIDE DEF origins
<1>7. e \in Entry
  BY <1>1, <1>5, <1>6 DEF Entry
<1> HIDE DEF e
<1> QED
  BY <1>1, <1>4, <1>5, <1>7 DEF JobType

\* A refresh starts with no rows, or joins the one that runs.
LEMMA StartedTypes ==
  ASSUME JobType, NEW p \in Pops, StartRefresh(p)
  PROVE  JobType' /\ PopType'
<1> USE ExtensionAssumption
<1>1. pop' \in Pops
  BY DEF StartRefresh, Pops
<1>2. CASE job = Idle
  <2>1. job' = [at |-> "page", rows |-> <<>>, offset |-> 0]
    BY <1>2 DEF StartRefresh
  <2>2. Cardinality(Secrets) \in Nat
    BY FS_CardinalityType
  <2> QED
    BY <1>1, <2>1, <2>2 DEF JobType, PopType
<1>3. CASE job # Idle
  BY <1>1, <1>3 DEF StartRefresh, JobType, PopType
<1> QED
  BY <1>2, <1>3

LEMMA NextState ==
  ASSUME StateInvariant, [Next]_vars
  PROVE  StateInvariant'
<1> USE ExtensionAssumption
<1>0. VaultType /\ PopType /\ JobType /\ AroundType
  BY DEF StateInvariant
<1>1. UNCHANGED vault => VaultType'
  BY <1>0 DEF VaultType
<1>2. UNCHANGED pop => PopType'
  BY <1>0 DEF PopType
<1>3. UNCHANGED job => JobType'
  BY <1>0 DEF JobType
<1>4. job' = Idle => JobType'
  BY DEF JobType
<1>5. /\ UNCHANGED <<session, page, unlocking>>
      /\ Disturb \/ UNCHANGED events
      => AroundType'
  BY <1>0 DEF AroundType, Disturb
<1>6. Caller \in Users \cup {None}
  BY <1>0 DEF Caller, AroundType
<1>7. CASE Edit
  BY <1>0, <1>2, <1>3, <1>5, <1>7, EditVault DEF Edit, StateInvariant
<1>8. CASE Navigate
  <2>1. AroundType'
    BY <1>0, <1>8 DEF Navigate, Disturb, AroundType
  <2> QED
    BY <1>1, <1>2, <1>3, <1>8, <2>1 DEF Navigate, StateInvariant
<1>9. CASE Reopen
  <2>1. AroundType'
    BY <1>0, <1>9 DEF Reopen, Disturb, AroundType
  <2>2. PopType'
    BY <1>0, <1>9 DEF Reopen, Popup, PopType, Pops, Panes, Token, NoToken, AroundType
  <2> QED
    BY <1>1, <1>4, <1>9, <2>1, <2>2 DEF Reopen, StateInvariant
<1>10. ASSUME NEW u \in Users, SignIn(u) \/ TotpStep(u) PROVE StateInvariant'
  <2>1. UNCHANGED <<vault, page, job, unlocking, events>>
    BY <1>10 DEF SignIn, TotpStep
  <2>2. session' \in Users \cup {None}
    BY <1>0, <1>10 DEF SignIn, TotpStep, SignedIn, AroundType
  <2>3. /\ [for |-> "tenant", user |-> u] \in Token
        /\ [for |-> "totp", user |-> u] \in Token
        /\ NoToken \in Token /\ Used \in Token
    BY DEF Token, NoToken, Used
  <2>4. ASSUME NEW from, NEW token \in Token, SignedIn(u, from, token) PROVE PopType'
    BY <1>0, <2>4 DEF SignedIn, PopType, Pops, Panes
  <2>5. PopType'
    <3>1. CASE TotpStep(u)
      <4>1. CASE pop' = [pop EXCEPT !.token = Used]
        BY <1>0, <2>3, <4>1 DEF PopType, Pops
      <4>2. CASE SignedIn(u, "totp", Used)
        BY <2>3, <2>4, <4>2
      <4> QED
        BY <3>1, <4>1, <4>2 DEF TotpStep
    <3>2. CASE SignIn(u)
      <4>1. CASE pop' = [pop EXCEPT !.token = [for |-> "tenant", user |-> u]]
        BY <1>0, <2>3, <4>1 DEF PopType, Pops
      <4>2. CASE pop' = [pop EXCEPT !.token = [for |-> "totp", user |-> u],
                                    !.panes = (@ \ {"login"}) \cup {"totp"}]
        BY <1>0, <2>3, <4>2 DEF PopType, Pops, Panes
      <4>3. CASE SignedIn(u, "login", IF pop.token = NoToken THEN NoToken ELSE Used)
        BY <2>3, <2>4, <4>3
      <4> QED
        BY <3>2, <4>1, <4>2, <4>3 DEF SignIn
    <3> QED
      BY <1>10, <3>1, <3>2
  <2> QED
    BY <1>0, <1>1, <1>3, <2>1, <2>2, <2>5 DEF StateInvariant, AroundType
<1>11. CASE SaveBase \/ CoolDown \/ LoggedOut
  <2>1. PopType'
    <3>1. CASE SaveBase
      BY <1>0, <3>1 DEF SaveBase, PopType, Pops
    <3>2. CASE CoolDown
      BY <1>0, <3>2 DEF CoolDown, PopType, Pops
    <3>3. CASE LoggedOut
      BY <1>0, <3>3 DEF LoggedOut, PopType, Pops, Panes
    <3> QED
      BY <1>11, <3>1, <3>2, <3>3
  <2>2. UNCHANGED <<vault, session, page, job, unlocking>> /\ (Disturb \/ UNCHANGED events)
    BY <1>11 DEF SaveBase, CoolDown, LoggedOut
  <2> QED
    BY <1>1, <1>3, <1>5, <2>1, <2>2 DEF StateInvariant
<1>12. CASE BeginUnlock
  <2>1. AroundType'
    BY <1>0, <1>6, <1>12 DEF BeginUnlock, AroundType
  <2> QED
    BY <1>1, <1>2, <1>3, <1>12, <2>1 DEF BeginUnlock, StateInvariant
<1>13. CASE EndUnlock
  <2> DEFINE p == [pop EXCEPT !.sk = unlocking, !.panes = (@ \ {"unlock"}) \cup {"vault"}]
  <2>1. p \in Pops
    BY <1>0 DEF PopType, Pops, Panes, AroundType
  <2>2. StartRefresh(p)
    BY <1>13 DEF EndUnlock
  <2> HIDE DEF p
  <2>3. JobType' /\ PopType'
    BY <1>0, <2>1, <2>2, StartedTypes
  <2>4. AroundType'
    BY <1>0, <1>13 DEF EndUnlock, AroundType
  <2> QED
    BY <1>1, <1>13, <2>3, <2>4 DEF EndUnlock, StateInvariant
<1>14. CASE Lock
  <2>1. PopType'
    BY <1>0, <1>14 DEF Lock, Wiped, PopType, Pops, Panes
  <2> QED
    BY <1>1, <1>3, <1>5, <1>14, <2>1 DEF Lock, StateInvariant
<1>15. CASE Logout
  <2>1. PopType'
    BY <1>0, <1>15 DEF Logout, Wiped, PopType, Pops
  <2>2. AroundType'
    BY <1>0, <1>15 DEF Logout, Disturb, AroundType
  <2> QED
    BY <1>1, <1>3, <1>15, <2>1, <2>2 DEF Logout, StateInvariant
<1>16. CASE Focus
  <2>1. JobType' /\ PopType'
    BY <1>0, <1>16, StartedTypes DEF Focus, PopType
  <2> QED
    BY <1>1, <1>5, <1>16, <2>1 DEF Focus, StateInvariant
<1>17. CASE FetchPage \/ OpenTitle \/ OpenPayload
  <2>1. JobType'
    BY <1>0, <1>17, FetchPageJob, TitleJob, PayloadJob
  <2>2. UNCHANGED <<vault, session, page, pop, unlocking>> /\ (Disturb \/ UNCHANGED events)
    BY <1>17 DEF FetchPage, OpenTitle, OpenPayload
  <2> QED
    BY <1>1, <1>2, <1>5, <2>1, <2>2 DEF StateInvariant
<1>18. CASE EndRefresh
  <2>1. job.cache \in SUBSET Entry
    BY <1>0, <1>18 DEF EndRefresh, JobType, Idle
  <2>2. PopType'
    BY <1>0, <1>18, <2>1 DEF EndRefresh, PopType, Pops
  <2> QED
    BY <1>1, <1>4, <1>5, <1>18, <2>2 DEF EndRefresh, StateInvariant
<1>19. CASE FailRefresh
  <2>1. PopType'
    BY <1>0, <1>19 DEF FailRefresh, Failed, PopType, Pops
  <2>2. UNCHANGED <<vault, session, page, unlocking>> /\ (Disturb \/ UNCHANGED events) /\ job' = Idle
    BY <1>19 DEF FailRefresh, Failed
  <2> QED
    BY <1>1, <1>4, <1>5, <2>1, <2>2 DEF StateInvariant
<1>20. ASSUME NEW kind \in {"fill", "copy"}, NEW e \in pop.cache, Click(kind, e)
       PROVE  StateInvariant'
  <2>1. PopType'
    BY <1>0, <1>20 DEF Click, PopType, Pops, AroundType
  <2> QED
    BY <1>1, <1>3, <1>5, <1>20, <2>1 DEF Click, StateInvariant
<1>21. CASE Payload \/ Fill
  BY <1>1, <1>2, <1>3, <1>5, <1>21 DEF Payload, Fill, StateInvariant
<1>22. CASE UNCHANGED vars
  BY <1>1, <1>2, <1>3, <1>5, <1>22 DEF vars, StateInvariant
<1> QED
  BY <1>7, <1>8, <1>9, <1>10, <1>11, <1>12, <1>13, <1>14, <1>15, <1>16, <1>17, <1>18, <1>19,
     <1>20, <1>21, <1>22 DEF Next, User, RefreshStep

LEMMA StateMeansTypes == StateInvariant => TypeOK
<1> SUFFICES ASSUME StateInvariant PROVE TypeOK
  OBVIOUS
<1>1. VaultType /\ PopType /\ JobType /\ AroundType
  BY DEF StateInvariant
<1>2. pop.panes \in SUBSET Panes /\ pop.cache \in SUBSET Entry /\ pop.sk \in Users \cup {None} /\ pop.token \in Token
  BY <1>1 DEF PopType, Pops
<1>3. job.at = "page" => job.offset <= Cardinality(Secrets) + PageSize
  BY <1>1 DEF JobType, Idle
<1>4. job.at \in {"title", "payload"} => job.cache \subseteq Entry
  BY <1>1 DEF JobType, Idle
<1> QED
  BY <1>1, <1>2, <1>3, <1>4 DEF VaultType, AroundType, TypeOK

\* Whatever happens to the vault, the session and the tab while the list is paged,
\* no offset of a refresh runs past the list by more than a page, and the list of
\* the vault holds each secret once (popup.js fetchAllSecrets, refresh).
THEOREM ExtensionTypes == Spec => []TypeOK
BY InitState, NextState, StateMeansTypes, PTL DEF Spec

=============================================================================
