------------------------ MODULE ImportExport_proofs ------------------------
(***************************************************************************)
(* Theorems about ImportExport: the preview, its loop and what was posted, *)
(* and what a secret becomes in a file and out of it again, for any forms, *)
(* folders, entries of other programs, texts and bounds.                   *)
(*                                                                         *)
(* The functions that read a text are recursive functions of a position,   *)
(* and the library's induction takes the property as a parameter.  Here    *)
(* induction is first order: a property is the set of what has it, and a   *)
(* set of lengths that fail it is empty because it has no least member     *)
(* (Least, Induct, SeqInduct, Folds).                                      *)
(***************************************************************************)
EXTENDS ImportExport, SequenceTheorems, WellFoundedInduction, TLAPS

-----------------------------------------------------------------------------
(* Induction over a set of numbers and over a set of sequences.             *)

LEMMA Least ==
  ASSUME NEW T, T \subseteq Nat, T # {}
  PROVE  \E x \in T : \A y \in T : x <= y
<1> DEFINE R == OpToRel(<, Nat)
<1>1. R = {r \in Nat \X Nat : r[1] < r[2]}
  BY DEF OpToRel
<1>2. IsWellFoundedOn(R, Nat)
  BY NatLessThanWellFounded
<1> HIDE DEF R
<1>3. PICK x \in T : \A y \in T : ~ (<<y, x>> \in R)
  BY <1>2, WFMin
<1>4. \A y \in T : x <= y
  <2> SUFFICES ASSUME NEW y \in T, ~ (x <= y) PROVE FALSE
    OBVIOUS
  <2>1. y \in Nat /\ x \in Nat
    OBVIOUS
  <2>2. y < x
    BY <2>1
  <2>3. <<y, x>> \in Nat \X Nat
    BY <2>1
  <2>4. <<y, x>> \in R
    BY <1>1, <2>2, <2>3
  <2> QED
    BY <1>3, <2>4
<1> QED
  BY <1>4

\* Induction over the numbers, for a set of them.
LEMMA Induct ==
  ASSUME NEW S, 0 \in S, \A n \in Nat : n \in S => n + 1 \in S
  PROVE  Nat \subseteq S
<1> SUFFICES ASSUME Nat \ S # {} PROVE FALSE
  OBVIOUS
<1>1. PICK x \in Nat \ S : \A y \in Nat \ S : x <= y
  BY Least
<1>2. x # 0
  OBVIOUS
<1>3. x - 1 \in Nat /\ x - 1 \in S
  BY <1>1, <1>2
<1> QED
  BY <1>1, <1>3

\* Induction over sequences, for a set of them.
LEMMA SeqInduct ==
  ASSUME NEW T, NEW P, <<>> \in P,
         \A s \in Seq(T), x \in T : s \in P => Append(s, x) \in P
  PROVE  Seq(T) \subseteq P
<1> DEFINE S == {n \in Nat : \A s \in Seq(T) : Len(s) = n => s \in P}
<1>1. 0 \in S
  BY EmptySeq
<1>2. ASSUME NEW n \in Nat, n \in S PROVE n + 1 \in S
  <2> SUFFICES ASSUME NEW s \in Seq(T), Len(s) = n + 1 PROVE s \in P
    OBVIOUS
  <2>1. s # <<>>
    BY EmptySeq
  <2>2. PICK t \in Seq(T), x \in T : s = Append(t, x)
    BY <2>1, SequenceEmptyOrAppend
  <2>3. Len(t) = n
    BY <2>2, AppendProperties
  <2> QED
    BY <1>2, <2>2, <2>3
<1>3. Nat \subseteq S
  <2> HIDE DEF S
  <2> QED
    BY <1>1, <1>2, Induct
<1> QED
  BY <1>3, LenProperties

\* g[n] is what the first n steps of F make of b; m is their number.
Folds(g, m, b, F, D) ==
  g \in [0 .. m -> D] /\ g[0] = b /\ \A n \in 1 .. m : g[n] = F[n][g[n - 1]]

LEMMA FoldExists ==
  ASSUME NEW m \in Nat, NEW D, NEW b \in D, NEW F \in [1 .. m -> [D -> D]]
  PROVE  \E g : Folds(g, m, b, F, D)
<1> DEFINE S == {k \in Nat : k <= m => \E g : Folds(g, k, b, F, D)}
<1>1. 0 \in S
  <2> DEFINE g == [n \in 0 .. 0 |-> b]
  <2>1. Folds(g, 0, b, F, D)
    BY DEF Folds
  <2> QED
    BY <2>1
<1>2. ASSUME NEW k \in Nat, k \in S PROVE k + 1 \in S
  <2> SUFFICES ASSUME k + 1 <= m PROVE \E g : Folds(g, k + 1, b, F, D)
    OBVIOUS
  <2>1. PICK h : Folds(h, k, b, F, D)
    BY <1>2
  <2> DEFINE g == [n \in 0 .. k + 1 |-> IF n <= k THEN h[n] ELSE F[k + 1][h[k]]]
  <2>2. h \in [0 .. k -> D] /\ F[k + 1] \in [D -> D] /\ h[k] \in D
    BY <2>1 DEF Folds
  <2>3. g \in [0 .. k + 1 -> D]
    BY <2>2
  <2>4. \A n \in 1 .. k + 1 : g[n] = F[n][g[n - 1]]
    <3> TAKE n \in 1 .. k + 1
    <3>1. CASE n <= k
      <4>1. h[n] = F[n][h[n - 1]]
        BY <2>1, <3>1 DEF Folds
      <4>2. g[n] = h[n] /\ g[n - 1] = h[n - 1]
        BY <3>1
      <4> HIDE DEF g
      <4> QED
        BY <4>1, <4>2
    <3>2. CASE n = k + 1
      <4>1. g[n] = F[k + 1][h[k]] /\ g[n - 1] = h[k]
        BY <3>2
      <4> HIDE DEF g
      <4> QED
        BY <4>1, <3>2
    <3> QED
      BY <3>1, <3>2
  <2>5. g[0] = b
    BY <2>1 DEF Folds
  <2> HIDE DEF g
  <2>6. Folds(g, k + 1, b, F, D)
    BY <2>3, <2>4, <2>5 DEF Folds
  <2> QED
    BY <2>6
<1>3. Nat \subseteq S
  <2> HIDE DEF S
  <2> QED
    BY <1>1, <1>2, Induct
<1> QED
  BY <1>3

\* A function that takes the steps of F where it stays in D stays in D.
LEMMA FoldIs ==
  ASSUME NEW m \in Nat, NEW D, NEW b \in D, NEW F \in [1 .. m -> [D -> D]], NEW g,
         g = [n \in 0 .. m |-> g[n]], g[0] = b, 
         \A n \in 1 .. m : g[n - 1] \in D => g[n] = F[n][g[n - 1]]
  PROVE  Folds(g, m, b, F, D)
<1> DEFINE S == {n \in Nat : n <= m => g[n] \in D}
<1>1. 0 \in S
  OBVIOUS
<1>2. ASSUME NEW n \in Nat, n \in S PROVE n + 1 \in S
  <2> SUFFICES ASSUME n + 1 <= m PROVE g[n + 1] \in D
    OBVIOUS
  <2>1. n + 1 \in 1 .. m /\ (n + 1) - 1 = n /\ g[n] \in D
    BY <1>2
  <2>2. F[n + 1] \in [D -> D]
    BY <2>1
  <2> QED
    BY <2>1, <2>2
<1>3. Nat \subseteq S
  <2> HIDE DEF S
  <2> QED
    BY <1>1, <1>2, Induct
<1>4. \A n \in 0 .. m : g[n] \in D
  <2> TAKE n \in 0 .. m
  <2>1. n \in Nat /\ n <= m
    OBVIOUS
  <2> QED
    BY <1>3, <2>1
<1>5. g \in [0 .. m -> D]
  BY <1>4
<1>6. \A n \in 1 .. m : g[n] = F[n][g[n - 1]]
  <2> TAKE n \in 1 .. m
  <2>1. n - 1 \in 0 .. m
    OBVIOUS
  <2> QED
    BY <1>4, <2>1
<1> QED
  BY <1>5, <1>6 DEF Folds

\* A fold with one step more goes on from where the other one ends.
LEMMA FoldNext ==
  ASSUME NEW m \in Nat, NEW D, NEW b \in D, NEW F, NEW G, NEW g, NEW h,
         Folds(g, m, b, F, D), Folds(h, m + 1, b, G, D), \A n \in 1 .. m : F[n] = G[n]
  PROVE  h[m + 1] = G[m + 1][g[m]] /\ g[m] \in D
<1> DEFINE S == {n \in Nat : n <= m => g[n] = h[n]}
<1>1. 0 \in S
  BY DEF Folds
<1>2. ASSUME NEW n \in Nat, n \in S PROVE n + 1 \in S
  <2> SUFFICES ASSUME n + 1 <= m PROVE g[n + 1] = h[n + 1]
    OBVIOUS
  <2>1. n + 1 \in 1 .. m /\ n + 1 \in 1 .. m + 1 /\ (n + 1) - 1 = n
    OBVIOUS
  <2>2. g[n] = h[n]
    BY <1>2
  <2>3. g[n + 1] = F[n + 1][g[n]] /\ h[n + 1] = G[n + 1][h[n]]
    BY <2>1 DEF Folds
  <2> QED
    BY <2>1, <2>2, <2>3
<1>3. Nat \subseteq S
  <2> HIDE DEF S
  <2> QED
    BY <1>1, <1>2, Induct
<1>4. g[m] = h[m]
  BY <1>3
<1>5. h[m + 1] = G[m + 1][h[m]]
  <2>1. m + 1 \in 1 .. m + 1 /\ (m + 1) - 1 = m
    OBVIOUS
  <2> QED
    BY <2>1 DEF Folds
<1>6. g[m] \in D
  BY DEF Folds
<1> QED
  BY <1>4, <1>5, <1>6

-----------------------------------------------------------------------------
(* Folds of the model: what a recursive function of a sequence does with one *)
(* more element.                                                            *)

WithoutSteps(s, S, D) == [n \in 1 .. Len(s) |-> [q \in D |-> IF s[n] \in S THEN q ELSE Append(q, s[n])]]

LEMMA WithoutFold ==
  ASSUME NEW T, NEW S, NEW s \in Seq(T)
  PROVE  \E g : Folds(g, Len(s), <<>>, WithoutSteps(s, S, Seq(T)), Seq(T)) /\ Without(s, S) = g[Len(s)]
<1> DEFINE D == Seq(T)
           m == Len(s)
           F == WithoutSteps(s, S, D)
           Is(g) == g = [n \in 0 .. Len(s) |-> IF n = 0 THEN <<>> ELSE IF s[n] \in S THEN g[n - 1] ELSE Append(g[n - 1], s[n])]
           K == CHOOSE g : Is(g)
<1>0. \A q \in D, e \in T : (IF e \in S THEN q ELSE Append(q, e)) \in D
  <2> SUFFICES ASSUME NEW q \in Seq(T), NEW e \in T PROVE Append(q, e) \in Seq(T)
    OBVIOUS
  <2> QED
    BY AppendProperties
<1>1. m \in Nat /\ <<>> \in D
  OBVIOUS
<1>2. \A n \in 1 .. m : s[n] \in T
  OBVIOUS
<1> HIDE DEF D, m
<1>3. F = [n \in 1 .. m |-> [q \in D |-> IF s[n] \in S THEN q ELSE Append(q, s[n])]]
  BY DEF WithoutSteps, m
<1> HIDE DEF F
<1>4. \A n \in 1 .. m, q \in D : F[n][q] = IF s[n] \in S THEN q ELSE Append(q, s[n])
  BY <1>3
<1>5. F \in [1 .. m -> [D -> D]]
  <2>1. \A n \in 1 .. m : n \in Nat
    OBVIOUS
  <2>2. \A n \in 1 .. m, q \in D : (IF s[n] \in S THEN q ELSE Append(q, s[n])) \in D
    BY <1>0, <1>2, <2>1
  <2> QED
    BY <1>3, <2>2
<1>6. PICK g : Folds(g, m, <<>>, F, D)
  BY <1>1, <1>5, FoldExists
<1>7. Is(g)
  <2>1. g \in [0 .. m -> D] /\ g[0] = <<>> /\ \A n \in 1 .. m : g[n] = F[n][g[n - 1]]
    BY <1>6 DEF Folds
  <2>2. \A n \in 0 .. m : g[n] = IF n = 0 THEN <<>> ELSE IF s[n] \in S THEN g[n - 1] ELSE Append(g[n - 1], s[n])
    <3> TAKE n \in 0 .. m
    <3>1. CASE n = 0
      BY <2>1, <3>1
    <3>2. CASE n # 0
      <4>0. n \in 1 .. m /\ n - 1 \in 0 .. m
        BY <1>1, <3>2
      <4>1. n \in 1 .. m /\ g[n - 1] \in D
        BY <2>1, <4>0
      <4> QED
        BY <1>4, <2>1, <3>2, <4>1
    <3> QED
      BY <3>1, <3>2
  <2> QED
    BY <2>1, <2>2 DEF m
<1>8. Is(K)
  <2> HIDE DEF Is
  <2> QED
    BY <1>7
<1>9. Without(s, S) = K[m]
  BY DEF Without, m
<1> HIDE DEF K
<1>10. K = [n \in 0 .. m |-> K[n]] /\ K[0] = <<>>
  BY <1>1, <1>8 DEF m
<1>11. \A n \in 1 .. m : K[n - 1] \in D => K[n] = F[n][K[n - 1]]
  <2> SUFFICES ASSUME NEW n \in 1 .. m, K[n - 1] \in D PROVE K[n] = F[n][K[n - 1]]
    OBVIOUS
  <2>1. n \in 0 .. m /\ n # 0
    BY <1>1
  <2>2. K[n] = IF s[n] \in S THEN K[n - 1] ELSE Append(K[n - 1], s[n])
    BY <1>8, <2>1 DEF m
  <2> QED
    BY <1>4, <2>2
<1>12. Folds(K, m, <<>>, F, D)
  BY <1>1, <1>5, <1>10, <1>11, FoldIs
<1> QED
  BY <1>9, <1>12 DEF F, D, m

LEMMA WithoutType ==
  ASSUME NEW T, NEW S, NEW s \in Seq(T)
  PROVE  Without(s, S) \in Seq(T)
<1>1. PICK g : Folds(g, Len(s), <<>>, WithoutSteps(s, S, Seq(T)), Seq(T)) /\ Without(s, S) = g[Len(s)]
  BY WithoutFold
<1>2. Len(s) \in 0 .. Len(s)
  OBVIOUS
<1>3. g \in [0 .. Len(s) -> Seq(T)]
  BY <1>1 DEF Folds
<1> QED
  BY <1>1, <1>2, <1>3

LEMMA WithoutAppend ==
  ASSUME NEW T, NEW S, NEW s \in Seq(T), NEW e \in T
  PROVE  /\ Without(s, S) \in Seq(T)
         /\ Without(Append(s, e), S) = IF e \in S THEN Without(s, S) ELSE Append(Without(s, S), e)
<1> DEFINE t == Append(s, e)
           D == Seq(T)
           m == Len(s)
           F == WithoutSteps(s, S, D)
           G == WithoutSteps(t, S, D)
<1>1. t \in Seq(T) /\ Len(t) = m + 1 /\ m \in Nat /\ t[m + 1] = e /\ \A n \in 1 .. m : t[n] = s[n]
  OBVIOUS
<1>2. <<>> \in D
  OBVIOUS
<1> HIDE DEF t, D
<1>3. PICK g : Folds(g, m, <<>>, F, D) /\ Without(s, S) = g[m]
  BY WithoutFold DEF D
<1>4. PICK h : Folds(h, m + 1, <<>>, G, D) /\ Without(t, S) = h[m + 1]
  <2>1. \E h : Folds(h, Len(t), <<>>, G, D) /\ Without(t, S) = h[Len(t)]
    BY <1>1, WithoutFold DEF D
  <2> QED
    BY <1>1, <2>1
<1> HIDE DEF m
<1>5. \A n \in 1 .. m : F[n] = G[n]
  <2> TAKE n \in 1 .. m
  <2>1. n \in 1 .. Len(t) /\ n \in 1 .. Len(s) /\ s[n] = t[n]
    BY <1>1 DEF m
  <2> QED
    BY <2>1 DEF WithoutSteps
<1>6. \A q \in D : G[m + 1][q] = IF e \in S THEN q ELSE Append(q, e)
  BY <1>1 DEF WithoutSteps
<1> HIDE DEF F, G
<1>7. h[m + 1] = G[m + 1][g[m]] /\ g[m] \in D
  <2>1. m \in Nat
    BY <1>1
  <2> QED
    BY <1>2, <1>3, <1>4, <1>5, <2>1, FoldNext
<1> QED
  BY <1>3, <1>4, <1>6, <1>7 DEF t, D

LEMMA WithoutEmpty ==
  ASSUME NEW S
  PROVE  Without(<<>>, S) = <<>>
<1>1. <<>> \in Seq({}) /\ Len(<<>>) = 0
  OBVIOUS
<1>2. PICK g : Folds(g, Len(<<>>), <<>>, WithoutSteps(<<>>, S, Seq({})), Seq({})) /\ Without(<<>>, S) = g[Len(<<>>)]
  BY <1>1, WithoutFold
<1> QED
  BY <1>1, <1>2 DEF Folds

\* What Split has in hand: at least one part.
Parts(T) == Seq(Seq(T)) \ {<<>>}

LEMMA ExtendedParts ==
  ASSUME NEW T, NEW seps, NEW q \in Parts(T \ seps), NEW e \in T
  PROVE  Extended(q, e, seps) \in Parts(T \ seps)
<1>1. q \in Seq(Seq(T \ seps)) /\ q # <<>>
  BY DEF Parts
<1> DEFINE D == Seq(T \ seps)
           k == Len(q)
           b == Append(q[k], e)
<1>2. k \in Nat \ {0}
  BY <1>1, EmptySeq
<1>3. k \in 1 .. k
  BY <1>2
<1>4. q[k] \in D
  BY <1>1, <1>3, ElementOfSeq
<1>5. e \notin seps => b \in D
  BY <1>4
<1>6. Append(q, <<>>) \in Seq(D) /\ Append(q, <<>>) # <<>>
  <2>1. <<>> \in D /\ q \in Seq(D)
    BY <1>1
  <2> HIDE DEF D
  <2> QED
    BY <2>1, AppendProperties
<1> HIDE DEF b
<1>7. e \notin seps => [q EXCEPT ![k] = b] \in Seq(D) /\ [q EXCEPT ![k] = b] # <<>>
  <2> SUFFICES ASSUME e \notin seps PROVE [q EXCEPT ![k] = b] \in Seq(D) /\ [q EXCEPT ![k] = b] # <<>>
    OBVIOUS
  <2>1. k \in 1 .. Len(q) /\ q \in Seq(D)
    BY <1>1, <1>3
  <2>2. [q EXCEPT ![k] = b] \in Seq(D) /\ Len([q EXCEPT ![k] = b]) = k
    <3> HIDE DEF D
    <3> QED
      BY <1>5, <2>1, ExceptSeq
  <2> QED
    BY <1>2, <2>2, EmptySeq
<1>9. Extended(q, e, seps) = IF e \in seps THEN Append(q, <<>>) ELSE [q EXCEPT ![k] = b]
  BY DEF Extended, b
<1> QED
  BY <1>6, <1>7, <1>9 DEF Parts

SplitSteps(t0, seps, D) == [n \in 1 .. Len(t0) |-> [q \in D |-> Extended(q, t0[n], seps)]]

LEMMA SplitFold ==
  ASSUME NEW T, NEW seps, NEW t0 \in Seq(T)
  PROVE  \E g : Folds(g, Len(t0), << <<>> >>, SplitSteps(t0, seps, Parts(T \ seps)), Parts(T \ seps)) /\ Split(t0, seps) = g[Len(t0)]
<1> DEFINE D == Parts(T \ seps)
           m == Len(t0)
           F == SplitSteps(t0, seps, D)
           Is(g) == g = [n \in 0 .. Len(t0) |-> IF n = 0 THEN << <<>> >> ELSE Extended(g[n - 1], t0[n], seps)]
           K == CHOOSE g : Is(g)
<1>0. \A q \in D, e \in T : (Extended(q, e, seps)) \in D
  BY ExtendedParts
<1>1. m \in Nat /\ << <<>> >> \in D
  BY DEF Parts
<1>2. \A n \in 1 .. m : t0[n] \in T
  OBVIOUS
<1> HIDE DEF D, m
<1>3. F = [n \in 1 .. m |-> [q \in D |-> Extended(q, t0[n], seps)]]
  BY DEF SplitSteps, m
<1> HIDE DEF F
<1>4. \A n \in 1 .. m, q \in D : F[n][q] = Extended(q, t0[n], seps)
  BY <1>3
<1>5. F \in [1 .. m -> [D -> D]]
  <2>1. \A n \in 1 .. m : n \in Nat
    OBVIOUS
  <2>2. \A n \in 1 .. m, q \in D : (Extended(q, t0[n], seps)) \in D
    BY <1>0, <1>2, <2>1
  <2> QED
    BY <1>3, <2>2
<1>6. PICK g : Folds(g, m, << <<>> >>, F, D)
  BY <1>1, <1>5, FoldExists
<1>7. Is(g)
  <2>1. g \in [0 .. m -> D] /\ g[0] = << <<>> >> /\ \A n \in 1 .. m : g[n] = F[n][g[n - 1]]
    BY <1>6 DEF Folds
  <2>2. \A n \in 0 .. m : g[n] = IF n = 0 THEN << <<>> >> ELSE Extended(g[n - 1], t0[n], seps)
    <3> TAKE n \in 0 .. m
    <3>1. CASE n = 0
      BY <2>1, <3>1
    <3>2. CASE n # 0
      <4>0. n \in 1 .. m /\ n - 1 \in 0 .. m
        BY <1>1, <3>2
      <4>1. n \in 1 .. m /\ g[n - 1] \in D
        BY <2>1, <4>0
      <4> QED
        BY <1>4, <2>1, <3>2, <4>1
    <3> QED
      BY <3>1, <3>2
  <2> QED
    BY <2>1, <2>2 DEF m
<1>8. Is(K)
  <2> HIDE DEF Is
  <2> QED
    BY <1>7
<1>9. Split(t0, seps) = K[m]
  BY DEF Split, m
<1> HIDE DEF K
<1>10. K = [n \in 0 .. m |-> K[n]] /\ K[0] = << <<>> >>
  BY <1>1, <1>8 DEF m
<1>11. \A n \in 1 .. m : K[n - 1] \in D => K[n] = F[n][K[n - 1]]
  <2> SUFFICES ASSUME NEW n \in 1 .. m, K[n - 1] \in D PROVE K[n] = F[n][K[n - 1]]
    OBVIOUS
  <2>1. n \in 0 .. m /\ n # 0
    BY <1>1
  <2>2. K[n] = Extended(K[n - 1], t0[n], seps)
    BY <1>8, <2>1 DEF m
  <2> QED
    BY <1>4, <2>2
<1>12. Folds(K, m, << <<>> >>, F, D)
  BY <1>1, <1>5, <1>10, <1>11, FoldIs
<1> QED
  BY <1>9, <1>12 DEF F, D, m

LEMMA SplitType ==
  ASSUME NEW T, NEW seps, NEW t0 \in Seq(T)
  PROVE  Split(t0, seps) \in Parts(T \ seps)
<1>1. PICK g : Folds(g, Len(t0), << <<>> >>, SplitSteps(t0, seps, Parts(T \ seps)), Parts(T \ seps)) /\ Split(t0, seps) = g[Len(t0)]
  BY SplitFold
<1>2. Len(t0) \in 0 .. Len(t0)
  OBVIOUS
<1>3. g \in [0 .. Len(t0) -> Parts(T \ seps)]
  BY <1>1 DEF Folds
<1> QED
  BY <1>1, <1>2, <1>3

LEMMA SplitAppend ==
  ASSUME NEW T, NEW seps, NEW t0 \in Seq(T), NEW e \in T
  PROVE  /\ Split(t0, seps) \in Parts(T \ seps)
         /\ Split(Append(t0, e), seps) = Extended(Split(t0, seps), e, seps)
<1> DEFINE t == Append(t0, e)
           D == Parts(T \ seps)
           m == Len(t0)
           F == SplitSteps(t0, seps, D)
           G == SplitSteps(t, seps, D)
<1>1. t \in Seq(T) /\ Len(t) = m + 1 /\ m \in Nat /\ t[m + 1] = e /\ \A n \in 1 .. m : t[n] = t0[n]
  OBVIOUS
<1>2. << <<>> >> \in D
  BY DEF Parts
<1> HIDE DEF t, D
<1>3. PICK g : Folds(g, m, << <<>> >>, F, D) /\ Split(t0, seps) = g[m]
  BY SplitFold DEF D
<1>4. PICK h : Folds(h, m + 1, << <<>> >>, G, D) /\ Split(t, seps) = h[m + 1]
  <2>1. \E h : Folds(h, Len(t), << <<>> >>, G, D) /\ Split(t, seps) = h[Len(t)]
    BY <1>1, SplitFold DEF D
  <2> QED
    BY <1>1, <2>1
<1> HIDE DEF m
<1>5. \A n \in 1 .. m : F[n] = G[n]
  <2> TAKE n \in 1 .. m
  <2>1. n \in 1 .. Len(t) /\ n \in 1 .. Len(t0) /\ t0[n] = t[n]
    BY <1>1 DEF m
  <2> QED
    BY <2>1 DEF SplitSteps
<1>6. \A q \in D : G[m + 1][q] = Extended(q, e, seps)
  BY <1>1 DEF SplitSteps
<1> HIDE DEF F, G
<1>7. h[m + 1] = G[m + 1][g[m]] /\ g[m] \in D
  <2>1. m \in Nat
    BY <1>1
  <2> QED
    BY <1>2, <1>3, <1>4, <1>5, <2>1, FoldNext
<1> QED
  BY <1>3, <1>4, <1>6, <1>7 DEF t, D

LEMMA SplitEmpty ==
  ASSUME NEW seps
  PROVE  Split(<<>>, seps) = << <<>> >>
<1>1. <<>> \in Seq({}) /\ Len(<<>>) = 0
  OBVIOUS
<1>2. PICK g : Folds(g, Len(<<>>), << <<>> >>, SplitSteps(<<>>, seps, Parts({} \ seps)), Parts({} \ seps)) /\ Split(<<>>, seps) = g[Len(<<>>)]
  BY <1>1, SplitFold
<1> QED
  BY <1>1, <1>2 DEF Folds

LEMMA AddTagType ==
  ASSUME NEW T, NEW q \in Seq(T), NEW e \in T
  PROVE  AddTag(q, e) \in Seq(T)
BY DEF AddTag

DistinctSteps(s, D) == [n \in 1 .. Len(s) |-> [q \in D |-> AddTag(q, s[n])]]

LEMMA DistinctFold ==
  ASSUME NEW T, NEW s \in Seq(T)
  PROVE  \E g : Folds(g, Len(s), <<>>, DistinctSteps(s, Seq(T)), Seq(T)) /\ Distinct(s) = g[Len(s)]
<1> DEFINE D == Seq(T)
           m == Len(s)
           F == DistinctSteps(s, D)
           Is(g) == g = [n \in 0 .. Len(s) |-> IF n = 0 THEN <<>> ELSE AddTag(g[n - 1], s[n])]
           K == CHOOSE g : Is(g)
<1>0. \A q \in D, e \in T : (AddTag(q, e)) \in D
  BY AddTagType
<1>1. m \in Nat /\ <<>> \in D
  OBVIOUS
<1>2. \A n \in 1 .. m : s[n] \in T
  OBVIOUS
<1> HIDE DEF D, m
<1>3. F = [n \in 1 .. m |-> [q \in D |-> AddTag(q, s[n])]]
  BY DEF DistinctSteps, m
<1> HIDE DEF F
<1>4. \A n \in 1 .. m, q \in D : F[n][q] = AddTag(q, s[n])
  BY <1>3
<1>5. F \in [1 .. m -> [D -> D]]
  <2>1. \A n \in 1 .. m : n \in Nat
    OBVIOUS
  <2>2. \A n \in 1 .. m, q \in D : (AddTag(q, s[n])) \in D
    BY <1>0, <1>2, <2>1
  <2> QED
    BY <1>3, <2>2
<1>6. PICK g : Folds(g, m, <<>>, F, D)
  BY <1>1, <1>5, FoldExists
<1>7. Is(g)
  <2>1. g \in [0 .. m -> D] /\ g[0] = <<>> /\ \A n \in 1 .. m : g[n] = F[n][g[n - 1]]
    BY <1>6 DEF Folds
  <2>2. \A n \in 0 .. m : g[n] = IF n = 0 THEN <<>> ELSE AddTag(g[n - 1], s[n])
    <3> TAKE n \in 0 .. m
    <3>1. CASE n = 0
      BY <2>1, <3>1
    <3>2. CASE n # 0
      <4>0. n \in 1 .. m /\ n - 1 \in 0 .. m
        BY <1>1, <3>2
      <4>1. n \in 1 .. m /\ g[n - 1] \in D
        BY <2>1, <4>0
      <4> QED
        BY <1>4, <2>1, <3>2, <4>1
    <3> QED
      BY <3>1, <3>2
  <2> QED
    BY <2>1, <2>2 DEF m
<1>8. Is(K)
  <2> HIDE DEF Is
  <2> QED
    BY <1>7
<1>9. Distinct(s) = K[m]
  BY DEF Distinct, m
<1> HIDE DEF K
<1>10. K = [n \in 0 .. m |-> K[n]] /\ K[0] = <<>>
  BY <1>1, <1>8 DEF m
<1>11. \A n \in 1 .. m : K[n - 1] \in D => K[n] = F[n][K[n - 1]]
  <2> SUFFICES ASSUME NEW n \in 1 .. m, K[n - 1] \in D PROVE K[n] = F[n][K[n - 1]]
    OBVIOUS
  <2>1. n \in 0 .. m /\ n # 0
    BY <1>1
  <2>2. K[n] = AddTag(K[n - 1], s[n])
    BY <1>8, <2>1 DEF m
  <2> QED
    BY <1>4, <2>2
<1>12. Folds(K, m, <<>>, F, D)
  BY <1>1, <1>5, <1>10, <1>11, FoldIs
<1> QED
  BY <1>9, <1>12 DEF F, D, m

LEMMA DistinctType ==
  ASSUME NEW T, NEW s \in Seq(T)
  PROVE  Distinct(s) \in Seq(T)
<1>1. PICK g : Folds(g, Len(s), <<>>, DistinctSteps(s, Seq(T)), Seq(T)) /\ Distinct(s) = g[Len(s)]
  BY DistinctFold
<1>2. Len(s) \in 0 .. Len(s)
  OBVIOUS
<1>3. g \in [0 .. Len(s) -> Seq(T)]
  BY <1>1 DEF Folds
<1> QED
  BY <1>1, <1>2, <1>3

LEMMA DistinctAppend ==
  ASSUME NEW T, NEW s \in Seq(T), NEW e \in T
  PROVE  /\ Distinct(s) \in Seq(T)
         /\ Distinct(Append(s, e)) = AddTag(Distinct(s), e)
<1> DEFINE t == Append(s, e)
           D == Seq(T)
           m == Len(s)
           F == DistinctSteps(s, D)
           G == DistinctSteps(t, D)
<1>1. t \in Seq(T) /\ Len(t) = m + 1 /\ m \in Nat /\ t[m + 1] = e /\ \A n \in 1 .. m : t[n] = s[n]
  OBVIOUS
<1>2. <<>> \in D
  OBVIOUS
<1> HIDE DEF t, D
<1>3. PICK g : Folds(g, m, <<>>, F, D) /\ Distinct(s) = g[m]
  BY DistinctFold DEF D
<1>4. PICK h : Folds(h, m + 1, <<>>, G, D) /\ Distinct(t) = h[m + 1]
  <2>1. \E h : Folds(h, Len(t), <<>>, G, D) /\ Distinct(t) = h[Len(t)]
    BY <1>1, DistinctFold DEF D
  <2> QED
    BY <1>1, <2>1
<1> HIDE DEF m
<1>5. \A n \in 1 .. m : F[n] = G[n]
  <2> TAKE n \in 1 .. m
  <2>1. n \in 1 .. Len(t) /\ n \in 1 .. Len(s) /\ s[n] = t[n]
    BY <1>1 DEF m
  <2> QED
    BY <2>1 DEF DistinctSteps
<1>6. \A q \in D : G[m + 1][q] = AddTag(q, e)
  BY <1>1 DEF DistinctSteps
<1> HIDE DEF F, G
<1>7. h[m + 1] = G[m + 1][g[m]] /\ g[m] \in D
  <2>1. m \in Nat
    BY <1>1
  <2> QED
    BY <1>2, <1>3, <1>4, <1>5, <2>1, FoldNext
<1> QED
  BY <1>3, <1>4, <1>6, <1>7 DEF t, D

LEMMA DistinctEmpty == Distinct(<<>>) = <<>>
<1>1. <<>> \in Seq({}) /\ Len(<<>>) = 0
  OBVIOUS
<1>2. PICK g : Folds(g, Len(<<>>), <<>>, DistinctSteps(<<>>, Seq({})), Seq({})) /\ Distinct(<<>>) = g[Len(<<>>)]
  BY <1>1, DistinctFold
<1> QED
  BY <1>1, <1>2 DEF Folds

JoinSteps(ts, sep, D) == [n \in 1 .. Len(ts) |-> [q \in D |-> IF n = 1 THEN ts[n] ELSE q \o sep \o ts[n]]]

LEMMA JoinFold ==
  ASSUME NEW T, NEW sep \in Seq(T), NEW ts \in Seq(Seq(T))
  PROVE  \E g : Folds(g, Len(ts), <<>>, JoinSteps(ts, sep, Seq(T)), Seq(T)) /\ Join(ts, sep) = g[Len(ts)]
<1> DEFINE D == Seq(T)
           m == Len(ts)
           F == JoinSteps(ts, sep, D)
           Is(g) == g = [n \in 0 .. Len(ts) |-> IF n = 0 THEN <<>> ELSE IF n = 1 THEN ts[n] ELSE g[n - 1] \o sep \o ts[n]]
           K == CHOOSE g : Is(g)
<1>0. \A q \in D, e \in Seq(T), n \in Nat : (IF n = 1 THEN e ELSE q \o sep \o e) \in D
  <2> SUFFICES ASSUME NEW q \in D, NEW e \in Seq(T) PROVE q \o sep \o e \in D
    OBVIOUS
  <2>1. q \o sep \in D
    BY ConcatProperties
  <2> QED
    BY <2>1, ConcatProperties
<1>1. m \in Nat /\ <<>> \in D
  OBVIOUS
<1>2. \A n \in 1 .. m : ts[n] \in Seq(T)
  OBVIOUS
<1> HIDE DEF D, m
<1>3. F = [n \in 1 .. m |-> [q \in D |-> IF n = 1 THEN ts[n] ELSE q \o sep \o ts[n]]]
  BY DEF JoinSteps, m
<1> HIDE DEF F
<1>4. \A n \in 1 .. m, q \in D : F[n][q] = IF n = 1 THEN ts[n] ELSE q \o sep \o ts[n]
  BY <1>3
<1>5. F \in [1 .. m -> [D -> D]]
  <2>1. \A n \in 1 .. m : n \in Nat
    OBVIOUS
  <2>2. \A n \in 1 .. m, q \in D : (IF n = 1 THEN ts[n] ELSE q \o sep \o ts[n]) \in D
    BY <1>0, <1>2, <2>1
  <2> QED
    BY <1>3, <2>2
<1>6. PICK g : Folds(g, m, <<>>, F, D)
  BY <1>1, <1>5, FoldExists
<1>7. Is(g)
  <2>1. g \in [0 .. m -> D] /\ g[0] = <<>> /\ \A n \in 1 .. m : g[n] = F[n][g[n - 1]]
    BY <1>6 DEF Folds
  <2>2. \A n \in 0 .. m : g[n] = IF n = 0 THEN <<>> ELSE IF n = 1 THEN ts[n] ELSE g[n - 1] \o sep \o ts[n]
    <3> TAKE n \in 0 .. m
    <3>1. CASE n = 0
      BY <2>1, <3>1
    <3>2. CASE n # 0
      <4>0. n \in 1 .. m /\ n - 1 \in 0 .. m
        BY <1>1, <3>2
      <4>1. n \in 1 .. m /\ g[n - 1] \in D
        BY <2>1, <4>0
      <4> QED
        BY <1>4, <2>1, <3>2, <4>1
    <3> QED
      BY <3>1, <3>2
  <2> QED
    BY <2>1, <2>2 DEF m
<1>8. Is(K)
  <2> HIDE DEF Is
  <2> QED
    BY <1>7
<1>9. Join(ts, sep) = K[m]
  BY DEF Join, m
<1> HIDE DEF K
<1>10. K = [n \in 0 .. m |-> K[n]] /\ K[0] = <<>>
  BY <1>1, <1>8 DEF m
<1>11. \A n \in 1 .. m : K[n - 1] \in D => K[n] = F[n][K[n - 1]]
  <2> SUFFICES ASSUME NEW n \in 1 .. m, K[n - 1] \in D PROVE K[n] = F[n][K[n - 1]]
    OBVIOUS
  <2>1. n \in 0 .. m /\ n # 0
    BY <1>1
  <2>2. K[n] = IF n = 1 THEN ts[n] ELSE K[n - 1] \o sep \o ts[n]
    BY <1>8, <2>1 DEF m
  <2> QED
    BY <1>4, <2>2
<1>12. Folds(K, m, <<>>, F, D)
  BY <1>1, <1>5, <1>10, <1>11, FoldIs
<1> QED
  BY <1>9, <1>12 DEF F, D, m

LEMMA JoinType ==
  ASSUME NEW T, NEW sep \in Seq(T), NEW ts \in Seq(Seq(T))
  PROVE  Join(ts, sep) \in Seq(T)
<1>1. PICK g : Folds(g, Len(ts), <<>>, JoinSteps(ts, sep, Seq(T)), Seq(T)) /\ Join(ts, sep) = g[Len(ts)]
  BY JoinFold
<1>2. Len(ts) \in 0 .. Len(ts)
  OBVIOUS
<1>3. g \in [0 .. Len(ts) -> Seq(T)]
  BY <1>1 DEF Folds
<1> QED
  BY <1>1, <1>2, <1>3

LEMMA JoinAppend ==
  ASSUME NEW T, NEW sep \in Seq(T), NEW ts \in Seq(Seq(T)), NEW e \in Seq(T)
  PROVE  /\ Join(ts, sep) \in Seq(T)
         /\ Join(Append(ts, e), sep) = IF Len(ts) + 1 = 1 THEN e ELSE Join(ts, sep) \o sep \o e
<1> DEFINE t == Append(ts, e)
           D == Seq(T)
           m == Len(ts)
           F == JoinSteps(ts, sep, D)
           G == JoinSteps(t, sep, D)
<1>1. t \in Seq(Seq(T)) /\ Len(t) = m + 1 /\ m \in Nat /\ t[m + 1] = e /\ \A n \in 1 .. m : t[n] = ts[n]
  OBVIOUS
<1>2. <<>> \in D
  OBVIOUS
<1> HIDE DEF t, D
<1>3. PICK g : Folds(g, m, <<>>, F, D) /\ Join(ts, sep) = g[m]
  BY JoinFold DEF D
<1>4. PICK h : Folds(h, m + 1, <<>>, G, D) /\ Join(t, sep) = h[m + 1]
  <2>1. \E h : Folds(h, Len(t), <<>>, G, D) /\ Join(t, sep) = h[Len(t)]
    BY <1>1, JoinFold DEF D
  <2> QED
    BY <1>1, <2>1
<1> HIDE DEF m
<1>5. \A n \in 1 .. m : F[n] = G[n]
  <2> TAKE n \in 1 .. m
  <2>1. n \in 1 .. Len(t) /\ n \in 1 .. Len(ts) /\ ts[n] = t[n]
    BY <1>1 DEF m
  <2> QED
    BY <2>1 DEF JoinSteps
<1>6. \A q \in D : G[m + 1][q] = IF m + 1 = 1 THEN e ELSE q \o sep \o e
  BY <1>1 DEF JoinSteps
<1> HIDE DEF F, G
<1>7. h[m + 1] = G[m + 1][g[m]] /\ g[m] \in D
  <2>1. m \in Nat
    BY <1>1
  <2> QED
    BY <1>2, <1>3, <1>4, <1>5, <2>1, FoldNext
<1> QED
  BY <1>3, <1>4, <1>6, <1>7 DEF t, D, m

LEMMA JoinEmpty ==
  ASSUME NEW T, NEW sep \in Seq(T)
  PROVE  Join(<<>>, sep) = <<>>
<1>1. <<>> \in Seq(Seq(T)) /\ Len(<<>>) = 0
  OBVIOUS
<1>2. PICK g : Folds(g, Len(<<>>), <<>>, JoinSteps(<<>>, sep, Seq(T)), Seq(T)) /\ Join(<<>>, sep) = g[Len(<<>>)]
  BY <1>1, JoinFold
<1> QED
  BY <1>1, <1>2 DEF Folds

DoubledSteps(t0, D) == [n \in 1 .. Len(t0) |-> [q \in D |-> q \o (IF t0[n] = "q" THEN <<"q", "q">> ELSE <<t0[n]>>)]]

LEMMA DoubledFold ==
  ASSUME NEW T, NEW t0 \in Seq(T)
  PROVE  \E g : Folds(g, Len(t0), <<>>, DoubledSteps(t0, Seq(T)), Seq(T)) /\ Doubled(t0) = g[Len(t0)]
<1> DEFINE D == Seq(T)
           m == Len(t0)
           F == DoubledSteps(t0, D)
           Is(g) == g = [n \in 0 .. Len(t0) |-> IF n = 0 THEN <<>> ELSE g[n - 1] \o (IF t0[n] = "q" THEN <<"q", "q">> ELSE <<t0[n]>>)]
           K == CHOOSE g : Is(g)
<1>0. \A q \in D, e \in T : (q \o (IF e = "q" THEN <<"q", "q">> ELSE <<e>>)) \in D
  <2> SUFFICES ASSUME NEW q \in Seq(T), NEW e \in T PROVE q \o (IF e = "q" THEN <<"q", "q">> ELSE <<e>>) \in Seq(T)
    OBVIOUS
  <2>1. (IF e = "q" THEN <<"q", "q">> ELSE <<e>>) \in Seq(T)
    BY EmptySeq
  <2> QED
    BY <2>1, ConcatProperties
<1>1. m \in Nat /\ <<>> \in D
  OBVIOUS
<1>2. \A n \in 1 .. m : t0[n] \in T
  OBVIOUS
<1> HIDE DEF D, m
<1>3. F = [n \in 1 .. m |-> [q \in D |-> q \o (IF t0[n] = "q" THEN <<"q", "q">> ELSE <<t0[n]>>)]]
  BY DEF DoubledSteps, m
<1> HIDE DEF F
<1>4. \A n \in 1 .. m, q \in D : F[n][q] = q \o (IF t0[n] = "q" THEN <<"q", "q">> ELSE <<t0[n]>>)
  BY <1>3
<1>5. F \in [1 .. m -> [D -> D]]
  <2>1. \A n \in 1 .. m : n \in Nat
    OBVIOUS
  <2>2. \A n \in 1 .. m, q \in D : (q \o (IF t0[n] = "q" THEN <<"q", "q">> ELSE <<t0[n]>>)) \in D
    BY <1>0, <1>2, <2>1
  <2> QED
    BY <1>3, <2>2
<1>6. PICK g : Folds(g, m, <<>>, F, D)
  BY <1>1, <1>5, FoldExists
<1>7. Is(g)
  <2>1. g \in [0 .. m -> D] /\ g[0] = <<>> /\ \A n \in 1 .. m : g[n] = F[n][g[n - 1]]
    BY <1>6 DEF Folds
  <2>2. \A n \in 0 .. m : g[n] = IF n = 0 THEN <<>> ELSE g[n - 1] \o (IF t0[n] = "q" THEN <<"q", "q">> ELSE <<t0[n]>>)
    <3> TAKE n \in 0 .. m
    <3>1. CASE n = 0
      BY <2>1, <3>1
    <3>2. CASE n # 0
      <4>0. n \in 1 .. m /\ n - 1 \in 0 .. m
        BY <1>1, <3>2
      <4>1. n \in 1 .. m /\ g[n - 1] \in D
        BY <2>1, <4>0
      <4> QED
        BY <1>4, <2>1, <3>2, <4>1
    <3> QED
      BY <3>1, <3>2
  <2> QED
    BY <2>1, <2>2 DEF m
<1>8. Is(K)
  <2> HIDE DEF Is
  <2> QED
    BY <1>7
<1>9. Doubled(t0) = K[m]
  BY DEF Doubled, m
<1> HIDE DEF K
<1>10. K = [n \in 0 .. m |-> K[n]] /\ K[0] = <<>>
  BY <1>1, <1>8 DEF m
<1>11. \A n \in 1 .. m : K[n - 1] \in D => K[n] = F[n][K[n - 1]]
  <2> SUFFICES ASSUME NEW n \in 1 .. m, K[n - 1] \in D PROVE K[n] = F[n][K[n - 1]]
    OBVIOUS
  <2>1. n \in 0 .. m /\ n # 0
    BY <1>1
  <2>2. K[n] = K[n - 1] \o (IF t0[n] = "q" THEN <<"q", "q">> ELSE <<t0[n]>>)
    BY <1>8, <2>1 DEF m
  <2> QED
    BY <1>4, <2>2
<1>12. Folds(K, m, <<>>, F, D)
  BY <1>1, <1>5, <1>10, <1>11, FoldIs
<1> QED
  BY <1>9, <1>12 DEF F, D, m

LEMMA DoubledType ==
  ASSUME NEW T, NEW t0 \in Seq(T)
  PROVE  Doubled(t0) \in Seq(T)
<1>1. PICK g : Folds(g, Len(t0), <<>>, DoubledSteps(t0, Seq(T)), Seq(T)) /\ Doubled(t0) = g[Len(t0)]
  BY DoubledFold
<1>2. Len(t0) \in 0 .. Len(t0)
  OBVIOUS
<1>3. g \in [0 .. Len(t0) -> Seq(T)]
  BY <1>1 DEF Folds
<1> QED
  BY <1>1, <1>2, <1>3

LEMMA DoubledAppend ==
  ASSUME NEW T, NEW t0 \in Seq(T), NEW e \in T
  PROVE  /\ Doubled(t0) \in Seq(T)
         /\ Doubled(Append(t0, e)) = Doubled(t0) \o (IF e = "q" THEN <<"q", "q">> ELSE <<e>>)
<1> DEFINE t == Append(t0, e)
           D == Seq(T)
           m == Len(t0)
           F == DoubledSteps(t0, D)
           G == DoubledSteps(t, D)
<1>1. t \in Seq(T) /\ Len(t) = m + 1 /\ m \in Nat /\ t[m + 1] = e /\ \A n \in 1 .. m : t[n] = t0[n]
  OBVIOUS
<1>2. <<>> \in D
  OBVIOUS
<1> HIDE DEF t, D
<1>3. PICK g : Folds(g, m, <<>>, F, D) /\ Doubled(t0) = g[m]
  BY DoubledFold DEF D
<1>4. PICK h : Folds(h, m + 1, <<>>, G, D) /\ Doubled(t) = h[m + 1]
  <2>1. \E h : Folds(h, Len(t), <<>>, G, D) /\ Doubled(t) = h[Len(t)]
    BY <1>1, DoubledFold DEF D
  <2> QED
    BY <1>1, <2>1
<1> HIDE DEF m
<1>5. \A n \in 1 .. m : F[n] = G[n]
  <2> TAKE n \in 1 .. m
  <2>1. n \in 1 .. Len(t) /\ n \in 1 .. Len(t0) /\ t0[n] = t[n]
    BY <1>1 DEF m
  <2> QED
    BY <2>1 DEF DoubledSteps
<1>6. \A q \in D : G[m + 1][q] = q \o (IF e = "q" THEN <<"q", "q">> ELSE <<e>>)
  BY <1>1 DEF DoubledSteps
<1> HIDE DEF F, G
<1>7. h[m + 1] = G[m + 1][g[m]] /\ g[m] \in D
  <2>1. m \in Nat
    BY <1>1
  <2> QED
    BY <1>2, <1>3, <1>4, <1>5, <2>1, FoldNext
<1> QED
  BY <1>3, <1>4, <1>6, <1>7 DEF t, D

LEMMA DoubledEmpty == Doubled(<<>>) = <<>>
<1>1. <<>> \in Seq({}) /\ Len(<<>>) = 0
  OBVIOUS
<1>2. PICK g : Folds(g, Len(<<>>), <<>>, DoubledSteps(<<>>, Seq({})), Seq({})) /\ Doubled(<<>>) = g[Len(<<>>)]
  BY <1>1, DoubledFold
<1> QED
  BY <1>1, <1>2 DEF Folds

Scans(T) == [cells : Parts(T), quoted : BOOLEAN, escape : BOOLEAN]

\* What is read goes to the last of the parts.
Typed(q, c) == [q EXCEPT ![Len(q)] = Append(@, c)]

LEMMA TypedParts ==
  ASSUME NEW T, NEW q \in Parts(T), NEW e \in T
  PROVE  Typed(q, e) \in Parts(T) /\ Append(q, <<>>) \in Parts(T)
<1>1. Extended(q, e, {}) = Typed(q, e) /\ T \ {} = T
  BY DEF Extended, Typed
<1>2. Typed(q, e) \in Parts(T)
  BY <1>1, ExtendedParts
<1>3. q \in Seq(Seq(T)) /\ <<>> \in Seq(T)
  BY EmptySeq DEF Parts
<1> DEFINE D == Seq(T)
<1>4. q \in Seq(D) /\ <<>> \in D
  BY <1>3
<1> HIDE DEF D
<1>5. Append(q, <<>>) \in Seq(D) /\ Append(q, <<>>) # <<>>
  BY <1>4, AppendProperties
<1> QED
  BY <1>2, <1>5 DEF Parts, D

\* The steps of a scan, one by one.
LEMMA ScanSteps ==
  ASSUME NEW T, NEW s \in Scans(T), NEW c \in T
  PROVE  /\ c = "q" /\ s.escape => Scan(s, c) = [cells |-> Typed(s.cells, c), quoted |-> TRUE, escape |-> FALSE]
         /\ c = "q" /\ ~s.escape => Scan(s, c) = [cells |-> s.cells, quoted |-> ~s.quoted, escape |-> s.quoted]
         /\ c = "comma" /\ ~s.quoted => Scan(s, c) = [cells |-> Append(s.cells, <<>>), quoted |-> FALSE, escape |-> FALSE]
         /\ c # "q" /\ ~(c = "comma" /\ ~s.quoted) =>
              Scan(s, c) = [cells |-> Typed(s.cells, c), quoted |-> s.quoted, escape |-> FALSE]
<1>1. s = [cells |-> s.cells, quoted |-> s.quoted, escape |-> s.escape] /\ s.quoted \in BOOLEAN
  BY DEF Scans
<1>2. CASE c = "q" /\ s.escape
  <2>1. Scan(s, c) = [s EXCEPT !.cells[Len(s.cells)] = Append(@, c), !.escape = FALSE, !.quoted = TRUE]
    BY <1>2 DEF Scan
  <2> QED
    BY <1>1, <1>2, <2>1 DEF Typed
<1>3. CASE c = "q" /\ ~s.escape
  <2>1. Scan(s, c) = [s EXCEPT !.quoted = ~@, !.escape = s.quoted]
    BY <1>3 DEF Scan
  <2> QED
    BY <1>1, <1>3, <2>1
<1>4. CASE c = "comma" /\ ~s.quoted
  <2>1. Scan(s, c) = [s EXCEPT !.cells = Append(@, <<>>), !.escape = FALSE]
    BY <1>4 DEF Scan
  <2> QED
    BY <1>1, <1>4, <2>1
<1>5. CASE c # "q" /\ ~(c = "comma" /\ ~s.quoted)
  <2>1. Scan(s, c) = [s EXCEPT !.cells[Len(s.cells)] = Append(@, c), !.escape = FALSE]
    BY <1>5 DEF Scan
  <2> QED
    BY <1>1, <1>5, <2>1 DEF Typed
<1> QED
  BY <1>2, <1>3, <1>4, <1>5

LEMMA ScanType ==
  ASSUME NEW T, NEW s \in Scans(T), NEW c \in T
  PROVE  Scan(s, c) \in Scans(T)
<1>1. s.cells \in Parts(T) /\ s.quoted \in BOOLEAN /\ s.escape \in BOOLEAN
  BY DEF Scans
<1>2. Typed(s.cells, c) \in Parts(T) /\ Append(s.cells, <<>>) \in Parts(T)
  BY <1>1, TypedParts
<1>3. \A cs \in Parts(T), a \in BOOLEAN, b \in BOOLEAN : [cells |-> cs, quoted |-> a, escape |-> b] \in Scans(T)
  BY DEF Scans
<1>4. (~s.quoted) \in BOOLEAN
  OBVIOUS
<1>5. CASE c = "q" /\ s.escape
  BY <1>2, <1>3, <1>5, ScanSteps
<1>6. CASE c = "q" /\ ~s.escape
  <2>1. Scan(s, c) = [cells |-> s.cells, quoted |-> ~s.quoted, escape |-> s.quoted]
    BY <1>6, ScanSteps
  <2> QED
    BY <1>1, <1>3, <1>4, <2>1
<1>7. CASE c = "comma" /\ ~s.quoted
  BY <1>2, <1>3, <1>7, ScanSteps
<1>8. CASE c # "q" /\ ~(c = "comma" /\ ~s.quoted)
  <2>1. Scan(s, c) = [cells |-> Typed(s.cells, c), quoted |-> s.quoted, escape |-> FALSE]
    BY <1>8, ScanSteps
  <2> QED
    BY <1>1, <1>2, <1>3, <2>1
<1> QED
  BY <1>5, <1>6, <1>7, <1>8

ScannedSteps(line, D) == [n \in 1 .. Len(line) |-> [q \in D |-> Scan(q, line[n])]]

LEMMA ScannedFold ==
  ASSUME NEW T, NEW line \in Seq(T)
  PROVE  \E g : Folds(g, Len(line), Start, ScannedSteps(line, Scans(T)), Scans(T)) /\ Scanned(line) = g[Len(line)]
<1> DEFINE D == Scans(T)
           m == Len(line)
           F == ScannedSteps(line, D)
           Is(g) == g = [n \in 0 .. Len(line) |-> IF n = 0 THEN Start ELSE Scan(g[n - 1], line[n])]
           K == CHOOSE g : Is(g)
<1>0. \A q \in D, e \in T : (Scan(q, e)) \in D
  BY ScanType
<1>1. m \in Nat /\ Start \in D
  BY DEF Start, Scans, Parts
<1>2. \A n \in 1 .. m : line[n] \in T
  OBVIOUS
<1> HIDE DEF D, m
<1>3. F = [n \in 1 .. m |-> [q \in D |-> Scan(q, line[n])]]
  BY DEF ScannedSteps, m
<1> HIDE DEF F
<1>4. \A n \in 1 .. m, q \in D : F[n][q] = Scan(q, line[n])
  BY <1>3
<1>5. F \in [1 .. m -> [D -> D]]
  <2>1. \A n \in 1 .. m : n \in Nat
    OBVIOUS
  <2>2. \A n \in 1 .. m, q \in D : (Scan(q, line[n])) \in D
    BY <1>0, <1>2, <2>1
  <2> QED
    BY <1>3, <2>2
<1>6. PICK g : Folds(g, m, Start, F, D)
  BY <1>1, <1>5, FoldExists
<1>7. Is(g)
  <2>1. g \in [0 .. m -> D] /\ g[0] = Start /\ \A n \in 1 .. m : g[n] = F[n][g[n - 1]]
    BY <1>6 DEF Folds
  <2>2. \A n \in 0 .. m : g[n] = IF n = 0 THEN Start ELSE Scan(g[n - 1], line[n])
    <3> TAKE n \in 0 .. m
    <3>1. CASE n = 0
      BY <2>1, <3>1
    <3>2. CASE n # 0
      <4>0. n \in 1 .. m /\ n - 1 \in 0 .. m
        BY <1>1, <3>2
      <4>1. n \in 1 .. m /\ g[n - 1] \in D
        BY <2>1, <4>0
      <4> QED
        BY <1>4, <2>1, <3>2, <4>1
    <3> QED
      BY <3>1, <3>2
  <2> QED
    BY <2>1, <2>2 DEF m
<1>8. Is(K)
  <2> HIDE DEF Is
  <2> QED
    BY <1>7
<1>9. Scanned(line) = K[m]
  BY DEF Scanned, m
<1> HIDE DEF K
<1>10. K = [n \in 0 .. m |-> K[n]] /\ K[0] = Start
  BY <1>1, <1>8 DEF m
<1>11. \A n \in 1 .. m : K[n - 1] \in D => K[n] = F[n][K[n - 1]]
  <2> SUFFICES ASSUME NEW n \in 1 .. m, K[n - 1] \in D PROVE K[n] = F[n][K[n - 1]]
    OBVIOUS
  <2>1. n \in 0 .. m /\ n # 0
    BY <1>1
  <2>2. K[n] = Scan(K[n - 1], line[n])
    BY <1>8, <2>1 DEF m
  <2> QED
    BY <1>4, <2>2
<1>12. Folds(K, m, Start, F, D)
  BY <1>1, <1>5, <1>10, <1>11, FoldIs
<1> QED
  BY <1>9, <1>12 DEF F, D, m

LEMMA ScannedType ==
  ASSUME NEW T, NEW line \in Seq(T)
  PROVE  Scanned(line) \in Scans(T)
<1>1. PICK g : Folds(g, Len(line), Start, ScannedSteps(line, Scans(T)), Scans(T)) /\ Scanned(line) = g[Len(line)]
  BY ScannedFold
<1>2. Len(line) \in 0 .. Len(line)
  OBVIOUS
<1>3. g \in [0 .. Len(line) -> Scans(T)]
  BY <1>1 DEF Folds
<1> QED
  BY <1>1, <1>2, <1>3

LEMMA ScannedAppend ==
  ASSUME NEW T, NEW line \in Seq(T), NEW e \in T
  PROVE  /\ Scanned(line) \in Scans(T)
         /\ Scanned(Append(line, e)) = Scan(Scanned(line), e)
<1> DEFINE t == Append(line, e)
           D == Scans(T)
           m == Len(line)
           F == ScannedSteps(line, D)
           G == ScannedSteps(t, D)
<1>1. t \in Seq(T) /\ Len(t) = m + 1 /\ m \in Nat /\ t[m + 1] = e /\ \A n \in 1 .. m : t[n] = line[n]
  OBVIOUS
<1>2. Start \in D
  BY DEF Start, Scans, Parts
<1> HIDE DEF t, D
<1>3. PICK g : Folds(g, m, Start, F, D) /\ Scanned(line) = g[m]
  BY ScannedFold DEF D
<1>4. PICK h : Folds(h, m + 1, Start, G, D) /\ Scanned(t) = h[m + 1]
  <2>1. \E h : Folds(h, Len(t), Start, G, D) /\ Scanned(t) = h[Len(t)]
    BY <1>1, ScannedFold DEF D
  <2> QED
    BY <1>1, <2>1
<1> HIDE DEF m
<1>5. \A n \in 1 .. m : F[n] = G[n]
  <2> TAKE n \in 1 .. m
  <2>1. n \in 1 .. Len(t) /\ n \in 1 .. Len(line) /\ line[n] = t[n]
    BY <1>1 DEF m
  <2> QED
    BY <2>1 DEF ScannedSteps
<1>6. \A q \in D : G[m + 1][q] = Scan(q, e)
  BY <1>1 DEF ScannedSteps
<1> HIDE DEF F, G
<1>7. h[m + 1] = G[m + 1][g[m]] /\ g[m] \in D
  <2>1. m \in Nat
    BY <1>1
  <2> QED
    BY <1>2, <1>3, <1>4, <1>5, <2>1, FoldNext
<1> QED
  BY <1>3, <1>4, <1>6, <1>7 DEF t, D

LEMMA ScannedEmpty == Scanned(<<>>) = Start
<1>1. <<>> \in Seq({}) /\ Len(<<>>) = 0
  OBVIOUS
<1>2. PICK g : Folds(g, Len(<<>>), Start, ScannedSteps(<<>>, Scans({})), Scans({})) /\ Scanned(<<>>) = g[Len(<<>>)]
  BY <1>1, ScannedFold
<1> QED
  BY <1>1, <1>2 DEF Folds

-----------------------------------------------------------------------------
(* Trimming, and lists without their empty texts.                           *)

LEMMA Greatest ==
  ASSUME NEW T, T \subseteq Nat, T # {}, NEW m \in Nat, \A y \in T : y <= m
  PROVE  \E x \in T : \A y \in T : y <= x
<1> DEFINE U == {k \in Nat : \A y \in T : y <= k}
<1>1. U \subseteq Nat /\ U # {}
  OBVIOUS
<1>2. PICK x \in U : \A y \in U : x <= y
  <2> HIDE DEF U
  <2> QED
    BY <1>1, Least
<1>3. x \in T
  <2> SUFFICES ASSUME x \notin T PROVE FALSE
    OBVIOUS
  <2>1. \A y \in T : y <= x /\ y # x
    BY <1>2
  <2>2. x # 0
    <3>1. PICK y \in T : TRUE
      OBVIOUS
    <3>2. y \in Nat /\ x \in Nat /\ y <= x /\ y # x
      BY <2>1
    <3> QED
      BY <3>2
  <2>3. x - 1 \in U
    BY <2>1, <2>2, <1>2
  <2> QED
    BY <1>2, <2>3
<1> QED
  BY <1>2, <1>3

Blanks == {"sp", "nl"}
\* A text Trim leaves as it is.
Trimmed == {t \in Text : t # <<>> => t[1] \notin Blanks /\ t[Len(t)] \notin Blanks}
\* A trimmed text with something in it: an address, a tag.
Words == Trimmed \ {<<>>}

\* What Trim cuts out of a text: all of it, or what lies between two characters
\* that are no blanks.
LEMMA TrimCut ==
  ASSUME NEW t \in Text
  PROVE  \/ Trim(t) = <<>> /\ \A i \in 1 .. Len(t) : t[i] \in Blanks
         \/ \E a, b \in 1 .. Len(t) :
              /\ a <= b /\ t[a] \notin Blanks /\ t[b] \notin Blanks /\ Trim(t) = SubSeq(t, a, b)
              /\ \A i \in 1 .. Len(t) : t[i] \notin Blanks => a <= i /\ i <= b
<1> DEFINE kept == {i \in DOMAIN t : t[i] \notin Blanks}
<1>1. Len(t) \in Nat /\ DOMAIN t = 1 .. Len(t)
  BY DEF Text
<1>2. kept \subseteq Nat /\ \A i \in kept : i <= Len(t)
  BY <1>1
<1>3. Trim(t) = IF kept = {} THEN <<>> ELSE SubSeq(t, Min(kept), Max(kept))
  BY DEF Trim, Blanks
<1>4. CASE kept = {}
  BY <1>1, <1>3, <1>4
<1>5. CASE kept # {}
  <2>1. PICK a \in kept : \A y \in kept : a <= y
    <3> HIDE DEF kept
    <3> QED
      BY <1>2, <1>5, Least
  <2>2. PICK b \in kept : \A y \in kept : y <= b
    <3> HIDE DEF kept
    <3> QED
      BY <1>1, <1>2, <1>5, Greatest
  <2>3. Min(kept) = a /\ Max(kept) = b
    <3> HIDE DEF kept
    <3>1. \A x \in kept : (\A y \in kept : x <= y) => x = a
      BY <1>2, <2>1
    <3>2. \A x \in kept : (\A y \in kept : x >= y) => x = b
      BY <1>2, <2>2
    <3>3. \A y \in kept : b >= y
      BY <1>2, <2>2
    <3>4. Min(kept) = a
      BY <2>1, <3>1 DEF Min
    <3>5. Max(kept) = b
      BY <3>2, <3>3 DEF Max
    <3> QED
      BY <3>4, <3>5
  <2>4. a <= b /\ a \in 1 .. Len(t) /\ b \in 1 .. Len(t) /\ t[a] \notin Blanks /\ t[b] \notin Blanks
    BY <1>1, <2>1, <2>2
  <2>5. \A i \in 1 .. Len(t) : t[i] \notin Blanks => a <= i /\ i <= b
    BY <1>1, <2>1, <2>2
  <2>6. Trim(t) = SubSeq(t, a, b)
    BY <1>3, <1>5, <2>3
  <2> QED
    BY <2>4, <2>5, <2>6
<1> QED
  BY <1>4, <1>5

LEMMA TrimTrims ==
  ASSUME NEW t \in Text
  PROVE  Trim(t) \in Trimmed
<1>1. CASE Trim(t) = <<>>
  BY <1>1 DEF Trimmed, Text
<1>2. CASE Trim(t) # <<>>
  <2>1. PICK a, b \in 1 .. Len(t) : a <= b /\ t[a] \notin Blanks /\ t[b] \notin Blanks /\ Trim(t) = SubSeq(t, a, b)
    BY <1>2, TrimCut
  <2> DEFINE u == SubSeq(t, a, b)
  <2>2. u \in Seq(Chars) /\ Len(u) = b - a + 1 /\ \A i \in 1 .. b - a + 1 : u[i] = t[a + i - 1]
    BY <2>1, SubSeqProperties DEF Text
  <2>3. 1 \in 1 .. b - a + 1 /\ b - a + 1 \in 1 .. b - a + 1 /\ a + 1 - 1 = a /\ a + (b - a + 1) - 1 = b
    BY <2>1
  <2>4. u[1] = t[a] /\ u[Len(u)] = t[b]
    BY <2>2, <2>3
  <2> HIDE DEF u
  <2> QED
    BY <2>1, <2>2, <2>4 DEF Trimmed, Text, u
<1> QED
  BY <1>1, <1>2

\* Trim adds no character.
LEMMA TrimWithin ==
  ASSUME NEW t \in Text, NEW U, t \in Seq(U)
  PROVE  Trim(t) \in Seq(U)
<1>1. CASE Trim(t) = <<>>
  BY <1>1
<1>2. CASE Trim(t) # <<>>
  <2>1. PICK a, b \in 1 .. Len(t) : a <= b /\ Trim(t) = SubSeq(t, a, b)
    BY <1>2, TrimCut
  <2> QED
    BY <2>1, SubSeqProperties
<1> QED
  BY <1>1, <1>2

LEMMA TrimKeeps ==
  ASSUME NEW t \in Trimmed
  PROVE  Trim(t) = t /\ t \in Text
<1>0. t \in Text
  BY DEF Trimmed
<1>1. CASE t = <<>>
  <2>1. \A a \in 1 .. Len(t) : FALSE
    BY <1>1
  <2> QED
    BY <1>0, <1>1, <2>1, TrimCut
<1>2. CASE t # <<>>
  <2>1. t[1] \notin Blanks /\ t[Len(t)] \notin Blanks
    BY <1>2 DEF Trimmed
  <2>2. Len(t) \in Nat \ {0}
    BY <1>0, <1>2, EmptySeq DEF Text
  <2>3. 1 \in 1 .. Len(t) /\ Len(t) \in 1 .. Len(t)
    BY <2>2
  <2>4. PICK a, b \in 1 .. Len(t) : Trim(t) = SubSeq(t, a, b) /\ \A i \in 1 .. Len(t) : t[i] \notin Blanks => a <= i /\ i <= b
    BY <1>0, <2>1, <2>3, TrimCut
  <2>5. a = 1 /\ b = Len(t)
    BY <2>1, <2>2, <2>3, <2>4
  <2>6. SubSeq(t, 1, Len(t)) = t
    BY <1>0, SubSeqFull DEF Text
  <2> QED
    BY <1>0, <2>4, <2>5, <2>6
<1> QED
  BY <1>1, <1>2

LEMMA TrimAllTrims ==
  ASSUME NEW ts \in Seq(Text)
  PROVE  TrimAll(ts) \in Seq(Trimmed)
<1>1. Len(ts) \in Nat /\ DOMAIN ts = 1 .. Len(ts) /\ \A i \in 1 .. Len(ts) : ts[i] \in Text
  OBVIOUS
<1>2. \A i \in 1 .. Len(ts) : Trim(ts[i]) \in Trimmed
  BY <1>1, TrimTrims
<1>3. TrimAll(ts) = [i \in 1 .. Len(ts) |-> Trim(ts[i])]
  BY <1>1 DEF TrimAll
<1>4. TrimAll(ts) \in [1 .. Len(ts) -> Trimmed]
  BY <1>2, <1>3
<1> QED
  BY <1>1, <1>4, SeqDef

\* What holds of the members of a sequence holds of those that are left.
LEMMA WithoutLeaves ==
  ASSUME NEW T, NEW S, NEW s \in Seq(T)
  PROVE  Without(s, S) \in Seq(T \ S)
<1> DEFINE P == {r \in Seq(T) : Without(r, S) \in Seq(T \ S)}
<1>1. <<>> \in P
  <2>1. <<>> \in Seq(T) /\ <<>> \in Seq(T \ S)
    BY EmptySeq
  <2> QED
    BY <2>1, WithoutEmpty
<1>2. ASSUME NEW r \in Seq(T), NEW x \in T, r \in P PROVE Append(r, x) \in P
  <2> DEFINE w == Without(r, S)
             rest == T \ S
             all == Append(r, x)
  <2>1. Without(all, S) = IF x \in S THEN w ELSE Append(w, x)
    BY WithoutAppend
  <2>2. w \in Seq(rest) /\ all \in Seq(T) /\ (x \notin S => x \in rest)
    BY <1>2
  <2> HIDE DEF w, all, rest
  <2>3. Without(all, S) \in Seq(rest)
    BY <2>1, <2>2
  <2> QED
    BY <2>2, <2>3 DEF all, rest
<1> HIDE DEF P
<1>3. Seq(T) \subseteq P
  BY <1>1, <1>2, SeqInduct
<1> QED
  BY <1>3 DEF P

LEMMA WithoutNone ==
  ASSUME NEW T, NEW S, NEW s \in Seq(T), T \cap S = {}
  PROVE  Without(s, S) = s
<1> DEFINE P == {r \in Seq(T) : Without(r, S) = r}
<1>1. <<>> \in P
  BY WithoutEmpty
<1>2. ASSUME NEW r \in Seq(T), NEW x \in T, r \in P PROVE Append(r, x) \in P
  <2>1. Without(Append(r, x), S) = IF x \in S THEN Without(r, S) ELSE Append(Without(r, S), x)
    BY WithoutAppend
  <2> QED
    BY <1>2, <2>1
<1> HIDE DEF P
<1>3. Seq(T) \subseteq P
  BY <1>1, <1>2, SeqInduct
<1> QED
  BY <1>3 DEF P

\* Addresses and tags: trimmed, and the empty ones left out.
LEMMA Cleaned ==
  ASSUME NEW ts \in Seq(Text)
  PROVE  NotEmpty(TrimAll(ts)) \in Seq(Words)
BY TrimAllTrims, WithoutLeaves DEF NotEmpty, Words

LEMMA CleanStays ==
  ASSUME NEW ts \in Seq(Words)
  PROVE  NotEmpty(TrimAll(ts)) = ts /\ ts \in Seq(Text)
<1>1. Len(ts) \in Nat /\ DOMAIN ts = 1 .. Len(ts) /\ \A i \in 1 .. Len(ts) : ts[i] \in Words
  OBVIOUS
<1>2. \A i \in 1 .. Len(ts) : Trim(ts[i]) = ts[i]
  BY <1>1, TrimKeeps DEF Words
<1>3. TrimAll(ts) = [i \in 1 .. Len(ts) |-> ts[i]]
  BY <1>1, <1>2 DEF TrimAll
<1>4. TrimAll(ts) = ts
  BY <1>1, <1>3
<1>5. Words \cap {<<>>} = {} /\ Words \subseteq Text
  BY DEF Words, Trimmed
<1>6. NotEmpty(ts) = ts
  BY <1>5, WithoutNone DEF NotEmpty
<1>7. ts \in Seq(Text)
  BY <1>5, SeqMonotonic
<1> QED
  BY <1>4, <1>6, <1>7

LEMMA WithoutOf ==
  ASSUME NEW T, NEW S, NEW s \in Seq(T)
  PROVE  ToSet(s) \subseteq T /\ Without(s, S) \in Seq(ToSet(s) \ S)
<1>1. Len(s) \in Nat /\ DOMAIN s = 1 .. Len(s) /\ s \in [1 .. Len(s) -> T]
  BY LenProperties
<1>2. ToSet(s) \subseteq T /\ \A i \in 1 .. Len(s) : s[i] \in ToSet(s)
  BY <1>1 DEF ToSet
<1>3. s \in [1 .. Len(s) -> ToSet(s)]
  BY <1>1, <1>2
<1>4. s \in Seq(ToSet(s))
  BY <1>1, <1>3, SeqDef
<1> QED
  BY <1>2, <1>4, WithoutLeaves

\* A sequence is left as a set of equal effect leaves it.
LEMMA WithoutAlike ==
  ASSUME NEW T, NEW S, NEW U, NEW s \in Seq(T), \A x \in T : x \in S <=> x \in U
  PROVE  Without(s, S) = Without(s, U)
<1> DEFINE P == {r \in Seq(T) : Without(r, S) = Without(r, U)}
<1>1. <<>> \in P
  BY WithoutEmpty
<1>2. ASSUME NEW r \in Seq(T), NEW x \in T, r \in P PROVE Append(r, x) \in P
  <2>1. Without(Append(r, x), S) = IF x \in S THEN Without(r, S) ELSE Append(Without(r, S), x)
    BY WithoutAppend
  <2>2. Without(Append(r, x), U) = IF x \in U THEN Without(r, U) ELSE Append(Without(r, U), x)
    BY WithoutAppend
  <2> QED
    BY <1>2, <2>1, <2>2
<1> HIDE DEF P
<1>3. Seq(T) \subseteq P
  BY <1>1, <1>2, SeqInduct
<1> QED
  BY <1>3 DEF P

LEMMA ListedSeq ==
  ASSUME NEW T, NEW n \in Nat, NEW f \in [1 .. n -> T]
  PROVE  f \in Seq(T) /\ Len(f) = n
<1>1. f \in Seq(T)
  BY SeqDef
<1> QED
  BY <1>1, LenProperties

\* Cleaning adds no character either.
LEMMA CleanedWithin ==
  ASSUME NEW ts \in Seq(Text), NEW U, ts \in Seq(Seq(U))
  PROVE  NotEmpty(TrimAll(ts)) \in Seq(Words \cap Seq(U))
<1>1. Len(ts) \in Nat /\ DOMAIN ts = 1 .. Len(ts)
  OBVIOUS
<1>2. \A i \in 1 .. Len(ts) : ts[i] \in Text /\ ts[i] \in Seq(U)
  <2> TAKE i \in 1 .. Len(ts)
  <2> DEFINE D == Seq(U)
  <2>1. ts \in Seq(D)
    OBVIOUS
  <2> HIDE DEF D
  <2>2. ts[i] \in D
    BY <2>1, ElementOfSeq
  <2> QED
    BY <2>2, ElementOfSeq DEF D
<1>3. \A i \in 1 .. Len(ts) : Trim(ts[i]) \in Trimmed \cap Seq(U)
  BY <1>2, TrimTrims, TrimWithin
<1>4. TrimAll(ts) = [i \in 1 .. Len(ts) |-> Trim(ts[i])]
  BY <1>1 DEF TrimAll
<1>5. TrimAll(ts) \in [1 .. Len(ts) -> Trimmed \cap Seq(U)]
  BY <1>3, <1>4
<1>6. TrimAll(ts) \in Seq(Trimmed \cap Seq(U))
  <2> DEFINE D == Trimmed \cap Seq(U)
  <2> HIDE DEF D
  <2>1. TrimAll(ts) \in [1 .. Len(ts) -> D]
    BY <1>5 DEF D
  <2>2. TrimAll(ts) \in Seq(D)
    BY <1>1, <2>1, ListedSeq
  <2> QED
    BY <2>2 DEF D
<1>7. NotEmpty(TrimAll(ts)) \in Seq((Trimmed \cap Seq(U)) \ {<<>>})
  BY <1>6, WithoutLeaves DEF NotEmpty
<1>8. (Trimmed \cap Seq(U)) \ {<<>>} = Words \cap Seq(U)
  BY DEF Words
<1> QED
  BY <1>7, <1>8

-----------------------------------------------------------------------------
(* Tags.                                                                    *)

Unrepeated(s) == \A i, j \in DOMAIN s : s[i] = s[j] => i = j
TagLists == {ts \in Seq(Words) : Unrepeated(ts)}

LEMMA AddTagKeeps ==
  ASSUME NEW ts \in TagLists, NEW e \in Words
  PROVE  AddTag(ts, e) \in TagLists
<1>1. ts \in Seq(Words) /\ Unrepeated(ts)
  BY DEF TagLists
<1>2. CASE Contains(ts, e)
  BY <1>2 DEF AddTag
<1>3. CASE ~Contains(ts, e)
  <2>1. \A i \in 1 .. Len(ts) : ts[i] # e
    BY <1>3 DEF Contains
  <2> DEFINE u == Append(ts, e)
  <2>2. u \in Seq(Words) /\ Len(ts) \in Nat /\ Len(u) = Len(ts) + 1 /\ u[Len(ts) + 1] = e
        /\ DOMAIN u = 1 .. Len(ts) + 1 /\ DOMAIN ts = 1 .. Len(ts) /\ \A i \in 1 .. Len(ts) : u[i] = ts[i]
    BY <1>1, AppendProperties
  <2> HIDE DEF u
  <2>3. Unrepeated(u)
    <3> SUFFICES ASSUME NEW i \in 1 .. Len(ts) + 1, NEW j \in 1 .. Len(ts) + 1, u[i] = u[j] PROVE i = j
      BY <2>2 DEF Unrepeated
    <3>1. CASE i \in 1 .. Len(ts) /\ j \in 1 .. Len(ts)
      BY <1>1, <2>2, <3>1 DEF Unrepeated
    <3>2. CASE i \in 1 .. Len(ts) /\ j = Len(ts) + 1
      BY <2>1, <2>2, <3>2
    <3>3. CASE i = Len(ts) + 1 /\ j \in 1 .. Len(ts)
      BY <2>1, <2>2, <3>3
    <3>4. CASE i = Len(ts) + 1 /\ j = Len(ts) + 1
      BY <3>4
    <3> QED
      BY <2>2, <3>1, <3>2, <3>3, <3>4
  <2>4. e # <<>>
    BY DEF Words
  <2> QED
    BY <1>3, <2>2, <2>3, <2>4 DEF AddTag, TagLists, u
<1> QED
  BY <1>2, <1>3

LEMMA EmptyTagList == <<>> \in TagLists
<1>1. <<>> \in Seq(Words) /\ DOMAIN <<>> = {}
  OBVIOUS
<1> QED
  BY <1>1 DEF TagLists, Unrepeated

LEMMA DistinctTags ==
  ASSUME NEW ts \in Seq(Words)
  PROVE  Distinct(ts) \in TagLists
<1> DEFINE P == {r \in Seq(Words) : Distinct(r) \in TagLists}
<1>1. <<>> \in P
  BY DistinctEmpty, EmptyTagList DEF TagLists
<1>2. ASSUME NEW r \in Seq(Words), NEW x \in Words, r \in P PROVE Append(r, x) \in P
  <2>1. Distinct(Append(r, x)) = AddTag(Distinct(r), x)
    BY DistinctAppend
  <2> QED
    BY <1>2, <2>1, AddTagKeeps
<1> HIDE DEF P
<1>3. Seq(Words) \subseteq P
  BY <1>1, <1>2, SeqInduct
<1> QED
  BY <1>3 DEF P

LEMMA DistinctStays ==
  ASSUME NEW ts \in TagLists
  PROVE  Distinct(ts) = ts
<1> DEFINE P == {r \in Seq(Words) : Unrepeated(r) => Distinct(r) = r}
<1>1. <<>> \in P
  BY DistinctEmpty, EmptyTagList DEF TagLists
<1>2. ASSUME NEW r \in Seq(Words), NEW x \in Words, r \in P PROVE Append(r, x) \in P
  <2> DEFINE u == Append(r, x)
  <2>1. Distinct(u) = AddTag(Distinct(r), x)
    BY DistinctAppend
  <2>2. u \in Seq(Words) /\ Len(r) \in Nat /\ DOMAIN u = 1 .. Len(r) + 1 /\ DOMAIN r = 1 .. Len(r)
        /\ u[Len(r) + 1] = x /\ \A i \in 1 .. Len(r) : u[i] = r[i]
    BY AppendProperties
  <2> HIDE DEF u
  <2> SUFFICES ASSUME Unrepeated(u) PROVE Distinct(u) = u
    BY <2>2 DEF u
  <2>3. Unrepeated(r)
    BY <2>2 DEF Unrepeated
  <2>4. ~Contains(r, x)
    <3> SUFFICES ASSUME NEW i \in 1 .. Len(r), r[i] = x PROVE FALSE
      BY DEF Contains
    <3>1. i \in DOMAIN u /\ Len(r) + 1 \in DOMAIN u /\ u[i] = u[Len(r) + 1] /\ i # Len(r) + 1
      BY <2>2
    <3> QED
      BY <3>1 DEF Unrepeated
  <2>5. x # <<>>
    BY DEF Words
  <2> QED
    BY <1>2, <2>1, <2>3, <2>4, <2>5 DEF AddTag, u
<1> HIDE DEF P
<1>3. Seq(Words) \subseteq P
  BY <1>1, <1>2, SeqInduct
<1> QED
  BY <1>3 DEF P, TagLists

LEMMA MergedTags ==
  ASSUME NEW a \in Seq(Words), NEW b \in Seq(Words)
  PROVE  MergeTags(a, b) \in TagLists
BY DistinctTags, ConcatProperties DEF MergeTags

LEMMA MergedWithin ==
  ASSUME NEW T, NEW a \in Seq(T), NEW b \in Seq(T)
  PROVE  MergeTags(a, b) \in Seq(T)
BY DistinctType, ConcatProperties DEF MergeTags

LEMMA MergedWithNone ==
  ASSUME NEW a \in TagLists
  PROVE  MergeTags(a, <<>>) = a
<1>1. a \in Seq(Words)
  BY DEF TagLists
<1>2. a \o <<>> = a
  BY <1>1, ConcatEmptySeq
<1> QED
  BY <1>2, DistinctStays DEF MergeTags

\* The tags a form takes have no comma.
Tags == Words \cap Seq(Chars \ {"comma"})

LEMMA ParsedTags ==
  ASSUME NEW t \in Text
  PROVE  ParseTagsInput(t) \in Seq(Tags) /\ ParseTagsInput(t) \in Seq(Words)
<1>1. Split(t, {"comma"}) \in Seq(Seq(Chars \ {"comma"}))
  BY SplitType DEF Text, Parts
<1>2. Seq(Chars \ {"comma"}) \subseteq Text
  BY SeqMonotonic DEF Text
<1>3. Split(t, {"comma"}) \in Seq(Text)
  BY <1>1, <1>2, SeqMonotonic
<1>4. ParseTagsInput(t) \in Seq(Tags)
  BY <1>1, <1>3, CleanedWithin DEF ParseTagsInput, Tags
<1>5. Tags \subseteq Words
  BY DEF Tags
<1> QED
  BY <1>4, <1>5, SeqMonotonic

LEMMA NoTagsParsed == ParseTagsInput(<<>>) = <<>>
<1> DEFINE none == << <<>> >>
<1>1. Split(<<>>, {"comma"}) = none
  BY SplitEmpty
<1>2. <<>> \in Trimmed
  BY DEF Trimmed, Text
<1>3. TrimAll(none) = none
  BY <1>2, TrimKeeps DEF TrimAll
<1>4. none = Append(<<>>, <<>>) /\ <<>> \in Seq({<<>>})
  OBVIOUS
<1>5. Without(none, {<<>>}) = <<>>
  <2>1. Without(Append(<<>>, <<>>), {<<>>}) = Without(<<>>, {<<>>})
    BY <1>4, WithoutAppend
  <2> QED
    BY <1>4, <2>1, WithoutEmpty
<1> QED
  BY <1>1, <1>3, <1>5 DEF ParseTagsInput, NotEmpty

LEMMA MergedFromNone ==
  ASSUME NEW a \in TagLists
  PROVE  MergeTags(<<>>, a) = a
<1>1. a \in Seq(Words)
  BY DEF TagLists
<1>2. <<>> \o a = a
  BY <1>1, ConcatEmptySeq
<1> QED
  BY <1>2, DistinctStays DEF MergeTags

-----------------------------------------------------------------------------
(* What the form makes, and what an item brings back.                       *)

OneLine == Seq(Chars \ {"nl"})
\* The rows of the form: an input of one line holds no line break, and rows
\* that have no label of their own have the same one.
FormSlots == {r \in SlotRow : /\ r.type \notin Lines => r.value \in OneLine
                              /\ r.type \notin Labelled => r.label = DefaultLabel}

LEMMA Labels == DefaultLabel \in Words /\ <<"t">> \in Words /\ DefaultLabel \in Text
<1>1. \A c \in Chars : c \notin Blanks => <<c>> \in Words
  BY DEF Words, Trimmed, Text
<1>2. "L" \in Chars /\ "t" \in Chars
  BY ImportExportAssumption
<1>3. "L" \notin Blanks /\ "t" \notin Blanks
  BY DEF Blanks
<1>4. Words \subseteq Text
  BY DEF Words, Trimmed
<1> QED
  BY <1>1, <1>2, <1>3, <1>4 DEF DefaultLabel

\* A row as the form shows it.
Readied(s) == [s EXCEPT !.label = IF s.type \in Labelled THEN OrElse(@, DefaultLabel) ELSE DefaultLabel,
                        !.value = IF s.type \in Lines THEN @ ELSE Without(@, {"nl"})]

LEMMA ReadiedType ==
  ASSUME NEW e \in SlotRow
  PROVE  Readied(e) \in FormSlots
<1>1. e.type \in SlotTypes /\ e.label \in Text /\ e.value \in Text
  BY DEF SlotRow
<1>2. Without(e.value, {"nl"}) \in OneLine /\ Without(e.value, {"nl"}) \in Text
  BY <1>1, WithoutLeaves, WithoutType DEF Text, OneLine
<1>3. OrElse(e.label, DefaultLabel) \in Text
  BY <1>1, Labels DEF OrElse
<1> DEFINE lab == IF e.type \in Labelled THEN OrElse(e.label, DefaultLabel) ELSE DefaultLabel
           val == IF e.type \in Lines THEN e.value ELSE Without(e.value, {"nl"})
<1>4. Readied(e) = [type |-> e.type, label |-> lab, value |-> val]
  <2>1. e = [type |-> e.type, label |-> e.label, value |-> e.value]
    BY DEF SlotRow
  <2>2. Readied(e) = [e EXCEPT !.label = lab, !.value = val]
    BY DEF Readied
  <2> HIDE DEF lab, val
  <2> QED
    BY <2>1, <2>2
<1>5. lab \in Text /\ val \in Text /\ (e.type \notin Lines => val \in OneLine)
      /\ (e.type \notin Labelled => lab = DefaultLabel)
  BY <1>1, <1>2, <1>3, Labels
<1> HIDE DEF lab, val
<1> QED
  BY <1>1, <1>4, <1>5 DEF FormSlots, SlotRow

LEMMA AddedSlot ==
  ASSUME NEW q, NEW e
  PROVE  AddExtraSlot(q, e) = IF e.type \in Singletons /\ \E i \in DOMAIN q : q[i].type = e.type THEN q
                              ELSE Append(q, Readied(e))
BY DEF AddExtraSlot, Readied

LEMMA AddExtraSlotType ==
  ASSUME NEW q \in Seq(FormSlots), NEW e \in SlotRow
  PROVE  AddExtraSlot(q, e) \in Seq(FormSlots)
BY AddedSlot, ReadiedType

AddAllSteps(list, D) == [n \in 1 .. Len(list) |-> [q \in D |-> AddExtraSlot(q, list[n])]]

LEMMA AddAllFold ==
  ASSUME NEW list \in Seq(SlotRow)
  PROVE  \E g : Folds(g, Len(list), <<>>, AddAllSteps(list, Seq(FormSlots)), Seq(FormSlots)) /\ AddAll(list) = g[Len(list)]
<1> DEFINE D == Seq(FormSlots)
           m == Len(list)
           F == AddAllSteps(list, D)
           Is(g) == g = [n \in 0 .. Len(list) |-> IF n = 0 THEN <<>> ELSE AddExtraSlot(g[n - 1], list[n])]
           K == CHOOSE g : Is(g)
<1>0. \A q \in D, e \in SlotRow : (AddExtraSlot(q, e)) \in D
  BY AddExtraSlotType
<1>1. m \in Nat /\ <<>> \in D
  OBVIOUS
<1>2. \A n \in 1 .. m : list[n] \in SlotRow
  OBVIOUS
<1> HIDE DEF D, m
<1>3. F = [n \in 1 .. m |-> [q \in D |-> AddExtraSlot(q, list[n])]]
  BY DEF AddAllSteps, m
<1> HIDE DEF F
<1>4. \A n \in 1 .. m, q \in D : F[n][q] = AddExtraSlot(q, list[n])
  BY <1>3
<1>5. F \in [1 .. m -> [D -> D]]
  <2>1. \A n \in 1 .. m : n \in Nat
    OBVIOUS
  <2>2. \A n \in 1 .. m, q \in D : (AddExtraSlot(q, list[n])) \in D
    BY <1>0, <1>2, <2>1
  <2> QED
    BY <1>3, <2>2
<1>6. PICK g : Folds(g, m, <<>>, F, D)
  BY <1>1, <1>5, FoldExists
<1>7. Is(g)
  <2>1. g \in [0 .. m -> D] /\ g[0] = <<>> /\ \A n \in 1 .. m : g[n] = F[n][g[n - 1]]
    BY <1>6 DEF Folds
  <2>2. \A n \in 0 .. m : g[n] = IF n = 0 THEN <<>> ELSE AddExtraSlot(g[n - 1], list[n])
    <3> TAKE n \in 0 .. m
    <3>1. CASE n = 0
      BY <2>1, <3>1
    <3>2. CASE n # 0
      <4>0. n \in 1 .. m /\ n - 1 \in 0 .. m
        BY <1>1, <3>2
      <4>1. n \in 1 .. m /\ g[n - 1] \in D
        BY <2>1, <4>0
      <4> QED
        BY <1>4, <2>1, <3>2, <4>1
    <3> QED
      BY <3>1, <3>2
  <2> QED
    BY <2>1, <2>2 DEF m
<1>8. Is(K)
  <2> HIDE DEF Is
  <2> QED
    BY <1>7
<1>9. AddAll(list) = K[m]
  BY DEF AddAll, m
<1> HIDE DEF K
<1>10. K = [n \in 0 .. m |-> K[n]] /\ K[0] = <<>>
  BY <1>1, <1>8 DEF m
<1>11. \A n \in 1 .. m : K[n - 1] \in D => K[n] = F[n][K[n - 1]]
  <2> SUFFICES ASSUME NEW n \in 1 .. m, K[n - 1] \in D PROVE K[n] = F[n][K[n - 1]]
    OBVIOUS
  <2>1. n \in 0 .. m /\ n # 0
    BY <1>1
  <2>2. K[n] = AddExtraSlot(K[n - 1], list[n])
    BY <1>8, <2>1 DEF m
  <2> QED
    BY <1>4, <2>2
<1>12. Folds(K, m, <<>>, F, D)
  BY <1>1, <1>5, <1>10, <1>11, FoldIs
<1> QED
  BY <1>9, <1>12 DEF F, D, m

LEMMA AddAllType ==
  ASSUME NEW list \in Seq(SlotRow)
  PROVE  AddAll(list) \in Seq(FormSlots)
<1>1. PICK g : Folds(g, Len(list), <<>>, AddAllSteps(list, Seq(FormSlots)), Seq(FormSlots)) /\ AddAll(list) = g[Len(list)]
  BY AddAllFold
<1>2. Len(list) \in 0 .. Len(list)
  OBVIOUS
<1>3. g \in [0 .. Len(list) -> Seq(FormSlots)]
  BY <1>1 DEF Folds
<1> QED
  BY <1>1, <1>2, <1>3

LEMMA AddAllAppend ==
  ASSUME NEW list \in Seq(SlotRow), NEW e \in SlotRow
  PROVE  /\ AddAll(list) \in Seq(FormSlots)
         /\ AddAll(Append(list, e)) = AddExtraSlot(AddAll(list), e)
<1> DEFINE t == Append(list, e)
           D == Seq(FormSlots)
           m == Len(list)
           F == AddAllSteps(list, D)
           G == AddAllSteps(t, D)
<1>1. t \in Seq(SlotRow) /\ Len(t) = m + 1 /\ m \in Nat /\ t[m + 1] = e /\ \A n \in 1 .. m : t[n] = list[n]
  OBVIOUS
<1>2. <<>> \in D
  OBVIOUS
<1> HIDE DEF t, D
<1>3. PICK g : Folds(g, m, <<>>, F, D) /\ AddAll(list) = g[m]
  BY AddAllFold DEF D
<1>4. PICK h : Folds(h, m + 1, <<>>, G, D) /\ AddAll(t) = h[m + 1]
  <2>1. \E h : Folds(h, Len(t), <<>>, G, D) /\ AddAll(t) = h[Len(t)]
    BY <1>1, AddAllFold DEF D
  <2> QED
    BY <1>1, <2>1
<1> HIDE DEF m
<1>5. \A n \in 1 .. m : F[n] = G[n]
  <2> TAKE n \in 1 .. m
  <2>1. n \in 1 .. Len(t) /\ n \in 1 .. Len(list) /\ list[n] = t[n]
    BY <1>1 DEF m
  <2> QED
    BY <2>1 DEF AddAllSteps
<1>6. \A q \in D : G[m + 1][q] = AddExtraSlot(q, e)
  BY <1>1 DEF AddAllSteps
<1> HIDE DEF F, G
<1>7. h[m + 1] = G[m + 1][g[m]] /\ g[m] \in D
  <2>1. m \in Nat
    BY <1>1
  <2> QED
    BY <1>2, <1>3, <1>4, <1>5, <2>1, FoldNext
<1> QED
  BY <1>3, <1>4, <1>6, <1>7 DEF t, D

LEMMA AddAllEmpty == AddAll(<<>>) = <<>>
<1>1. <<>> \in Seq(SlotRow) /\ Len(<<>>) = 0
  OBVIOUS
<1>2. PICK g : Folds(g, Len(<<>>), <<>>, AddAllSteps(<<>>, Seq(FormSlots)), Seq(FormSlots)) /\ AddAll(<<>>) = g[Len(<<>>)]
  BY <1>1, AddAllFold
<1> QED
  BY <1>1, <1>2 DEF Folds

\* The payloads that come back from a file, and those the forms make.
Payloads == [username : Text, password : Text, urls : Seq(Words), totp_seed : Trimmed, notes : Text,
             tags : TagLists, favorite : BOOLEAN, extra : Seq(SlotRow)]
Lone == {"url"} \cup Singletons
ExtraSlots == {r \in FormSlots : r.type \notin Lone /\ r.label \in Words}
FormPayloads == {p \in Payloads : /\ p.urls \in Seq(Words \cap OneLine) /\ p.totp_seed \in OneLine
                                  /\ p.tags \in Seq(Tags) /\ p.extra \in Seq(ExtraSlots)}

LEMMA FormValues ==
  ASSUME NEW list \in Seq(FormSlots), NEW type
  PROVE  /\ Values(type, list) \in Seq(Text) /\ LastOf(type, list) \in Text
         /\ type \notin Lines => Values(type, list) \in Seq(OneLine) /\ LastOf(type, list) \in OneLine
<1> DEFINE S == {s \in ToSet(list) : s.type # type}
           of == Without(list, S)
           D == IF type \in Lines THEN Text ELSE Text \cap OneLine
           v == Values(type, list)
<1>1. ToSet(list) \subseteq FormSlots /\ of \in Seq(ToSet(list) \ S)
  BY WithoutOf
<1>2. Values(type, list) = [i \in DOMAIN of |-> of[i].value]
  BY DEF Values
<1>3. \A s \in ToSet(list) \ S : s \in FormSlots /\ s.type = type
  BY <1>1
<1> HIDE DEF of, S
<1>4. Len(of) \in Nat /\ DOMAIN of = 1 .. Len(of) /\ \A i \in 1 .. Len(of) : of[i] \in FormSlots /\ of[i].type = type
  BY <1>1, <1>3
<1>5. \A i \in 1 .. Len(of) : of[i].value \in D
  BY <1>4 DEF FormSlots, SlotRow
<1>6. <<>> \in D
  BY DEF Text, OneLine
<1> HIDE DEF D
<1>7. v \in Seq(D)
  <2>1. v = [i \in 1 .. Len(of) |-> of[i].value]
    BY <1>2, <1>4
  <2>2. v \in [1 .. Len(of) -> D]
    BY <1>5, <2>1
  <2> QED
    BY <1>4, <2>2, ListedSeq
<1>8. LastOf(type, list) \in D
  <2>1. LastOf(type, list) = IF v = <<>> THEN <<>> ELSE v[Len(v)]
    BY DEF LastOf, Last
  <2> HIDE DEF v
  <2>2. CASE v = <<>>
    BY <1>6, <2>1, <2>2
  <2>3. CASE v # <<>>
    <3>1. Len(v) \in Nat \ {0}
      BY <1>7, <2>3, EmptySeq
    <3>2. v[Len(v)] \in D
      BY <1>7, <3>1
    <3> QED
      BY <2>1, <2>3, <3>2
  <2> QED
    BY <2>2, <2>3
<1>9. D \subseteq Text /\ (type \notin Lines => D \subseteq OneLine)
  BY DEF D
<1> HIDE DEF v
<1>10. v \in Seq(Text) /\ (type \notin Lines => v \in Seq(OneLine))
  BY <1>7, <1>9, SeqMonotonic
<1> QED
  BY <1>8, <1>9, <1>10 DEF v

Cores == [username : Text, password : Text, tagsInput : Text]

\* The extra fields of a payload: the other rows, each with a label.
ExtraOf(list) == Without(list, {s \in ToSet(list) : s.type \in Singletons \cup {"url"}})
Labeled(r) == [r EXCEPT !.label = OrElse(Trim(@), <<"t">>)]

LEMMA CollectedFields ==
  ASSUME NEW list, NEW core
  PROVE  CollectPayload(list, core) =
        [username |-> core.username, password |-> core.password,
         urls |-> NotEmpty(TrimAll(Values("url", list))),
         totp_seed |-> Trim(LastOf("totp", list)), notes |-> LastOf("notes", list),
         tags |-> MergeTags(ParseTagsInput(LastOf("tags", list)), ParseTagsInput(core.tagsInput)),
         favorite |-> LastOf("favorite", list) = <<"1">>,
         extra |-> [i \in DOMAIN ExtraOf(list) |-> Labeled(ExtraOf(list)[i])]]
BY DEF CollectPayload, ExtraOf, Labeled

LEMMA LabeledType ==
  ASSUME NEW r \in FormSlots, r.type \notin Lone
  PROVE  Labeled(r) \in ExtraSlots
<1>1. r \in SlotRow /\ r.label \in Text
  BY DEF FormSlots, SlotRow
<1>2. OrElse(Trim(r.label), <<"t">>) \in Words
  BY <1>1, TrimTrims, Labels DEF OrElse, Words
<1>3. r.type \notin Labelled => OrElse(Trim(r.label), <<"t">>) = DefaultLabel
  <2>1. Trim(DefaultLabel) = DefaultLabel /\ DefaultLabel # <<>>
    BY Labels, TrimKeeps DEF Words
  <2> QED
    BY <2>1 DEF OrElse, FormSlots
<1>4. r = [type |-> r.type, label |-> r.label, value |-> r.value] /\ r.type \in SlotTypes /\ r.value \in Text
  BY <1>1 DEF SlotRow
<1>5. Labeled(r) = [type |-> r.type, label |-> OrElse(Trim(r.label), <<"t">>), value |-> r.value]
  BY <1>4 DEF Labeled
<1>6. OrElse(Trim(r.label), <<"t">>) \in Text
  BY <1>2 DEF Words, Trimmed
<1>7. r.type \notin Lines => r.value \in OneLine
  BY DEF FormSlots
<1> QED
  BY <1>2, <1>3, <1>4, <1>5, <1>6, <1>7 DEF ExtraSlots, FormSlots, SlotRow

LEMMA CollectedPayload ==
  ASSUME NEW list \in Seq(FormSlots), NEW core \in Cores
  PROVE  CollectPayload(list, core) \in FormPayloads
<1> DEFINE rest == ExtraOf(list)
           ex == [i \in DOMAIN rest |-> Labeled(rest[i])]
           p == CollectPayload(list, core)
<1>1. p = [username |-> core.username, password |-> core.password,
         urls |-> NotEmpty(TrimAll(Values("url", list))),
         totp_seed |-> Trim(LastOf("totp", list)), notes |-> LastOf("notes", list),
         tags |-> MergeTags(ParseTagsInput(LastOf("tags", list)), ParseTagsInput(core.tagsInput)),
         favorite |-> LastOf("favorite", list) = <<"1">>, extra |-> ex]
  BY CollectedFields
<1> HIDE DEF p
<1>2. Len(rest) \in Nat /\ DOMAIN rest = 1 .. Len(rest) /\ \A i \in 1 .. Len(rest) : rest[i] \in FormSlots /\ rest[i].type \notin Lone
  <2> DEFINE S == {s \in ToSet(list) : s.type \in Singletons \cup {"url"}}
  <2>1. ToSet(list) \subseteq FormSlots /\ rest \in Seq(ToSet(list) \ S)
    BY WithoutOf DEF ExtraOf
  <2>2. \A s \in ToSet(list) \ S : s \in FormSlots /\ s.type \notin Lone
    BY <2>1 DEF Lone
  <2> HIDE DEF S, rest
  <2> QED
    BY <2>1, <2>2
<1> HIDE DEF rest
<1>3. ex \in Seq(ExtraSlots)
  <2>1. \A i \in 1 .. Len(rest) : Labeled(rest[i]) \in ExtraSlots
    BY <1>2, LabeledType
  <2>2. ex = [i \in 1 .. Len(rest) |-> Labeled(rest[i])]
    BY <1>2
  <2>3. ex \in [1 .. Len(rest) -> ExtraSlots]
    BY <2>1, <2>2
  <2> QED
    BY <1>2, <2>3, ListedSeq
<1> HIDE DEF ex
<1>4. core.username \in Text /\ core.password \in Text /\ core.tagsInput \in Text
  BY DEF Cores
<1>5. NotEmpty(TrimAll(Values("url", list))) \in Seq(Words \cap OneLine)
  <2>1. Values("url", list) \in Seq(Text) /\ Values("url", list) \in Seq(OneLine)
    BY FormValues DEF Lines
  <2> QED
    BY <2>1, CleanedWithin DEF OneLine
<1>6. Trim(LastOf("totp", list)) \in Trimmed /\ Trim(LastOf("totp", list)) \in OneLine
  <2>1. LastOf("totp", list) \in Text /\ LastOf("totp", list) \in OneLine
    BY FormValues DEF Lines
  <2> QED
    BY <2>1, TrimTrims, TrimWithin DEF OneLine
<1>7. LastOf("notes", list) \in Text
  BY FormValues
<1>8. MergeTags(ParseTagsInput(LastOf("tags", list)), ParseTagsInput(core.tagsInput)) \in TagLists \cap Seq(Tags)
  BY <1>4, FormValues, ParsedTags, MergedTags, MergedWithin
<1>9. p \in Payloads
  <2>1. Words \cap OneLine \subseteq Words /\ ExtraSlots \subseteq SlotRow
    BY DEF ExtraSlots, FormSlots
  <2>2. p.urls \in Seq(Words) /\ p.extra \in Seq(SlotRow)
    BY <1>1, <1>3, <1>5, <2>1, SeqMonotonic
  <2> QED
    BY <1>1, <1>4, <1>6, <1>7, <1>8, <2>2 DEF Payloads
<1> QED
  BY <1>1, <1>3, <1>5, <1>6, <1>8, <1>9 DEF FormPayloads, p

LEMMA NormalPayload ==
  ASSUME NEW p \in Payloads
  PROVE  NormalizeSecretPayload(p) = p
<1>1. p.urls \in Seq(Words) /\ p.totp_seed \in Trimmed /\ p.tags \in Seq(Words)
  BY DEF Payloads, TagLists
<1>2. NotEmpty(TrimAll(p.urls)) = p.urls /\ Trim(p.totp_seed) = p.totp_seed /\ NotEmpty(TrimAll(p.tags)) = p.tags
  BY <1>1, CleanStays, TrimKeeps
<1>3. p = [username |-> p.username, password |-> p.password, urls |-> p.urls, totp_seed |-> p.totp_seed, notes |-> p.notes,
           tags |-> p.tags, favorite |-> p.favorite, extra |-> p.extra]
  BY DEF Payloads
<1> QED
  BY <1>2, <1>3 DEF NormalizeSecretPayload

LEMMA FolderMerged ==
  ASSUME NEW p \in Payloads, NEW folder \in Text
  PROVE  MergeFolderIntoTags(p, folder) \in Payloads
<1>1. CASE Trim(folder) = <<>>
  BY <1>1 DEF MergeFolderIntoTags
<1>2. CASE Trim(folder) # <<>>
  <2>1. Trim(folder) \in Words
    BY <1>2, TrimTrims DEF Words
  <2>2. <<Trim(folder)>> \in Seq(Words)
    BY <2>1
  <2>3. p.tags \in Seq(Words)
    BY DEF Payloads, TagLists
  <2>4. MergeTags(p.tags, <<Trim(folder)>>) \in TagLists
    BY <2>2, <2>3, MergedTags
  <2>5. [p EXCEPT !.tags = MergeTags(@, <<Trim(folder)>>)] \in Payloads
    BY <2>4 DEF Payloads
  <2> QED
    BY <1>2, <2>5 DEF MergeFolderIntoTags
<1> QED
  BY <1>1, <1>2

\* The whole way of a row: out of the vault, through the file, and back.
LEMMA ItemComesBack ==
  ASSUME NEW title \in Words, NEW p \in Payloads
  PROVE  Imported(NormalizeItem(ExportItem(title, p))) = [title |-> title, payload |-> p]
<1> DEFINE raw == ExportItem(title, p)
           it == NormalizeItem(raw)
           r == [f \in DOMAIN Blank |-> IF f \in DOMAIN raw THEN raw[f] ELSE Blank[f]]
<1>1. /\ p = [username |-> p.username, password |-> p.password, urls |-> p.urls, totp_seed |-> p.totp_seed,
              notes |-> p.notes, tags |-> p.tags, favorite |-> p.favorite, extra |-> p.extra]
      /\ p.urls \in Seq(Words) /\ p.totp_seed \in Trimmed /\ p.tags \in TagLists
  BY DEF Payloads
<1>2. DOMAIN p = {"username", "password", "urls", "totp_seed", "notes", "tags", "favorite", "extra"}
  BY DEF Payloads
<1>3. DOMAIN Blank = {"title", "username", "password", "urls", "notes", "totp_seed", "tags", "favorite",
                  "folder", "extra"} /\ Blank.folder = <<>>
  BY DEF Blank
<1>4. raw = [f \in DOMAIN p \cup {"title"} |-> IF f = "title" THEN title ELSE p[f]]
  BY DEF ExportItem
<1> HIDE DEF raw
<1>5. DOMAIN raw = DOMAIN p \cup {"title"} /\ raw.title = title /\ \A f \in DOMAIN p : raw[f] = p[f]
  BY <1>2, <1>4
<1>6. r = [title |-> title, username |-> p.username, password |-> p.password, urls |-> p.urls, notes |-> p.notes,
           totp_seed |-> p.totp_seed, tags |-> p.tags, favorite |-> p.favorite, folder |-> <<>>, extra |-> p.extra]
  BY <1>2, <1>3, <1>5
<1>7. it = [r EXCEPT !.title = OrElse(Trim(@), <<"Import">>), !.urls = NotEmpty(TrimAll(@)),
                     !.totp_seed = Trim(@), !.folder = Trim(@)]
  BY DEF NormalizeItem
<1> HIDE DEF r, it
<1>8. Trim(title) = title /\ title # <<>>
  BY TrimKeeps DEF Words
<1>9. NotEmpty(TrimAll(p.urls)) = p.urls /\ Trim(p.totp_seed) = p.totp_seed
  BY <1>1, CleanStays, TrimKeeps
<1>10. Trim(<<>>) = <<>>
  <2>1. <<>> \in Trimmed
    BY DEF Trimmed, Text
  <2> QED
    BY <2>1, TrimKeeps
<1>11. it = [title |-> title, username |-> p.username, password |-> p.password, urls |-> p.urls, notes |-> p.notes,
             totp_seed |-> p.totp_seed, tags |-> p.tags, favorite |-> p.favorite, folder |-> <<>>, extra |-> p.extra]
  BY <1>6, <1>7, <1>8, <1>9, <1>10 DEF OrElse
<1>12. MergeTags(it.tags, ParseTagsInput(it.folder)) = p.tags
  BY <1>1, <1>11, NoTagsParsed, MergedWithNone
<1>13. Imported(it) = [title |-> title, payload |-> NormalizeSecretPayload(p)]
  BY <1>1, <1>11, <1>12 DEF Imported
<1>14. Imported(it) = [title |-> title, payload |-> p]
  BY <1>13, NormalPayload
<1> QED
  BY <1>14 DEF it, raw

-----------------------------------------------------------------------------
(* Texts put together and taken apart.                                      *)

\* The last part goes on with u.
Trail(q, u) == [q EXCEPT ![Len(q)] = @ \o u]

LEMMA TrailProperties ==
  ASSUME NEW T, NEW q \in Parts(T), NEW u \in Seq(T)
  PROVE  /\ Trail(q, <<>>) = q
         /\ Trail(q, u) \in Parts(T) /\ Len(Trail(q, u)) = Len(q) /\ Len(q) \in 1 .. Len(q)
         /\ Trail(q, u)[Len(q)] = q[Len(q)] \o u /\ q[Len(q)] \in Seq(T)
         /\ \A i \in 1 .. Len(q) : i # Len(q) => Trail(q, u)[i] = q[i]
<1> DEFINE D == Seq(T)
           k == Len(q)
           b == q[k] \o u
<1>1. q \in Seq(D) /\ q # <<>>
  BY DEF Parts
<1>2. k \in Nat \ {0} /\ k \in 1 .. k
  <2> HIDE DEF D
  <2> QED
    BY <1>1, EmptySeq
<1>3. q[k] \in D
  <2> HIDE DEF D
  <2> QED
    BY <1>1, <1>2, ElementOfSeq
<1>4. b \in D
  BY <1>3, ConcatProperties
<1>5. q[k] \o <<>> = q[k]
  BY <1>3, ConcatEmptySeq
<1>6. Trail(q, u) = [q EXCEPT ![k] = b] /\ Trail(q, <<>>) = [q EXCEPT ![k] = q[k] \o <<>>]
  BY DEF Trail
<1> HIDE DEF b
<1>7. [q EXCEPT ![k] = b] \in Seq(D) /\ Len([q EXCEPT ![k] = b]) = k
      /\ \A i \in 1 .. k : [q EXCEPT ![k] = b][i] = IF i = k THEN b ELSE q[i]
  <2> HIDE DEF D
  <2> QED
    BY <1>1, <1>2, <1>4, ExceptSeq
<1>8. [q EXCEPT ![k] = q[k]] = q
  <2> HIDE DEF D
  <2> QED
    BY <1>1, <1>2, LenProperties
<1>9. [q EXCEPT ![k] = b] # <<>>
  BY <1>2, <1>7, EmptySeq
<1> QED
  BY <1>2, <1>3, <1>5, <1>6, <1>7, <1>8, <1>9 DEF Parts, b

LEMMA TrailTrail ==
  ASSUME NEW T, NEW q \in Parts(T), NEW u \in Seq(T), NEW e \in T
  PROVE  Typed(Trail(q, u), e) = Trail(q, Append(u, e))
<1> DEFINE k == Len(q)
           r == Trail(q, u)
<1>1. r \in Parts(T) /\ Len(r) = k /\ k \in 1 .. k /\ r[k] = q[k] \o u /\ q[k] \in Seq(T)
  BY TrailProperties
<1>2. Append(q[k] \o u, e) = q[k] \o Append(u, e)
  <2>1. Append(q[k] \o u, e) = (q[k] \o u) \o <<e>> /\ Append(u, e) = u \o <<e>>
    BY <1>1, ConcatProperties, AppendIsConcat
  <2>2. <<e>> \in Seq(T)
    OBVIOUS
  <2>3. (q[k] \o u) \o <<e>> = q[k] \o (u \o <<e>>)
    <3> DEFINE w == <<e>>
               b == q[k]
    <3>1. b \in Seq(T) /\ w \in Seq(T)
      BY <1>1
    <3> HIDE DEF b, w
    <3>2. (b \o u) \o w = b \o (u \o w)
      BY <3>1, ConcatAssociative
    <3> QED
      BY <3>2 DEF b, w
  <2> QED
    BY <2>1, <2>3
<1>3. Typed(r, e) = [r EXCEPT ![k] = Append(r[k], e)]
  BY <1>1 DEF Typed
<1>4. r = [q EXCEPT ![k] = q[k] \o u]
  BY DEF Trail
<1>5. [r EXCEPT ![k] = Append(q[k] \o u, e)] = [q EXCEPT ![k] = Append(q[k] \o u, e)]
  BY <1>4
<1> QED
  BY <1>1, <1>2, <1>3, <1>5 DEF Trail

LEMMA TrailAppend ==
  ASSUME NEW T, NEW q \in Seq(Seq(T)), NEW u \in Seq(T)
  PROVE  Trail(Append(q, <<>>), u) = Append(q, u) /\ Append(q, <<>>) \in Parts(T)
<1> DEFINE D == Seq(T)
           a == Append(q, <<>>)
           n == Len(q)
<1>0. <<>> \in D /\ u \in D /\ q \in Seq(D)
  OBVIOUS
<1>1. a \in Seq(D) /\ a # <<>> /\ Len(a) = n + 1 /\ a[n + 1] = <<>> /\ n \in Nat /\ \A i \in 1 .. n : a[i] = q[i]
  <2> HIDE DEF D
  <2> QED
    BY <1>0, AppendProperties, LenProperties
<1>2. a \in Parts(T)
  BY <1>1 DEF Parts
<1>3. Trail(a, u) \in Parts(T) /\ Len(Trail(a, u)) = n + 1 /\ Trail(a, u)[n + 1] = <<>> \o u
      /\ \A i \in 1 .. n + 1 : i # n + 1 => Trail(a, u)[i] = a[i]
  <2>1. Len(a) = n + 1 /\ a[n + 1] = <<>>
    BY <1>1
  <2> DEFINE b == Trail(a, u)
  <2> HIDE DEF a, n, D
  <2>2. b \in Parts(T) /\ Len(b) = Len(a) /\ b[Len(a)] = a[Len(a)] \o u
        /\ \A i \in 1 .. Len(a) : i # Len(a) => b[i] = a[i]
    BY <1>2, TrailProperties, ZenonT(30)
  <2> HIDE DEF b
  <2>3. b[n + 1] = <<>> \o u
    BY <2>1, <2>2
  <2>4. \A i \in 1 .. n + 1 : i # n + 1 => b[i] = a[i]
    BY <2>1, <2>2
  <2> QED
    BY <2>1, <2>2, <2>3, <2>4 DEF b
<1>4. <<>> \o u = u
  <2> HIDE DEF D
  <2> QED
    BY ConcatEmptySeq
<1>5. Append(q, u) \in Seq(D) /\ Len(Append(q, u)) = n + 1 /\ Append(q, u)[n + 1] = u /\ \A i \in 1 .. n : Append(q, u)[i] = q[i]
  <2> HIDE DEF D
  <2> QED
    BY <1>0, <1>1, AppendProperties
<1>6. \A i \in 1 .. n + 1 : Trail(a, u)[i] = Append(q, u)[i]
  <2> TAKE i \in 1 .. n + 1
  <2>1. CASE i = n + 1
    BY <1>3, <1>4, <1>5, <2>1
  <2>2. CASE i \in 1 .. n
    <3>1. i # n + 1 /\ a[i] = q[i]
      BY <1>1, <2>2
    <3>2. Trail(a, u)[i] = a[i] /\ Append(q, u)[i] = q[i]
      BY <1>3, <1>5, <2>2, <3>1
    <3> QED
      BY <3>1, <3>2
  <2> QED
    BY <1>1, <2>1, <2>2
<1>7. Trail(a, u) \in Seq(D)
  BY <1>3 DEF Parts
<1>8. Trail(a, u) = Append(q, u)
  <2> DEFINE l == Trail(a, u)
             r == Append(q, u)
  <2>1. l \in Seq(D) /\ r \in Seq(D) /\ Len(l) = Len(r) /\ \A i \in 1 .. Len(l) : l[i] = r[i]
    BY <1>3, <1>5, <1>6, <1>7
  <2> HIDE DEF l, r, D
  <2>2. l = r
    BY <2>1, SeqEqual
  <2> QED
    BY <2>2 DEF l, r
<1> QED
  BY <1>2, <1>8

LEMMA TrailStart ==
  ASSUME NEW T, NEW u \in Seq(T)
  PROVE  Trail(<< <<>> >>, u) = <<u>> /\ << <<>> >> \in Parts(T)
<1>1. << <<>> >> = Append(<<>>, <<>>) /\ <<u>> = Append(<<>>, u) /\ <<>> \in Seq(Seq(T))
  OBVIOUS
<1> QED
  BY <1>1, TrailAppend

LEMMA AppendConcat ==
  ASSUME NEW T, NEW t \in Seq(T), NEW u \in Seq(T), NEW e \in T
  PROVE  t \o Append(u, e) = Append(t \o u, e) /\ t \o <<e>> = Append(t, e)
<1>1. <<e>> \in Seq(T) /\ t \o u \in Seq(T)
  BY ConcatProperties
<1>2. Append(u, e) = u \o <<e>> /\ Append(t \o u, e) = (t \o u) \o <<e>> /\ Append(t, e) = t \o <<e>>
  BY <1>1, AppendIsConcat
<1> QED
  BY <1>1, <1>2, ConcatAssociative

-----------------------------------------------------------------------------
(* Split undoes Join.                                                       *)

LEMMA SplitOn ==
  ASSUME NEW T, NEW seps, NEW U, U = T \ seps, NEW t \in Seq(T), NEW u \in Seq(U)
  PROVE  Split(t \o u, seps) = Trail(Split(t, seps), u)
<1> DEFINE P == {v \in Seq(U) : Split(t \o v, seps) = Trail(Split(t, seps), v)}
<1>0. Split(t, seps) \in Parts(U)
  BY SplitType
<1>1. <<>> \in P
  BY <1>0, ConcatEmptySeq, TrailProperties
<1>2. ASSUME NEW v \in Seq(U), NEW e \in U, v \in P PROVE Append(v, e) \in P
  <2>1. v \in Seq(T) /\ e \in T /\ e \notin seps
    BY SeqMonotonic
  <2>2. t \o v \in Seq(T) /\ t \o Append(v, e) = Append(t \o v, e)
    BY <2>1, AppendConcat, ConcatProperties
  <2>3. Split(Append(t \o v, e), seps) = Extended(Split(t \o v, seps), e, seps)
    BY <2>1, <2>2, SplitAppend
  <2>4. Extended(Trail(Split(t, seps), v), e, seps) = Typed(Trail(Split(t, seps), v), e)
    BY <2>1 DEF Extended, Typed
  <2>5. Typed(Trail(Split(t, seps), v), e) = Trail(Split(t, seps), Append(v, e))
    BY <1>0, TrailTrail
  <2>6. Split(t \o v, seps) = Trail(Split(t, seps), v)
    BY <1>2
  <2>7. Append(v, e) \in Seq(U)
    OBVIOUS
  <2>8. Split(t \o Append(v, e), seps) = Trail(Split(t, seps), Append(v, e))
    BY <2>2, <2>3, <2>4, <2>5, <2>6
  <2> QED
    BY <2>7, <2>8
<1> HIDE DEF P
<1>3. Seq(U) \subseteq P
  BY <1>1, <1>2, SeqInduct
<1> QED
  BY <1>0, <1>3 DEF P

LEMMA SplitAt ==
  ASSUME NEW T, NEW seps, NEW t \in Seq(T), NEW c \in T, c \in seps
  PROVE  Split(Append(t, c), seps) = Append(Split(t, seps), <<>>)
BY SplitAppend DEF Extended

Prefixed(ts, pre) == [i \in DOMAIN ts |-> IF i = 1 THEN ts[1] ELSE pre \o ts[i]]

LEMMA PrefixedAppend ==
  ASSUME NEW T, NEW ts \in Seq(Seq(T)), NEW pre \in Seq(T), NEW e \in Seq(T), ts # <<>>
  PROVE  Prefixed(Append(ts, e), pre) = Append(Prefixed(ts, pre), pre \o e) /\ Prefixed(ts, pre) \in Seq(Seq(T))
<1> DEFINE D == Seq(T)
           n == Len(ts)
           u == Append(ts, e)
           l == Prefixed(u, pre)
           s == Prefixed(ts, pre)
           b == pre \o e
           r == Append(s, b)
<1>0. ts \in Seq(D) /\ e \in D /\ b \in D /\ \A d \in D : pre \o d \in D
  BY ConcatProperties
<1>1. n \in Nat \ {0} /\ DOMAIN ts = 1 .. n /\ \A i \in 1 .. n : ts[i] \in D
  <2> HIDE DEF D
  <2> QED
    BY <1>0, EmptySeq, LenProperties
<1>2. u \in Seq(D) /\ DOMAIN u = 1 .. n + 1 /\ u[n + 1] = e /\ \A i \in 1 .. n : u[i] = ts[i]
  <2> HIDE DEF D
  <2> QED
    BY <1>0, <1>1, AppendProperties, LenProperties
<1> HIDE DEF u, b
<1>3. l = [i \in 1 .. n + 1 |-> IF i = 1 THEN u[1] ELSE pre \o u[i]] /\ s = [i \in 1 .. n |-> IF i = 1 THEN ts[1] ELSE pre \o ts[i]]
  BY <1>1, <1>2 DEF Prefixed
<1>4. \A i \in 1 .. n + 1 : u[i] \in D
  BY <1>0, <1>1, <1>2
<1>5. s \in [1 .. n -> D] /\ l \in [1 .. n + 1 -> D]
  BY <1>0, <1>1, <1>3, <1>4
<1>6. s \in Seq(D) /\ Len(s) = n /\ l \in Seq(D) /\ Len(l) = n + 1
  <2> HIDE DEF D, l, s
  <2>1. n \in Nat /\ n + 1 \in Nat
    BY <1>1
  <2> QED
    BY <1>5, <2>1, ListedSeq
<1>7. r \in Seq(D) /\ Len(r) = n + 1 /\ r[n + 1] = b /\ \A i \in 1 .. n : r[i] = s[i]
  <2> HIDE DEF D, s, b
  <2> QED
    BY <1>0, <1>6, AppendProperties
<1>8. \A i \in 1 .. n + 1 : l[i] = r[i]
  <2> HIDE DEF r
  <2> TAKE i \in 1 .. n + 1
  <2>1. CASE i = n + 1
    <3>1. i # 1
      BY <1>1, <2>1
    <3>2. l[i] = pre \o u[i]
      BY <1>3, <3>1
    <3> QED
      BY <1>2, <1>7, <2>1, <3>2 DEF b
  <2>2. CASE i \in 1 .. n
    <3>1. r[i] = s[i] /\ u[i] = ts[i] /\ u[1] = ts[1]
      BY <1>1, <1>2, <1>7, <2>2
    <3>2. l[i] = IF i = 1 THEN u[1] ELSE pre \o u[i]
      BY <1>3
    <3>3. s[i] = IF i = 1 THEN ts[1] ELSE pre \o ts[i]
      BY <1>3, <2>2
    <3> HIDE DEF l, s
    <3> QED
      BY <3>1, <3>2, <3>3
  <2> QED
    BY <1>1, <2>1, <2>2
<1>9. l = r
  <2> HIDE DEF D, l, r
  <2> QED
    BY <1>6, <1>7, <1>8, SeqEqual
<1> QED
  BY <1>6, <1>9 DEF u, b

LEMMA Regrouped ==
  ASSUME NEW T
  PROVE  \A j, v, w \in Seq(T), c \in T : j \o (<<c>> \o v) \o w = Append(j, c) \o (v \o w)
<1>1. \A s, t, u \in Seq(T) : (s \o t) \o u = s \o (t \o u)
  BY ConcatAssociative
<1>2. \A s \in Seq(T), c \in T : <<c>> \in Seq(T) /\ Append(s, c) \in Seq(T) /\ s \o <<c>> = Append(s, c)
  BY AppendConcat
<1> TAKE j, v, w \in Seq(T), c \in T
<1> DEFINE one == <<c>>
           k == Append(j, c)
<1>3. one \in Seq(T) /\ k \in Seq(T)
  BY <1>2, Zenon
<1>4. j \o one = k
  BY <1>2, Zenon
<1> HIDE DEF one, k
<1>5. (j \o one) \o v = j \o (one \o v)
  BY <1>1, <1>3, Zenon
<1>6. (k \o v) \o w = k \o (v \o w)
  BY <1>1, <1>3, Zenon
<1> QED
  BY <1>4, <1>5, <1>6, Zenon DEF one, k

LEMMA SplitJoined ==
  ASSUME NEW T, NEW seps, NEW U, U = T \ seps, NEW c \in T, c \in seps,
         NEW pre \in Seq(U), NEW ts \in Seq(Seq(U)), ts # <<>>
  PROVE  Split(Join(ts, <<c>> \o pre), seps) = Prefixed(ts, pre)
<1> DEFINE D == Seq(U)
           sep == <<c>> \o pre
           P == {q \in Seq(D) : q # <<>> => Split(Join(q, sep), seps) = Prefixed(q, pre)}
<1>0. D \subseteq Seq(T) /\ pre \in Seq(T) /\ <<c>> \in Seq(T)
  BY SeqMonotonic
<1>1. sep \in Seq(T)
  BY <1>0, ConcatProperties
<1>2. <<>> \in P
  OBVIOUS
<1>3. \A j, v, w \in Seq(T), d \in T : j \o (<<d>> \o v) \o w = Append(j, d) \o (v \o w)
  <2> HIDE DEF D, P, sep
  <2> QED
    BY Regrouped, SMTT(60)
<1>4. ASSUME NEW q \in Seq(D), NEW e \in D, q \in P PROVE Append(q, e) \in P
  <2>0. q \in Seq(Seq(T)) /\ e \in Seq(T)
    BY <1>0, SeqMonotonic
  <2>1. Join(Append(q, e), sep) = IF Len(q) + 1 = 1 THEN e ELSE Join(q, sep) \o sep \o e
    BY <1>1, <2>0, JoinAppend
  <2>2. Append(q, e) \in Seq(D)
    <3> HIDE DEF D
    <3> QED
      BY AppendProperties
  <2>3. Split(Join(Append(q, e), sep), seps) = Prefixed(Append(q, e), pre)
    <3>1. CASE q = <<>>
      <4>1. Join(Append(q, e), sep) = e
        BY <2>1, <3>1
      <4>2. <<>> \o e = e /\ <<>> \in Seq(T)
        BY <2>0, ConcatEmptySeq
      <4>3. Split(e, seps) = Trail(Split(<<>>, seps), e)
        <5>1. e \in Seq(T \ seps)
          OBVIOUS
        <5>2. Split(<<>> \o e, seps) = Trail(Split(<<>>, seps), e)
          <6> DEFINE v == <<>>
          <6>1. v \in Seq(T) /\ U = T \ seps /\ e \in Seq(U)
            OBVIOUS
          <6> HIDE DEF v, D, P, sep
          <6>2. Split(v \o e, seps) = Trail(Split(v, seps), e)
            BY <6>1, SplitOn
          <6> QED
            BY <6>2 DEF v
        <5> QED
          BY <4>2, <5>2
      <4>4. Split(e, seps) = <<e>>
        BY <4>3, SplitEmpty, TrailStart
      <4>5. Prefixed(Append(q, e), pre) = <<e>>
        BY <3>1 DEF Prefixed
      <4> QED
        BY <4>1, <4>4, <4>5
    <3>2. CASE q # <<>>
      <4> DEFINE J == Join(q, sep)
      <4>1. Len(q) + 1 # 1
        <5>1. Len(q) \in Nat \ {0}
          <6> HIDE DEF D
          <6> QED
            BY <3>2, EmptySeq
        <5> QED
          BY <5>1
      <4>2. Join(Append(q, e), sep) = J \o sep \o e
        BY <2>1, <4>1
      <4>3. J \in Seq(T)
        BY <1>1, <2>0, JoinType
      <4> HIDE DEF J
      <4>4. J \o sep \o e = Append(J, c) \o (pre \o e)
        <5> HIDE DEF D, P
        <5>1. J \in Seq(T) /\ pre \in Seq(T) /\ e \in Seq(T) /\ c \in T
          BY <1>0, <2>0, <4>3
        <5> QED
          BY <1>3, <5>1, Zenon
      <4>5. pre \o e \in D /\ Append(J, c) \in Seq(T)
        BY <4>3, ConcatProperties
      <4>6. Split(Append(J, c) \o (pre \o e), seps) = Trail(Split(Append(J, c), seps), pre \o e)
        <5> DEFINE v == Append(J, c)
                   w == pre \o e
        <5>1. v \in Seq(T) /\ w \in Seq(U) /\ U = T \ seps
          BY <4>5
        <5> HIDE DEF v, w, D, P, sep
        <5>2. Split(v \o w, seps) = Trail(Split(v, seps), w)
          BY <5>1, SplitOn
        <5> QED
          BY <5>2 DEF v, w
      <4>7. Split(Append(J, c), seps) = Append(Split(J, seps), <<>>)
        BY <4>3, SplitAt
      <4>8. Split(J, seps) = Prefixed(q, pre)
        BY <1>4, <3>2 DEF J
      <4>9. Prefixed(Append(q, e), pre) = Append(Prefixed(q, pre), pre \o e) /\ Prefixed(q, pre) \in Seq(D)
        BY <3>2, PrefixedAppend
      <4>10. Trail(Append(Prefixed(q, pre), <<>>), pre \o e) = Append(Prefixed(q, pre), pre \o e)
        BY <4>5, <4>9, TrailAppend
      <4> QED
        BY <4>2, <4>4, <4>6, <4>7, <4>8, <4>9, <4>10
    <3> QED
      BY <3>1, <3>2
  <2> QED
    BY <2>2, <2>3
<1> HIDE DEF P
<1>5. Seq(D) \subseteq P
  <2> HIDE DEF D
  <2> QED
    BY <1>2, <1>4, SeqInduct
<1> QED
  BY <1>5 DEF P

-----------------------------------------------------------------------------
(* Items.                                                                   *)

\* An item of the preview has every field, and a title.
Complete(it) == DOMAIN it = DOMAIN Blank /\ it.title # <<>>
Items(q) == \A i \in DOMAIN q : Complete(q[i])

LEMMA FieldsOfBlank ==
  DOMAIN Blank = {"title", "username", "password", "urls", "notes", "totp_seed", "tags", "favorite",
                  "folder", "extra"}
BY DEF Blank

LEMMA NormalizedItem ==
  ASSUME NEW raw
  PROVE  Complete(NormalizeItem(raw))
<1> DEFINE r == [f \in DOMAIN Blank |-> IF f \in DOMAIN raw THEN raw[f] ELSE Blank[f]]
<1>1. OrElse(Trim(r.title), <<"Import">>) # <<>>
  BY DEF OrElse
<1>2. NormalizeItem(raw) = [r EXCEPT !.title = OrElse(Trim(@), <<"Import">>), !.urls = NotEmpty(TrimAll(@)),
                                     !.totp_seed = Trim(@), !.folder = Trim(@)]
  BY DEF NormalizeItem
<1>3. DOMAIN r = DOMAIN Blank /\ "title" \in DOMAIN Blank
  BY FieldsOfBlank
<1> HIDE DEF r
<1> QED
  BY <1>1, <1>2, <1>3 DEF Complete

\* Every parser ends in NormalizeItem.
LEMMA ParsedItems ==
  ASSUME NEW f
  PROVE  Items(Parsed(f)) /\ Items(Unwrapped(f))
<1>0. Items(Unwrapped(f))
  BY NormalizedItem DEF Unwrapped, Items
<1> SUFFICES Items(Parsed(f))
  BY <1>0
<1>1. CASE f.format = "csv"
  <2>1. Parsed(f) = ParseCSV(f.header, f.text)
    BY <1>1 DEF Parsed
  <2>2. \A i \in DOMAIN Parsed(f) : \E h, c : Parsed(f)[i] = CsvItem(h, c)
    BY <2>1 DEF ParseCSV
  <2>3. \A h, c : \E raw : CsvItem(h, c) = NormalizeItem(raw)
    BY DEF CsvItem
  <2> QED
    BY <2>2, <2>3, NormalizedItem DEF Items
<1>2. CASE f.format = "bitwarden-json"
  <2>1. Parsed(f) = ParseBitwarden(f.items)
    BY <1>2 DEF Parsed
  <2>2. \A i \in DOMAIN Parsed(f) : \E raw : Parsed(f)[i] = NormalizeItem(raw)
    BY <2>1 DEF ParseBitwarden
  <2> QED
    BY <2>2, NormalizedItem DEF Items
<1>3. CASE f.format = "1password-pux"
  <2>1. Parsed(f) = [i \in DOMAIN f.items |-> PuxItem(f.items[i])]
    BY <1>3 DEF Parsed
  <2> QED
    BY <2>1, NormalizedItem DEF PuxItem, Items
<1>4. CASE f.format = "proton-pass"
  <2>1. Parsed(f) = [i \in DOMAIN f.items |-> ProtonItem(f.items[i])]
    BY <1>4 DEF Parsed
  <2> QED
    BY <2>1, NormalizedItem DEF ProtonItem, Items
<1>5. CASE f.format = "keepass-xml"
  <2>1. Parsed(f) = [i \in DOMAIN f.items |-> KeePassItem(f.items[i])]
    BY <1>5 DEF Parsed
  <2> QED
    BY <2>1, NormalizedItem DEF KeePassItem, Items
<1>6. CASE f.format \notin {"csv", "bitwarden-json", "1password-pux", "proton-pass", "keepass-xml"}
  <2>1. Parsed(f) = [i \in DOMAIN f.items |-> NormalizeItem(f.items[i])]
    BY <1>6 DEF Parsed
  <2> QED
    BY <2>1, NormalizedItem DEF Items
<1> QED
  BY <1>1, <1>2, <1>3, <1>4, <1>5, <1>6

LEMMA WipedItem ==
  ASSUME NEW it, Complete(it)
  PROVE  Complete(Wiped(it)) /\ Wiped(it).password = <<>>
BY FieldsOfBlank DEF Complete, Wiped

LEMMA ImportedItem ==
  ASSUME NEW it
  PROVE  Imported(it).title = it.title /\ Imported(it).payload.password = it.password
BY DEF Imported, NormalizeSecretPayload

-----------------------------------------------------------------------------
(* The invariant.                                                           *)

\* Only a loop has items to post.
Idle == step \notin {"importing", "restoring"} => todo = {}

\* What the loops posted is a sequence, of secrets that two loops can post.
Listing ==
  /\ saved \in Seq(ToSet(saved))
  /\ \A k \in DOMAIN saved : saved[k].by \in {"importing", "restoring"}

\* An item of the preview that was posted in full has lost its password there, as
\* long as there is a preview.
Spent ==
  \A k \in DOMAIN saved :
    saved[k].by = "importing" /\ Whole(k) =>
      /\ step \in {"preview", "importing", "done"}
      /\ step # "done" => /\ saved[k].of \in DOMAIN pending
                         /\ pending[saved[k].of].password = <<>>

ImportInvariant == TypeOK /\ Idle /\ Listing /\ Spent /\ ImportedOnce

\* Steps outside the loop leave what was posted; they make the preview or drop it.
LEMMA OutsideLoop ==
  ASSUME ImportInvariant, UNCHANGED saved, Items(pending'), todo' \subseteq DOMAIN pending',
         step' \notin {"importing", "restoring"} => todo' = {},
         \A k \in DOMAIN saved :
           saved[k].by = "importing" /\ Whole(k) =>
             /\ step' \in {"preview", "importing", "done"}
             /\ step' # "done" => UNCHANGED pending /\ step # "done"
  PROVE  ImportInvariant'
<1>1. TypeOK'
  BY DEF ImportInvariant, TypeOK, Items, Complete
<1>2. Idle' /\ Listing'
  BY DEF ImportInvariant, Idle, Listing
<1>3. Spent'
  BY DEF ImportInvariant, Spent, Whole
<1>4. ImportedOnce'
  BY DEF ImportInvariant, ImportedOnce, Whole
<1> QED
  BY <1>1, <1>2, <1>3, <1>4 DEF ImportInvariant

\* The loop posts an item or fails to, and wipes it.
LEMMA PostKeeps ==
  ASSUME ImportInvariant, Post
  PROVE  ImportInvariant'
<1>1. PICK i \in todo :
        /\ saved' \in {saved, Append(saved, [of |-> i, by |-> step, secret |-> Imported(pending[i])])}
        /\ pending' = [pending EXCEPT ![i] = Wiped(@)]
        /\ todo' = todo \ {i}
  BY DEF Post
<1>2. step \in {"importing", "restoring"} /\ step' = step
  BY DEF Post
<1>3. /\ i \in DOMAIN pending /\ Complete(pending[i]) /\ todo \subseteq DOMAIN pending
      /\ \A j \in DOMAIN pending : Complete(pending[j])
  BY <1>1 DEF ImportInvariant, TypeOK, Complete
<1>4. Complete(Wiped(pending[i])) /\ Wiped(pending[i]).password = <<>>
  BY <1>3, WipedItem
<1>5. /\ DOMAIN pending' = DOMAIN pending
      /\ pending'[i] = Wiped(pending[i])
      /\ \A j \in DOMAIN pending : j # i => pending'[j] = pending[j]
  BY <1>1, <1>3
<1>6. /\ todo' \subseteq DOMAIN pending'
      /\ \A j \in DOMAIN pending' : Complete(pending'[j])
      /\ \A j \in DOMAIN pending : pending[j].password = <<>> => pending'[j].password = <<>>
  BY <1>1, <1>3, <1>4, <1>5
<1>7. Idle'
  BY <1>2 DEF Idle
<1>8. CASE saved' = saved
  <2>1. TypeOK' /\ Listing' /\ ImportedOnce'
    BY <1>6, <1>8 DEF ImportInvariant, TypeOK, Listing, ImportedOnce, Whole, Complete
  <2>2. Spent'
    BY <1>2, <1>5, <1>6, <1>8 DEF ImportInvariant, Spent, Whole
  <2> QED
    BY <1>7, <2>1, <2>2 DEF ImportInvariant
<1>9. CASE saved' = Append(saved, [of |-> i, by |-> step, secret |-> Imported(pending[i])])
  <2> DEFINE new == [of |-> i, by |-> step, secret |-> Imported(pending[i])]
             n == Len(saved)
             S == ToSet(saved) \cup {new}
  <2>1. saved \in Seq(S) /\ new \in S /\ n \in Nat
    BY DEF ImportInvariant, Listing
  <2>2. saved' \in Seq(S) /\ Len(saved') = n + 1 /\ saved'[n + 1] = new
    BY <1>9, <2>1
  <2>3. \A k \in 1 .. n : saved'[k] = saved[k]
    BY <1>9, <2>1
  <2>4. DOMAIN saved = 1 .. n /\ DOMAIN saved' = 1 .. (n + 1)
    BY <2>1, <2>2
  <2>5. new.of = i /\ new.by = step /\ new.secret = Imported(pending[i])
    OBVIOUS
  <2>6. /\ new.secret.title # <<>>
        /\ new.secret.payload.password = pending[i].password
    BY <1>3, <2>5, ImportedItem DEF Complete
  <2> HIDE DEF new, n, S
  <2>7. \A k \in DOMAIN saved' : \/ k \in DOMAIN saved /\ saved'[k] = saved[k]
                                 \/ k = n + 1 /\ saved'[k] = new
    <3>1. \A k \in 1 .. (n + 1) : k \in 1 .. n \/ k = n + 1
      BY <2>1
    <3> QED
      BY <2>2, <2>3, <2>4, <3>1
  <2>8. TypeOK'
    BY <1>6, <2>6, <2>7 DEF ImportInvariant, TypeOK, Complete
  <2>9. Listing'
    <3>1. saved' \in Seq(ToSet(saved'))
      BY <2>2 DEF ToSet
    <3> QED
      BY <1>2, <2>5, <2>7, <3>1 DEF ImportInvariant, Listing
  <2>10. Spent'
    <3> SUFFICES ASSUME NEW k \in DOMAIN saved', saved'[k].by = "importing", Whole(k)'
                 PROVE  /\ step' \in {"preview", "importing", "done"}
                        /\ step' # "done" => /\ saved'[k].of \in DOMAIN pending'
                                            /\ pending'[saved'[k].of].password = <<>>
      BY DEF Spent
    <3>1. CASE k \in DOMAIN saved /\ saved'[k] = saved[k]
      BY <1>2, <1>5, <1>6, <3>1 DEF ImportInvariant, Spent, Whole
    <3>2. CASE saved'[k] = new
      BY <1>2, <1>3, <1>4, <1>5, <2>5, <3>2
    <3> QED
      BY <2>7, <3>1, <3>2
  \* Whoever posted the item in full before left it without a password.
  <2>11. ASSUME NEW k \in DOMAIN saved, saved[k].by = "importing", Whole(k), saved[k].of = i,
                new.by = "importing", new.secret.payload.password # <<>>
         PROVE  FALSE
    BY <1>2, <2>5, <2>6, <2>11 DEF ImportInvariant, Spent
  <2>12. ImportedOnce'
    <3> SUFFICES ASSUME NEW k \in DOMAIN saved', NEW j \in DOMAIN saved', saved'[k].of = saved'[j].of,
                        saved'[k].by = "importing", saved'[j].by = "importing", Whole(k)', Whole(j)'
                 PROVE  k = j
      BY DEF ImportedOnce
    <3>1. CASE k \in DOMAIN saved /\ saved'[k] = saved[k] /\ j \in DOMAIN saved /\ saved'[j] = saved[j]
      BY <3>1 DEF ImportInvariant, ImportedOnce, Whole
    <3>2. CASE k \in DOMAIN saved /\ saved'[k] = saved[k] /\ saved'[j] = new
      BY <2>5, <2>11, <3>2 DEF Whole
    <3>3. CASE saved'[k] = new /\ j \in DOMAIN saved /\ saved'[j] = saved[j]
      BY <2>5, <2>11, <3>3 DEF Whole
    <3> QED
      BY <2>7, <3>1, <3>2, <3>3
  <2> QED
    BY <1>7, <2>8, <2>9, <2>10, <2>12 DEF ImportInvariant
<1> QED
  BY <1>1, <1>8, <1>9

LEMMA NextKeeps ==
  ASSUME ImportInvariant, [Next]_vars
  PROVE  ImportInvariant'
<1>1. Items(pending) /\ todo \subseteq DOMAIN pending
  BY DEF ImportInvariant, TypeOK, Items, Complete
<1>2. step \in {"idle", "file", "locked"} =>
        \A k \in DOMAIN saved : ~(saved[k].by = "importing" /\ Whole(k))
  BY DEF ImportInvariant, Spent
<1>3. step \notin {"importing", "restoring"} => todo = {}
  BY DEF ImportInvariant, Idle
<1>4. Items(<<>>)
  BY DEF Items
<1>5. CASE Create \/ Export \/ Backup \/ Receive
  BY <1>1, <1>2, <1>3, <1>5, OutsideLoop DEF Create, Export, Backup, Receive
<1>6. CASE Choose \/ Unlock
  BY <1>1, <1>2, <1>3, <1>6, ParsedItems, OutsideLoop DEF Choose, Unlock
<1>7. CASE Run
  BY <1>1, <1>7, OutsideLoop DEF Run
<1>8. CASE Restore
  BY <1>2, <1>8, ParsedItems, OutsideLoop DEF Restore
<1>9. CASE Post
  BY <1>9, PostKeeps
<1>10. CASE Finish
  BY <1>4, <1>10, OutsideLoop DEF Finish, ImportInvariant, Spent
<1>11. CASE FinishFailed
  BY <1>1, <1>11, OutsideLoop DEF FinishFailed, ImportInvariant, Spent
<1>12. CASE UNCHANGED vars
  BY <1>1, <1>3, <1>12, OutsideLoop DEF vars, ImportInvariant, Spent
<1> QED
  BY <1>5, <1>6, <1>7, <1>8, <1>9, <1>10, <1>11, <1>12 DEF Next

LEMMA InitHolds == Init => ImportInvariant
<1> SUFFICES ASSUME Init PROVE ImportInvariant
  OBVIOUS
<1>1. DOMAIN saved = {} /\ DOMAIN pending = {} /\ saved \in Seq(ToSet(saved))
  BY DEF Init
<1> QED
  BY <1>1 DEF Init, ImportInvariant, TypeOK, Idle, Listing, Spent, ImportedOnce

-----------------------------------------------------------------------------
(* Theorems.                                                                *)

\* The loop posts what the preview shows, and whatever a file holds, an imported
\* secret has a title (import-parse.js normalizeItem).
THEOREM ImportTypes == Spec => []TypeOK
<1>1. ImportInvariant => TypeOK
  BY DEF ImportInvariant
<1> QED
  BY <1>1, InitHolds, NextKeeps, PTL DEF Spec

\* However often the import button is clicked again after a list that did not load,
\* no item of the preview is posted in full twice: it is wiped as soon as it is
\* posted (app.js importNormalizedItems, simportRun).
THEOREM NothingImportedTwice == Spec => []ImportedOnce
<1>1. ImportInvariant => ImportedOnce
  BY DEF ImportInvariant
<1> QED
  BY <1>1, InitHolds, NextKeeps, PTL DEF Spec

-----------------------------------------------------------------------------
(* What the loops post comes from the file, and the file from the rows.     *)

Rows == [title : Words, folder : Text, payload : FormPayloads]

\* What the file holds, however it is opened.
Opened == IF file.format = "teamvault-backup" THEN Unwrapped(file) ELSE Parsed(file)

OwnFormats == {"teamvault-export", "bitwarden-json", "csv"}

\* The rows are what the forms make.  A file is made of them, or comes from
\* another program and then there are none of it.
Origin ==
  /\ rows \in Seq(Rows)
  /\ step = "idle" => file = NoFile /\ logins = <<>> /\ pending = <<>> /\ saved = <<>>
  /\ step # "idle" =>
       \/ logins = <<>> /\ rows # <<>> /\ (file = Wrapped \/ \E format \in OwnFormats : file = Written(format))
       \/ logins # <<>> /\ file.format \notin Own \cup {"bitwarden-json"}
  /\ step = "locked" => file.format = "teamvault-backup"

\* The preview shows the items of the file, those that were posted without
\* their secrets.
Shown == \A i \in DOMAIN pending : i \in DOMAIN Opened /\ pending[i] \in {Opened[i], Wiped(Opened[i])}

\* What was posted in full is the import of an item of the file.
Posted ==
  \A k \in DOMAIN saved :
    saved[k].of \in DOMAIN Opened /\ (Whole(k) => saved[k].secret = Imported(Opened[saved[k].of]))

FileInvariant == Origin /\ Shown /\ Posted

LEMMA MadeRow ==
  ASSUME NEW f \in Forms, NEW folder \in Folders, Trim(f.title) # <<>>
  PROVE  [title |-> Trim(f.title), folder |-> folder,
          payload |-> NormalizeSecretPayload(CollectPayload(AddAll(f.slots), f.core))] \in Rows
<1>1. f.title \in Text /\ f.slots \in Seq(SlotRow) /\ f.core \in Cores /\ folder \in Text
  BY ImportExportAssumption DEF FormRow, Cores
<1>2. Trim(f.title) \in Words
  BY <1>1, TrimTrims DEF Words
<1>3. CollectPayload(AddAll(f.slots), f.core) \in FormPayloads
  BY <1>1, AddAllType, CollectedPayload
<1>4. NormalizeSecretPayload(CollectPayload(AddAll(f.slots), f.core)) = CollectPayload(AddAll(f.slots), f.core)
  BY <1>3, NormalPayload DEF FormPayloads
<1> QED
  BY <1>1, <1>2, <1>3, <1>4 DEF Rows

LEMMA CreateFiles ==
  ASSUME FileInvariant, Create
  PROVE  FileInvariant'
<1>1. PICK f \in Forms, folder \in Folders :
        /\ Trim(f.title) # <<>>
        /\ rows' = Append(rows, [title |-> Trim(f.title), folder |-> folder, payload |->
                        NormalizeSecretPayload(CollectPayload(AddAll(f.slots), f.core))])
  BY DEF Create
<1>2. rows \in Seq(Rows) /\ step = "idle" /\ UNCHANGED <<logins, file, pending, saved, step>>
  BY DEF Create, FileInvariant, Origin
<1>3. rows' \in Seq(Rows)
  BY <1>1, <1>2, MadeRow
<1>4. file = NoFile /\ logins = <<>> /\ pending = <<>> /\ saved = <<>>
  BY <1>2 DEF FileInvariant, Origin
<1>5. Origin'
  BY <1>2, <1>3, <1>4 DEF Origin
<1>6. Shown' /\ Posted'
  BY <1>2, <1>4 DEF Shown, Posted
<1> QED
  BY <1>5, <1>6 DEF FileInvariant

LEMMA FilesMade ==
  ASSUME FileInvariant, Export \/ Backup \/ Receive
  PROVE  FileInvariant'
<1>1. rows \in Seq(Rows) /\ step = "idle" /\ step' = "file" /\ UNCHANGED <<rows, pending, saved>>
  BY DEF Export, Backup, Receive, FileInvariant, Origin
<1>2. logins = <<>> /\ pending = <<>> /\ saved = <<>>
  BY <1>1 DEF FileInvariant, Origin
<1>3. Shown' /\ Posted'
  BY <1>1, <1>2 DEF Shown, Posted
<1>4. CASE Export
  <2>1. PICK format \in OwnFormats : file' = Written(format)
    BY <1>4 DEF Export, OwnFormats
  <2>2. Written(format)' = Written(format)
    BY <1>1 DEF Written, ExportItems
  <2>3. rows # <<>>
    BY <1>4 DEF Export
  <2>4. UNCHANGED logins
    BY <1>4 DEF Export
  <2> QED
    BY <1>1, <1>2, <1>3, <2>1, <2>2, <2>3, <2>4 DEF FileInvariant, Origin
<1>5. CASE Backup
  <2>1. file' = Wrapped /\ UNCHANGED logins /\ rows # <<>>
    BY <1>5 DEF Backup
  <2>2. Wrapped' = Wrapped
    BY <1>1 DEF Wrapped, ExportItems
  <2> QED
    BY <1>1, <1>2, <1>3, <2>1, <2>2 DEF FileInvariant, Origin
<1>6. CASE Receive
  <2>1. PICK l \in Logins, program \in Programs :
          logins' = <<[program |-> program, login |-> l]>> /\ file' = ForeignFile(program, l)
    BY <1>6 DEF Receive
  <2>2. ForeignFile(program, l).format \in {"csv", "keepass-xml", "proton-pass", "1password-pux"}
    <3>1. CASE program \in DOMAIN Layout
      BY <3>1 DEF ForeignFile, File
    <3>2. CASE program \in {"keepass", "proton", "pux"}
      <4>1. DOMAIN Layout = {"chrome", "firefox", "lastpass", "onepassword", "keepassxc"}
        BY DEF Layout
      <4> QED
        BY <3>2, <4>1 DEF ForeignFile, File
    <3> QED
      BY <3>1, <3>2 DEF Programs
  <2>3. logins' # <<>>
    BY <2>1
  <2> QED
    BY <1>1, <1>3, <2>1, <2>2, <2>3 DEF FileInvariant, Origin, Own
<1> QED
  BY <1>4, <1>5, <1>6

\* Opening the file again leaves the rows and the file as they are.
LEMMA OpenedStays ==
  ASSUME UNCHANGED <<rows, logins, file>>
  PROVE  /\ Opened' = Opened /\ Wrapped' = Wrapped
         /\ \A format : Written(format)' = Written(format)
BY DEF Opened, Wrapped, Written, ExportItems, Unwrapped, Parsed

LEMMA DialogueFiles ==
  ASSUME FileInvariant, step # "idle", step' # "idle", UNCHANGED <<rows, logins, file, saved>>,
         pending' \in {pending, Opened, <<>>}, step' = "locked" => file.format = "teamvault-backup"
  PROVE  FileInvariant'
<1>1. Origin'
  <2> SUFFICES /\ rows' \in Seq(Rows)
               /\ \/ logins' = <<>> /\ rows' # <<>> /\ (file' = Wrapped' \/ \E format \in OwnFormats : file' = Written(format)')
                  \/ logins' # <<>> /\ file'.format \notin Own \cup {"bitwarden-json"}
               /\ step' = "locked" => file'.format = "teamvault-backup"
    BY DEF Origin
  <2> QED
    BY OpenedStays DEF FileInvariant, Origin
<1>2. Shown'
  BY OpenedStays DEF FileInvariant, Shown
<1>3. Posted'
  BY OpenedStays DEF FileInvariant, Posted, Whole
<1> QED
  BY <1>1, <1>2, <1>3 DEF FileInvariant

LEMMA PostFiles ==
  ASSUME ImportInvariant, FileInvariant, Post
  PROVE  FileInvariant'
<1>1. PICK i \in todo :
        /\ saved' \in {saved, Append(saved, [of |-> i, by |-> step, secret |-> Imported(pending[i])])}
        /\ pending' = [pending EXCEPT ![i] = Wiped(@)]
  BY DEF Post
<1>2. step # "idle" /\ step # "locked" /\ UNCHANGED <<rows, logins, file, step>>
  BY DEF Post
<1>3. /\ i \in DOMAIN pending /\ DOMAIN pending = DOMAIN pending' /\ Complete(pending[i])
      /\ pending'[i] = Wiped(pending[i]) /\ \A j \in DOMAIN pending : j # i => pending'[j] = pending[j]
  BY <1>1 DEF ImportInvariant, TypeOK, Complete
<1>4. \A it : Wiped(Wiped(it)) = Wiped(it)
  BY DEF Wiped
<1>5. Origin'
  <2> SUFFICES /\ rows' \in Seq(Rows)
               /\ \/ logins' = <<>> /\ rows' # <<>> /\ (file' = Wrapped' \/ \E format \in OwnFormats : file' = Written(format)')
                  \/ logins' # <<>> /\ file'.format \notin Own \cup {"bitwarden-json"}
    BY <1>2 DEF Origin
  <2> QED
    BY <1>2, OpenedStays DEF FileInvariant, Origin
<1>6. Shown'
  <2> SUFFICES ASSUME NEW j \in DOMAIN pending
               PROVE  j \in DOMAIN Opened /\ pending'[j] \in {Opened[j], Wiped(Opened[j])}
    BY <1>2, <1>3, OpenedStays DEF Shown
  <2>1. j \in DOMAIN Opened /\ pending[j] \in {Opened[j], Wiped(Opened[j])}
    BY DEF FileInvariant, Shown
  <2> QED
    BY <1>3, <1>4, <2>1
<1>7. Posted'
  <2>1. CASE saved' = saved
    BY <1>2, <2>1, OpenedStays DEF FileInvariant, Posted, Whole
  <2>2. CASE saved' = Append(saved, [of |-> i, by |-> step, secret |-> Imported(pending[i])])
    <3> DEFINE new == [of |-> i, by |-> step, secret |-> Imported(pending[i])]
               n == Len(saved)
               S == ToSet(saved) \cup {new}
    <3>1. saved \in Seq(S) /\ new \in S /\ n \in Nat
      BY DEF ImportInvariant, Listing
    <3>2. saved' \in Seq(S) /\ Len(saved') = n + 1 /\ saved'[n + 1] = new
      BY <2>2, <3>1
    <3>3. \A k \in 1 .. n : saved'[k] = saved[k]
      BY <2>2, <3>1
    <3>4. DOMAIN saved = 1 .. n /\ DOMAIN saved' = 1 .. (n + 1)
      BY <3>1, <3>2
    <3>5. i \in DOMAIN Opened /\ (pending[i] = Opened[i] \/ pending[i] = Wiped(Opened[i]))
      BY <1>3 DEF FileInvariant, Shown
    <3>6. new.of = i /\ new.secret = Imported(pending[i])
      OBVIOUS
    <3> HIDE DEF new, n, S
    <3>7. new.secret.payload.password # <<>> => new.secret = Imported(Opened[i])
      <4>1. CASE pending[i] = Opened[i]
        BY <3>6, <4>1
      <4>2. CASE pending[i] = Wiped(Opened[i])
        <5>1. Complete(Wiped(Opened[i]))
          BY <1>3, <4>2
        <5>2. Wiped(Opened[i]) = Wiped(Wiped(Opened[i]))
          BY <1>4
        <5>3. Wiped(Opened[i]).password = <<>>
          BY <5>1, <5>2, WipedItem
        <5> QED
          BY <3>6, <4>2, <5>3, ImportedItem
      <4> QED
        BY <3>5, <4>1, <4>2
    <3>8. \A k \in DOMAIN saved' : \/ k \in DOMAIN saved /\ saved'[k] = saved[k]
                                   \/ k = n + 1 /\ saved'[k] = new
      <4>1. \A k \in 1 .. (n + 1) : k \in 1 .. n \/ k = n + 1
        BY <3>1
      <4> QED
        BY <3>2, <3>3, <3>4, <4>1
    <3> SUFFICES ASSUME NEW k \in DOMAIN saved'
                 PROVE  /\ saved'[k].of \in DOMAIN Opened
                        /\ saved'[k].secret.payload.password # <<>> => saved'[k].secret = Imported(Opened[saved'[k].of])
      BY <1>2, OpenedStays DEF Posted, Whole
    <3>9. CASE k \in DOMAIN saved /\ saved'[k] = saved[k]
      BY <3>9 DEF FileInvariant, Posted, Whole
    <3>10. CASE saved'[k] = new
      BY <3>5, <3>6, <3>7, <3>10
    <3> QED
      BY <3>8, <3>9, <3>10
  <2> QED
    BY <1>1, <2>1, <2>2
<1> QED
  BY <1>5, <1>6, <1>7 DEF FileInvariant

LEMMA NextFiles ==
  ASSUME ImportInvariant, FileInvariant, [Next]_vars
  PROVE  FileInvariant'
<1>1. CASE Create
  BY <1>1, CreateFiles
<1>2. CASE Export \/ Backup \/ Receive
  BY <1>2, FilesMade
<1>3. CASE Choose
  BY <1>3, DialogueFiles DEF Choose, Opened
<1>4. CASE Unlock
  <2>1. file.format = "teamvault-backup"
    BY <1>4 DEF Unlock, FileInvariant, Origin
  <2> QED
    BY <1>4, <2>1, DialogueFiles DEF Unlock, Opened
<1>5. CASE Run
  BY <1>5, DialogueFiles DEF Run
<1>6. CASE Restore
  BY <1>6, DialogueFiles DEF Restore, Opened
<1>7. CASE Post
  BY <1>7, PostFiles
<1>8. CASE Finish
  BY <1>8, DialogueFiles DEF Finish
<1>9. CASE FinishFailed
  BY <1>9, DialogueFiles DEF FinishFailed
<1>10. CASE UNCHANGED vars
  <2>1. CASE step = "idle"
    <3>1. file' = NoFile /\ logins' = <<>> /\ pending' = <<>> /\ saved' = <<>> /\ rows' \in Seq(Rows) /\ step' = "idle"
      BY <1>10, <2>1 DEF vars, FileInvariant, Origin
    <3>2. Shown' /\ Posted'
      BY <3>1 DEF Shown, Posted
    <3> QED
      BY <3>1, <3>2 DEF FileInvariant, Origin
  <2>2. CASE step # "idle"
    BY <1>10, <2>2, DialogueFiles DEF vars, FileInvariant, Origin
  <2> QED
    BY <2>1, <2>2
<1> QED
  BY <1>1, <1>2, <1>3, <1>4, <1>5, <1>6, <1>7, <1>8, <1>9, <1>10 DEF Next

LEMMA FilesInvariant == Spec => [](ImportInvariant /\ FileInvariant)
<1>1. Init => FileInvariant
  <2> SUFFICES ASSUME Init PROVE FileInvariant
    OBVIOUS
  <2>1. rows \in Seq(Rows) /\ DOMAIN saved = {} /\ DOMAIN pending = {}
    BY DEF Init
  <2> QED
    BY <2>1 DEF Init, FileInvariant, Origin, Shown, Posted
<1> QED
  BY <1>1, InitHolds, NextKeeps, NextFiles, PTL DEF Spec

-----------------------------------------------------------------------------
(* What comes back.                                                         *)

\* The payload of a row with its folder among the tags.
Whither(r) == MergeFolderIntoTags(r.payload, r.folder)

LEMMA ExportedRows ==
  ASSUME rows \in Seq(Rows)
  PROVE  /\ DOMAIN ExportItems = DOMAIN rows
         /\ \A i \in DOMAIN rows :
              /\ rows[i] \in Rows /\ Whither(rows[i]) \in Payloads
              /\ ExportItems[i] = ExportItem(rows[i].title, Whither(rows[i]))
<1>1. \A i \in DOMAIN rows : rows[i] \in Rows
  OBVIOUS
<1>2. DOMAIN ExportItems = DOMAIN rows
  BY DEF ExportItems
<1>3. ASSUME NEW i \in DOMAIN rows
      PROVE  Whither(rows[i]) \in Payloads /\ ExportItems[i] = ExportItem(rows[i].title, Whither(rows[i]))
  <2>1. rows[i].payload \in Payloads /\ rows[i].folder \in Text
    BY <1>1 DEF Rows, FormPayloads
  <2>2. NormalizeSecretPayload(rows[i].payload) = rows[i].payload
    BY <2>1, NormalPayload
  <2> QED
    BY <2>1, <2>2, FolderMerged DEF ExportItems, Whither
<1> QED
  BY <1>1, <1>2, <1>3

LEMMA RestoredRows ==
  ASSUME FileInvariant
  PROVE  BackupRestores
<1> SUFFICES ASSUME file.format \in Own, NEW k \in DOMAIN saved, Whole(k)
             PROVE  saved[k].secret = Kept(rows[saved[k].of])
  BY DEF BackupRestores
<1> DEFINE i == saved[k].of
<1>1. i \in DOMAIN Opened /\ saved[k].secret = Imported(Opened[i])
  BY DEF FileInvariant, Posted
<1>2. rows \in Seq(Rows) /\ step # "idle"
  BY DEF FileInvariant, Origin
<1>3. file = Wrapped \/ \E format \in OwnFormats : file = Written(format)
  BY <1>2 DEF FileInvariant, Origin
<1>4. file.items = ExportItems
  BY <1>3 DEF Wrapped, Written, File, Own, OwnFormats
<1>5. Opened = [j \in DOMAIN file.items |-> NormalizeItem(file.items[j])]
  BY DEF Opened, Unwrapped, Parsed, Own
<1>6. i \in DOMAIN rows /\ Opened[i] = NormalizeItem(ExportItem(rows[i].title, Whither(rows[i])))
  BY <1>1, <1>2, <1>4, <1>5, ExportedRows
<1>7. rows[i].title \in Words /\ Whither(rows[i]) \in Payloads
  BY <1>2, <1>6, ExportedRows DEF Rows
<1>8. saved[k].secret = [title |-> rows[i].title, payload |-> Whither(rows[i])]
  BY <1>1, <1>6, <1>7, ItemComesBack
<1> QED
  BY <1>8 DEF Kept, Whither

\* For any forms, folders and texts: whatever a backup or an export of the vault's
\* own format brings back is the secret the form made, extra fields included, with
\* its folder among the tags (vault-io.js toExportItems, app.js importNormalizedItems).
THEOREM BackupsRestore == Spec => []BackupRestores
BY FilesInvariant, RestoredRows, PTL

-----------------------------------------------------------------------------
(* A Bitwarden file.                                                        *)

\* An entry of the file as parseBitwarden reads it.
ReadBitwarden(b) ==
  NormalizeItem([title |-> b.name, username |-> b.login.username, password |-> b.login.password,
                 urls |-> NotEmpty(b.login.uris), notes |-> b.notes, totp_seed |-> b.login.totp,
                 folder |-> b.folder, favorite |-> b.favorite])

LEMMA NotEmptyWords ==
  ASSUME NEW ts \in Seq(Words)
  PROVE  NotEmpty(ts) = ts
<1>1. Words \cap {<<>>} = {}
  BY DEF Words
<1> HIDE DEF Words
<1> QED
  BY <1>1, WithoutNone DEF NotEmpty

LEMMA BitwardenComesBack ==
  ASSUME NEW title \in Words, NEW p \in Payloads
  PROVE  LET s == Imported(ReadBitwarden(BitwardenItem(ExportItem(title, p))))
         IN s.title = title /\ \A f \in Names : s.payload[f] = p[f]
<1> DEFINE e == ExportItem(title, p)
           b == BitwardenItem(e)
           raw == [title |-> b.name, username |-> b.login.username, password |-> b.login.password,
                   urls |-> NotEmpty(b.login.uris), notes |-> b.notes, totp_seed |-> b.login.totp,
                   folder |-> b.folder, favorite |-> b.favorite]
           r == [f \in DOMAIN Blank |-> IF f \in DOMAIN raw THEN raw[f] ELSE Blank[f]]
           it == NormalizeItem(raw)
           s == Imported(it)
<1>1. DOMAIN p = {"username", "password", "urls", "totp_seed", "notes", "tags", "favorite", "extra"}
      /\ p.urls \in Seq(Words) /\ p.totp_seed \in Trimmed
  BY DEF Payloads
<1>2. e = [f \in DOMAIN p \cup {"title"} |-> IF f = "title" THEN title ELSE p[f]]
  BY DEF ExportItem
<1> HIDE DEF e
<1>3. e.title = title /\ \A f \in DOMAIN p : e[f] = p[f]
  BY <1>1, <1>2
<1>4. b = [type |-> 1, name |-> title, folder |-> <<>>, favorite |-> p.favorite, notes |-> p.notes,
           login |-> [username |-> p.username, password |-> p.password, totp |-> p.totp_seed, uris |-> p.urls]]
  BY <1>1, <1>3 DEF BitwardenItem
<1> HIDE DEF b
<1>5. NotEmpty(p.urls) = p.urls /\ NotEmpty(TrimAll(p.urls)) = p.urls /\ Trim(p.totp_seed) = p.totp_seed
  BY <1>1, NotEmptyWords, CleanStays, TrimKeeps
<1>6. raw = [title |-> title, username |-> p.username, password |-> p.password, urls |-> p.urls, notes |-> p.notes,
             totp_seed |-> p.totp_seed, folder |-> <<>>, favorite |-> p.favorite]
  BY <1>4, <1>5
<1> HIDE DEF raw
<1>7. DOMAIN Blank = {"title", "username", "password", "urls", "notes", "totp_seed", "tags", "favorite",
                  "folder", "extra"}
  BY DEF Blank
<1>8. DOMAIN raw = {"title", "username", "password", "urls", "notes", "totp_seed", "folder", "favorite"}
  BY <1>6
<1>9. DOMAIN r = DOMAIN Blank /\ \A f \in DOMAIN raw : r[f] = raw[f]
  BY <1>7, <1>8
<1> HIDE DEF r
<1>10. Trim(title) = title /\ title # <<>>
  BY TrimKeeps DEF Words
<1>11. it = [r EXCEPT !.title = OrElse(Trim(@), <<"Import">>), !.urls = NotEmpty(TrimAll(@)),
                      !.totp_seed = Trim(@), !.folder = Trim(@)]
  BY DEF NormalizeItem, r
<1>12. /\ it.title = title /\ it.username = p.username /\ it.password = p.password /\ it.urls = p.urls
       /\ it.notes = p.notes /\ it.totp_seed = p.totp_seed /\ it.favorite = p.favorite
  <2>1. OrElse(Trim(title), <<"Import">>) = title
    BY <1>10 DEF OrElse
  <2> HIDE DEF it
  <2> QED
    BY <1>5, <1>6, <1>7, <1>8, <1>9, <1>11, <2>1
<1> HIDE DEF it
<1>13. s.title = it.title /\ s.payload = NormalizeSecretPayload(
        [username |-> it.username, password |-> it.password, urls |-> it.urls, notes |-> it.notes,
         totp_seed |-> it.totp_seed, tags |-> MergeTags(it.tags, ParseTagsInput(it.folder)),
         favorite |-> it.favorite, extra |-> it.extra])
  BY DEF Imported
<1> HIDE DEF s
<1>14. /\ s.payload.username = it.username /\ s.payload.password = it.password
       /\ s.payload.urls = NotEmpty(TrimAll(it.urls)) /\ s.payload.notes = it.notes
       /\ s.payload.totp_seed = Trim(it.totp_seed) /\ s.payload.favorite = it.favorite
  BY <1>13 DEF NormalizeSecretPayload
<1>15. s.title = title /\ \A f \in Names : s.payload[f] = p[f]
  BY <1>5, <1>12, <1>13, <1>14 DEF Names
<1> QED
  BY <1>15 DEF s, it, raw, b, e, ReadBitwarden

\* Every entry of a file of ours is a login and is read.
Entries == {BitwardenItem(ExportItems[j]) : j \in DOMAIN rows}

LEMMA LoginsRead ==
  ASSUME NEW n \in Nat, NEW q \in [1 .. n -> Entries]
  PROVE  ParseBitwarden(q) = [i \in 1 .. n |-> ReadBitwarden(q[i])]
<1> DEFINE T == Entries
           S == {it \in ToSet(q) : it.type # 1}
<1>1. \A b \in T : b.type = 1
  BY DEF BitwardenItem, Entries
<1> HIDE DEF T
<1>2. q \in Seq(T) /\ Len(q) = n
  BY ListedSeq DEF T
<1>3. T \cap S = {}
  BY <1>1
<1>4. Without(q, S) = q
  <2> HIDE DEF S
  <2> QED
    BY <1>2, <1>3, WithoutNone
<1>5. DOMAIN q = 1 .. n
  OBVIOUS
<1> QED
  BY <1>4, <1>5 DEF ParseBitwarden, ReadBitwarden

LEMMA BitwardenRows ==
  ASSUME FileInvariant
  PROVE  BitwardenKeeps
<1> SUFFICES ASSUME file.format = "bitwarden-json", NEW k \in DOMAIN saved, Whole(k)
             PROVE  LET r == rows[saved[k].of]
                        s == saved[k].secret
                    IN s.title = r.title /\ \A f \in Names : s.payload[f] = r.payload[f]
  BY DEF BitwardenKeeps
<1> DEFINE i == saved[k].of
           q == file.items
<1>1. i \in DOMAIN Opened /\ saved[k].secret = Imported(Opened[i])
  BY DEF FileInvariant, Posted
<1>2. rows \in Seq(Rows) /\ step # "idle"
  BY DEF FileInvariant, Origin, NoFile, File
<1>3. file = Written("bitwarden-json")
  BY <1>2 DEF FileInvariant, Origin, Wrapped, Written, File, Own, OwnFormats
<1>4. q = [j \in DOMAIN rows |-> BitwardenItem(ExportItems[j])]
  BY <1>3 DEF Written, File
<1>5. Opened = ParseBitwarden(q)
  BY DEF Opened, Parsed
<1>6. Len(rows) \in Nat /\ DOMAIN rows = 1 .. Len(rows)
  BY <1>2
<1> HIDE DEF q
<1>7. ParseBitwarden(q) = [j \in 1 .. Len(rows) |-> ReadBitwarden(q[j])]
  <2>1. \A j \in DOMAIN rows : q[j] \in Entries
    BY <1>4 DEF Entries
  <2>2. q \in [1 .. Len(rows) -> Entries]
    BY <1>4, <1>6, <2>1
  <2> QED
    BY <1>6, <2>2, LoginsRead
<1>8. i \in DOMAIN rows /\ Opened[i] = ReadBitwarden(BitwardenItem(ExportItem(rows[i].title, Whither(rows[i]))))
  BY <1>1, <1>2, <1>4, <1>5, <1>6, <1>7, ExportedRows
<1>9. rows[i].title \in Words /\ Whither(rows[i]) \in Payloads
  BY <1>2, <1>8, ExportedRows DEF Rows
<1>10. saved[k].secret.title = rows[i].title /\ \A f \in Names : saved[k].secret.payload[f] = Whither(rows[i])[f]
  BY <1>1, <1>8, <1>9, BitwardenComesBack
<1>11. \A f \in Names : Whither(rows[i])[f] = rows[i].payload[f]
  <2>1. rows[i].payload \in Payloads
    <3>1. rows[i] \in Rows
      BY <1>2, <1>8, ExportedRows
    <3> HIDE DEF i
    <3> QED
      BY <3>1 DEF Rows, FormPayloads
  <2>2. DOMAIN rows[i].payload = Names \cup {"password", "username", "tags", "extra"}
    BY <2>1 DEF Payloads, Names
  <2>3. \A f \in Names : f # "tags"
    BY DEF Names
  <2> QED
    BY <2>2, <2>3 DEF Whither, MergeFolderIntoTags
<1> QED
  BY <1>10, <1>11

-----------------------------------------------------------------------------
(* A row of a CSV file, as splitRow reads it.                               *)

\* What splitRow has in hand.
Reading(cs, quoted, escape) == [cells |-> cs, quoted |-> quoted, escape |-> escape]

LEMMA ReadingSteps ==
  ASSUME NEW T, NEW cs \in Parts(T), NEW c \in T
  PROVE  /\ c = "q" => /\ Scan(Reading(cs, TRUE, FALSE), c) = Reading(cs, FALSE, TRUE)
                       /\ Scan(Reading(cs, FALSE, TRUE), c) = Reading(Typed(cs, c), TRUE, FALSE)
                       /\ Scan(Reading(cs, FALSE, FALSE), c) = Reading(cs, TRUE, FALSE)
         /\ c # "q" => Scan(Reading(cs, TRUE, FALSE), c) = Reading(Typed(cs, c), TRUE, FALSE)
         /\ c = "comma" => Scan(Reading(cs, FALSE, TRUE), c) = Reading(Append(cs, <<>>), FALSE, FALSE)
<1>1. ASSUME c = "q"
      PROVE  Scan(Reading(cs, TRUE, FALSE), c) = Reading(cs, FALSE, TRUE)
  BY <1>1 DEF Scan, Reading
<1>2. ASSUME c = "q"
      PROVE  Scan(Reading(cs, FALSE, TRUE), c) = Reading(Typed(cs, c), TRUE, FALSE)
  BY <1>2 DEF Scan, Reading, Typed
<1>3. ASSUME c = "q"
      PROVE  Scan(Reading(cs, FALSE, FALSE), c) = Reading(cs, TRUE, FALSE)
  BY <1>3 DEF Scan, Reading
<1>4. ASSUME c # "q"
      PROVE  Scan(Reading(cs, TRUE, FALSE), c) = Reading(Typed(cs, c), TRUE, FALSE)
  BY <1>4 DEF Scan, Reading, Typed
<1>5. ASSUME c = "comma"
      PROVE  Scan(Reading(cs, FALSE, TRUE), c) = Reading(Append(cs, <<>>), FALSE, FALSE)
  BY <1>5 DEF Scan, Reading
<1> QED
  BY <1>1, <1>2, <1>3, <1>4, <1>5

LEMMA DoubledStep ==
  ASSUME NEW T, NEW line \in Seq(T), NEW v \in Seq(T), NEW e \in T
  PROVE  /\ line \o Doubled(v) \in Seq(T)
         /\ line \o Doubled(Append(v, e)) =
              IF e = "q" THEN Append(Append(line \o Doubled(v), e), e) ELSE Append(line \o Doubled(v), e)
<1> DEFINE d == Doubled(v)
<1>1. d \in Seq(T) /\ Doubled(Append(v, e)) = d \o (IF e = "q" THEN <<"q", "q">> ELSE <<e>>)
  BY DoubledAppend
<1> HIDE DEF d
<1>2. line \o d \in Seq(T) /\ Append(d, e) \in Seq(T)
  BY <1>1, ConcatProperties
<1>3. d \o <<e>> = Append(d, e) /\ line \o Append(d, e) = Append(line \o d, e)
  BY <1>1, AppendConcat
<1>4. line \o Append(Append(d, e), e) = Append(Append(line \o d, e), e)
  <2> DEFINE a == Append(d, e)
  <2>1. a \in Seq(T)
    BY <1>2
  <2> HIDE DEF a
  <2>2. line \o Append(a, e) = Append(line \o a, e)
    BY <2>1, AppendConcat
  <2> QED
    BY <1>3, <2>2 DEF a
<1>5. d \o <<e, e>> = Append(Append(d, e), e)
  <2> DEFINE w == <<e>>
  <2>1. w \in Seq(T) /\ <<e, e>> = Append(w, e)
    OBVIOUS
  <2> HIDE DEF w
  <2>2. d \o Append(w, e) = Append(d \o w, e)
    BY <1>1, <2>1, AppendConcat
  <2> QED
    BY <1>3, <2>1, <2>2 DEF w
<1>6. CASE e = "q"
  <2>1. Doubled(Append(v, e)) = d \o <<e, e>>
    BY <1>1, <1>6
  <2> QED
    BY <1>2, <1>4, <1>5, <1>6, <2>1 DEF d
<1>7. CASE e # "q"
  <2>1. Doubled(Append(v, e)) = d \o <<e>>
    BY <1>1, <1>7
  <2> QED
    BY <1>2, <1>3, <1>7, <2>1 DEF d
<1> QED
  BY <1>6, <1>7

\* Inside quotes a text is read as it is.
LEMMA ScanText ==
  ASSUME NEW T, NEW line \in Seq(T), NEW cs \in Parts(T), Scanned(line) = Reading(cs, TRUE, FALSE), NEW t \in Seq(T)
  PROVE  Scanned(line \o Doubled(t)) = Reading(Trail(cs, t), TRUE, FALSE)
<1> DEFINE P == {v \in Seq(T) : Scanned(line \o Doubled(v)) = Reading(Trail(cs, v), TRUE, FALSE)}
<1>1. <<>> \in P
  <2>1. line \o Doubled(<<>>) = line
    BY DoubledEmpty, ConcatEmptySeq
  <2>2. Trail(cs, <<>>) = cs
    BY TrailProperties
  <2>3. <<>> \in Seq(T)
    OBVIOUS
  <2> QED
    BY <2>1, <2>2, <2>3
<1>2. ASSUME NEW v \in Seq(T), NEW e \in T, v \in P PROVE Append(v, e) \in P
  <2> DEFINE w == line \o Doubled(v)
             q == Trail(cs, v)
             x == line \o Doubled(Append(v, e))
  <2>1. w \in Seq(T) /\ x = IF e = "q" THEN Append(Append(w, e), e) ELSE Append(w, e)
    BY DoubledStep
  <2>2. Scanned(w) = Reading(q, TRUE, FALSE)
    BY <1>2
  <2>3. q \in Parts(T) /\ Typed(q, e) = Trail(cs, Append(v, e))
    BY TrailProperties, TrailTrail
  <2> HIDE DEF w, q, x, P
  <2>4. Scanned(Append(w, e)) = Scan(Reading(q, TRUE, FALSE), e) /\ Append(w, e) \in Seq(T)
    <3>1. Scanned(Append(w, e)) = Scan(Scanned(w), e)
      BY <2>1, ScannedAppend
    <3> QED
      BY <2>1, <2>2, <3>1
  <2>5. Scanned(x) = Reading(Typed(q, e), TRUE, FALSE)
    <3>1. CASE e # "q"
      BY <2>1, <2>3, <2>4, <3>1, ReadingSteps
    <3>2. CASE e = "q"
      <4> DEFINE y == Append(w, e)
      <4>1. y \in Seq(T) /\ Scanned(y) = Reading(q, FALSE, TRUE)
        BY <2>3, <2>4, <3>2, ReadingSteps
      <4> HIDE DEF y
      <4>2. Scanned(Append(y, e)) = Scan(Reading(q, FALSE, TRUE), e)
        BY <4>1, ScannedAppend
      <4>3. Scan(Reading(q, FALSE, TRUE), e) = Reading(Typed(q, e), TRUE, FALSE)
        BY <2>3, <3>2, ReadingSteps
      <4> QED
        BY <2>1, <3>2, <4>2, <4>3 DEF y
    <3> QED
      BY <3>1, <3>2
  <2>6. Append(v, e) \in Seq(T) /\ Scanned(line \o Doubled(Append(v, e))) = Reading(Trail(cs, Append(v, e)), TRUE, FALSE)
    BY <2>3, <2>5 DEF x
  <2> QED
    BY <2>6 DEF P
<1> HIDE DEF P
<1>3. Seq(T) \subseteq P
  BY <1>1, <1>2, SeqInduct
<1> QED
  BY <1>3 DEF P

\* A cell in quotes: the last cell goes on with the text.
LEMMA ScanCell ==
  ASSUME NEW T, "q" \in T, NEW line \in Seq(T), NEW cs \in Parts(T), Scanned(line) = Reading(cs, FALSE, FALSE), NEW t \in Seq(T)
  PROVE  Scanned(line \o CsvEscape(t)) = Reading(Trail(cs, t), FALSE, TRUE)
<1> DEFINE w == <<"q">>
           d == Doubled(t)
           y == Append(line, "q")
<1>1. w \in Seq(T) /\ d \in Seq(T) /\ y \in Seq(T)
  BY DoubledType
<1>2. CsvEscape(t) = w \o d \o w
  BY DEF CsvEscape
<1>3. line \o w = y
  BY AppendConcat
<1>4. Scanned(y) = Reading(cs, TRUE, FALSE)
  <2>1. Scanned(y) = Scan(Reading(cs, FALSE, FALSE), "q")
    BY ScannedAppend
  <2>2. Scan(Reading(cs, FALSE, FALSE), "q") = Reading(cs, TRUE, FALSE)
    BY ReadingSteps
  <2> QED
    BY <2>1, <2>2
<1> HIDE DEF d, y
<1>5. Scanned(y \o d) = Reading(Trail(cs, t), TRUE, FALSE)
  BY <1>1, <1>4, ScanText DEF d
<1>6. y \o d \in Seq(T) /\ w \o d \in Seq(T) /\ Trail(cs, t) \in Parts(T)
  BY <1>1, ConcatProperties, TrailProperties
<1>7. Scanned(Append(y \o d, "q")) = Reading(Trail(cs, t), FALSE, TRUE)
  <2> DEFINE z == y \o d
  <2>1. z \in Seq(T) /\ Scanned(z) = Reading(Trail(cs, t), TRUE, FALSE)
    BY <1>5, <1>6
  <2> HIDE DEF z
  <2>2. Scanned(Append(z, "q")) = Scan(Reading(Trail(cs, t), TRUE, FALSE), "q")
    BY <2>1, ScannedAppend
  <2> QED
    BY <1>6, <2>2, ReadingSteps DEF z
<1>8. line \o CsvEscape(t) = Append(y \o d, "q")
  <2>1. (y \o d) \o w = Append(y \o d, "q")
    <3> DEFINE z == y \o d
    <3>1. z \in Seq(T)
      BY <1>6
    <3> HIDE DEF z
    <3> QED
      BY <3>1, AppendConcat DEF z
  <2>2. (line \o w) \o d = line \o (w \o d)
    <3>1. w \in Seq(T) /\ d \in Seq(T)
      BY <1>1
    <3> HIDE DEF w
    <3> QED
      BY <3>1, ConcatAssociative
  <2> HIDE DEF w
  <2>3. line \o (w \o d \o w) = (line \o (w \o d)) \o w
    <3> DEFINE z == w \o d
    <3>1. z \in Seq(T)
      BY <1>6
    <3> HIDE DEF z
    <3>2. (line \o z) \o w = line \o (z \o w)
      BY <1>1, <3>1, ConcatAssociative
    <3> QED
      BY <3>2 DEF z
  <2> QED
    BY <1>2, <1>3, <2>1, <2>2, <2>3
<1> QED
  BY <1>7, <1>8

\* The cells of a row in quotes, and the row.
Escaped(cs) == [j \in DOMAIN cs |-> CsvEscape(cs[j])]
RowText(cs) == Join(Escaped(cs), <<"comma">>)

LEMMA EscapedAppend ==
  ASSUME NEW T, "q" \in T, NEW cs \in Seq(Seq(T)), NEW e \in Seq(T)
  PROVE  /\ Escaped(cs) \in Seq(Seq(T)) /\ Len(Escaped(cs)) = Len(cs) /\ CsvEscape(e) \in Seq(T)
         /\ Escaped(Append(cs, e)) = Append(Escaped(cs), CsvEscape(e))
<1> DEFINE D == Seq(T)
           n == Len(cs)
           u == Append(cs, e)
           l == Escaped(u)
           s == Escaped(cs)
           b == CsvEscape(e)
           r == Append(s, b)
<1>0. \A t \in D : CsvEscape(t) \in D
  <2> SUFFICES ASSUME NEW t \in D PROVE CsvEscape(t) \in D
    OBVIOUS
  <2>1. Doubled(t) \in Seq(T) /\ <<"q">> \in Seq(T)
    BY DoubledType
  <2> QED
    BY <2>1, ConcatProperties DEF CsvEscape
<1>1. n \in Nat /\ DOMAIN cs = 1 .. n /\ cs \in Seq(D) /\ e \in D /\ \A i \in 1 .. n : cs[i] \in D
  OBVIOUS
<1> HIDE DEF D
<1>2. u \in Seq(D) /\ DOMAIN u = 1 .. n + 1 /\ u[n + 1] = e /\ \A i \in 1 .. n : u[i] = cs[i]
  BY <1>1, AppendProperties, LenProperties
<1> HIDE DEF u
<1>3. l = [i \in 1 .. n + 1 |-> CsvEscape(u[i])] /\ s = [i \in 1 .. n |-> CsvEscape(cs[i])]
  BY <1>1, <1>2 DEF Escaped
<1>4. \A i \in 1 .. n + 1 : u[i] \in D
  BY <1>2
<1>5. s \in [1 .. n -> D] /\ l \in [1 .. n + 1 -> D] /\ b \in D
  BY <1>0, <1>1, <1>3, <1>4
<1> HIDE DEF l, s, b
<1>6. s \in Seq(D) /\ Len(s) = n /\ l \in Seq(D) /\ Len(l) = n + 1
  <2>1. n \in Nat /\ n + 1 \in Nat
    BY <1>1
  <2> QED
    BY <1>5, <2>1, ListedSeq
<1>7. r \in Seq(D) /\ Len(r) = n + 1 /\ r[n + 1] = b /\ \A i \in 1 .. n : r[i] = s[i]
  BY <1>5, <1>6, AppendProperties
<1> HIDE DEF r
<1>8. \A i \in 1 .. n + 1 : l[i] = r[i]
  <2> TAKE i \in 1 .. n + 1
  <2>1. l[i] = CsvEscape(u[i])
    BY <1>3
  <2>2. CASE i = n + 1
    BY <1>2, <1>7, <2>1, <2>2 DEF b
  <2>3. CASE i \in 1 .. n
    BY <1>2, <1>3, <1>7, <2>1, <2>3
  <2> QED
    BY <1>1, <2>2, <2>3
<1>9. l = r
  BY <1>6, <1>7, <1>8, SeqEqual
<1> QED
  BY <1>5, <1>6, <1>9 DEF D, u, l, s, b, r

\* What is written cell by cell is read cell by cell.
LEMMA ScanRow ==
  ASSUME NEW T, "q" \in T, "comma" \in T, NEW cs \in Parts(T)
  PROVE  /\ RowText(cs) \in Seq(T) /\ RowText(cs) # <<>> /\ RowText(cs)[1] = "q"
         /\ Scanned(RowText(cs)) = Reading(cs, FALSE, TRUE)
<1> DEFINE D == Seq(T)
           Good(q) == /\ RowText(q) \in Seq(T) /\ RowText(q) # <<>> /\ RowText(q)[1] = "q"
                      /\ Scanned(RowText(q)) = Reading(q, FALSE, TRUE)
           P == {q \in Seq(D) : q # <<>> => Good(q)}
<1>0. <<"comma">> \in Seq(T) /\ "q" \in T /\ "comma" \in T
  OBVIOUS
<1>1. <<>> \in P
  OBVIOUS
<1>2. ASSUME NEW q \in Seq(D), NEW e \in D, q \in P PROVE Append(q, e) \in P
  <2> DEFINE b == CsvEscape(e)
             E == Escaped(q)
             t == RowText(Append(q, e))
  <2>1. E \in Seq(Seq(T)) /\ Len(E) = Len(q) /\ b \in Seq(T) /\ Escaped(Append(q, e)) = Append(E, b)
    BY <1>0, EscapedAppend
  <2>2. t = IF Len(E) + 1 = 1 THEN b ELSE RowText(q) \o <<"comma">> \o b
    <3> HIDE DEF b, E
    <3>1. Join(Append(E, b), <<"comma">>) = IF Len(E) + 1 = 1 THEN b ELSE Join(E, <<"comma">>) \o <<"comma">> \o b
      BY <1>0, <2>1, JoinAppend
    <3> QED
      BY <2>1, <3>1 DEF RowText, E
  <2>3. b # <<>> /\ b[1] = "q"
    <3> DEFINE w == <<"q">>
               d == Doubled(e)
               z == w \o d
    <3>1. w \in Seq(T) /\ d \in Seq(T) /\ Len(w) = 1 /\ w[1] = "q"
      BY <1>0, DoubledType
    <3>2. b = z \o w
      BY DEF CsvEscape
    <3> HIDE DEF w, d, b
    <3>3. z \in Seq(T) /\ Len(z) \in Nat \ {0} /\ z[1] = "q"
      BY <3>1, ConcatProperties, LenProperties
    <3> HIDE DEF z
    <3>4. Len(z \o w) \in Nat \ {0} /\ (z \o w)[1] = "q" /\ z \o w \in Seq(T)
      BY <3>1, <3>3, ConcatProperties, LenProperties
    <3> QED
      BY <3>2, <3>4, EmptySeq
  <2> HIDE DEF b, E
  <2>4. CASE q = <<>>
    <3>1. t = b
      BY <2>1, <2>2, <2>4
    <3>2. Scanned(<<>>) = Reading(<< <<>> >>, FALSE, FALSE) /\ << <<>> >> \in Parts(T) /\ Trail(<< <<>> >>, e) = <<e>>
      BY ScannedEmpty, TrailStart DEF Start, Reading
    <3>3. Scanned(b) = Reading(<<e>>, FALSE, TRUE)
      <4> DEFINE v == <<>>
                 c0 == << <<>> >>
      <4>1. v \in Seq(T) /\ e \in Seq(T)
        OBVIOUS
      <4>2. c0 \in Parts(T) /\ Scanned(v) = Reading(c0, FALSE, FALSE)
        BY <3>2
      <4>3. v \o b = b
        BY <2>1, ConcatEmptySeq
      <4> HIDE DEF v, c0, D, P
      <4>4. Scanned(v \o CsvEscape(e)) = Reading(Trail(c0, e), FALSE, TRUE)
        BY <1>0, <4>1, <4>2, ScanCell
      <4> QED
        BY <3>2, <4>3, <4>4 DEF c0, b
    <3>4. Append(q, e) = <<e>>
      BY <2>4
    <3> HIDE DEF t
    <3>5. t \in Seq(T) /\ t # <<>> /\ t[1] = "q" /\ Scanned(t) = Reading(Append(q, e), FALSE, TRUE)
      BY <2>1, <2>3, <3>1, <3>3, <3>4
    <3>6. Append(q, e) \in Seq(D)
      <4> HIDE DEF D
      <4> QED
        BY AppendProperties
    <3> QED
      BY <3>5, <3>6 DEF t
  <2>5. CASE q # <<>>
    <3> DEFINE J == RowText(q)
               y == Append(J, "comma")
               a == Append(q, <<>>)
    <3>1. J \in Seq(T) /\ J # <<>> /\ J[1] = "q" /\ Scanned(J) = Reading(q, FALSE, TRUE)
      BY <1>2, <2>5
    <3>2. Len(q) \in Nat \ {0} /\ q \in Parts(T)
      <4>1. Len(q) \in Nat \ {0}
        <5> HIDE DEF D
        <5> QED
          BY <2>5, EmptySeq
      <4> QED
        BY <2>5, <4>1 DEF Parts
    <3> HIDE DEF J
    <3>3. t = J \o <<"comma">> \o b
      <4>1. Len(E) + 1 # 1
        BY <2>1, <3>2
      <4> HIDE DEF t, D, P
      <4> QED
        BY <2>2, <4>1 DEF J
    <3>4. y \in Seq(T) /\ J \o <<"comma">> = y
      BY <1>0, <3>1, AppendConcat
    <3>5. Scanned(y) = Reading(a, FALSE, FALSE)
      <4>1. Scanned(y) = Scan(Scanned(J), "comma")
        BY <1>0, <3>1, ScannedAppend
      <4> QED
        BY <1>0, <3>1, <3>2, <4>1, ReadingSteps
    <3>6. Trail(a, e) = Append(q, e) /\ a \in Parts(T)
      BY TrailAppend
    <3>7. Len(y) \in Nat \ {0} /\ y[1] = "q"
      <4>1. Len(J) \in Nat \ {0}
        BY <3>1, EmptySeq
      <4> QED
        BY <1>0, <3>1, <4>1, AppendProperties
    <3> HIDE DEF y, a, t
    <3>8. y \o b \in Seq(T) /\ Scanned(y \o b) = Reading(Append(q, e), FALSE, TRUE)
      <4>1. e \in Seq(T)
        OBVIOUS
      <4> HIDE DEF D, P
      <4>2. y \o b \in Seq(T)
        BY <2>1, <3>4, ConcatProperties
      <4>3. Scanned(y \o CsvEscape(e)) = Reading(Trail(a, e), FALSE, TRUE)
        BY <1>0, <3>4, <3>5, <3>6, <4>1, ScanCell
      <4> QED
        BY <3>6, <4>2, <4>3 DEF b
    <3>9. y \o b # <<>> /\ (y \o b)[1] = "q"
      <4>1. Len(b) \in Nat /\ Len(y \o b) = Len(y) + Len(b)
        BY <2>1, <3>4, ConcatProperties, LenProperties
      <4>2. (y \o b)[1] = y[1]
        BY <2>1, <3>4, <3>7, ConcatProperties
      <4> QED
        BY <3>7, <3>8, <4>1, <4>2, EmptySeq
    <3>10. t = y \o b
      BY <3>3, <3>4
    <3>11. Append(q, e) \in Seq(D)
      <4> HIDE DEF D
      <4> QED
        BY AppendProperties
    <3> QED
      BY <3>8, <3>9, <3>10, <3>11 DEF t
  <2> QED
    BY <2>4, <2>5
<1>3. cs \in Seq(D) /\ cs # <<>>
  BY DEF Parts
<1> HIDE DEF P, D
<1>4. Seq(D) \subseteq P
  BY <1>1, <1>2, SeqInduct
<1> QED
  BY <1>3, <1>4 DEF P

-----------------------------------------------------------------------------
(* Tags written side by side and read again.                                *)

\* Blanks before a text are cut.
LEMMA TrimPrefixed ==
  ASSUME NEW pre \in Seq(Chars \cap Blanks), NEW t \in Words
  PROVE  Trim(pre \o t) = t
<1> DEFINE u == pre \o t
           m == Len(pre)
           n == Len(t)
<1>1. t \in Text /\ t # <<>> /\ t[1] \notin Blanks /\ t[n] \notin Blanks
  BY DEF Words, Trimmed
<1>2. n \in Nat \ {0} /\ m \in Nat /\ pre \in Seq(Chars)
  <2>1. Chars \cap Blanks \subseteq Chars
    OBVIOUS
  <2> QED
    BY <1>1, <2>1, EmptySeq, LenProperties, SeqMonotonic DEF Text
<1>3. u \in Text /\ Len(u) = m + n /\ (\A i \in 1 .. m : u[i] = pre[i]) /\ (\A i \in 1 .. n : u[m + i] = t[i])
  <2>1. Len(u) = m + n /\ u \in Seq(Chars)
    BY <1>1, <1>2, ConcatProperties DEF Text
  <2>2. \A i \in 1 .. m + n : u[i] = IF i <= m THEN pre[i] ELSE t[i - m]
    BY <1>1, <1>2, ConcatProperties DEF Text
  <2> HIDE DEF u, m, n
  <2>3. \A i \in 1 .. m : u[i] = pre[i]
    BY <1>2, <2>2
  <2>4. \A i \in 1 .. n : m + i \in 1 .. m + n /\ ~(m + i <= m) /\ (m + i) - m = i
    BY <1>2
  <2>5. \A i \in 1 .. n : u[m + i] = t[i]
    BY <2>2, <2>4
  <2> QED
    BY <2>1, <2>3, <2>5 DEF Text
<1>4. \A i \in 1 .. m : u[i] \in Blanks
  <2>1. \A i \in 1 .. m : pre[i] \in Chars \cap Blanks
    OBVIOUS
  <2> QED
    BY <1>3, <2>1
<1> HIDE DEF u, m
<1>5. u[m + 1] \notin Blanks /\ u[m + n] \notin Blanks /\ m + 1 \in 1 .. Len(u) /\ m + n \in 1 .. Len(u)
  <2>1. 1 \in 1 .. n /\ n \in 1 .. n
    BY <1>2
  <2> HIDE DEF n
  <2> QED
    BY <1>1, <1>2, <1>3, <2>1 DEF n
<1> HIDE DEF n
<1>6. PICK a, b \in 1 .. Len(u) :
        /\ a <= b /\ u[a] \notin Blanks /\ u[b] \notin Blanks /\ Trim(u) = SubSeq(u, a, b)
        /\ \A i \in 1 .. Len(u) : u[i] \notin Blanks => a <= i /\ i <= b
  BY <1>3, <1>5, TrimCut
<1>7. a = m + 1 /\ b = m + n
  <2>1. a <= m + 1 /\ m + n <= b
    BY <1>5, <1>6
  <2>2. a \notin 1 .. m
    BY <1>4, <1>6
  <2> QED
    BY <1>2, <1>3, <1>6, <2>1, <2>2
<1>8. Trim(u) = SubSeq(u, m + 1, m + n)
  BY <1>6, <1>7
<1>9. SubSeq(u, m + 1, m + n) = t
  <2> DEFINE w == SubSeq(u, m + 1, m + n)
  <2>1. u \in Seq(Chars) /\ t \in Seq(Chars)
    BY <1>1, <1>3 DEF Text
  <2>2. w \in Seq(Chars) /\ Len(w) = n /\ \A i \in 1 .. n : w[i] = u[m + i]
    <3>1. m + 1 \in 1 .. Len(u) + 1 /\ m + n \in 0 .. Len(u) /\ Len(u) \in Nat
      BY <1>2, <1>3
    <3>2. w \in Seq(Chars) /\ Len(w) = IF m + 1 <= m + n THEN (m + n) - (m + 1) + 1 ELSE 0
      BY <2>1, <3>1, SubSeqProperties
    <3>3. Len(w) = n
      BY <1>2, <3>2
    <3>4. \A i \in 1 .. n : w[i] = u[(m + 1) + i - 1]
      BY <1>2, <2>1, <3>1, SubSeqProperties
    <3>5. \A i \in 1 .. n : (m + 1) + i - 1 = m + i
      BY <1>2
    <3> QED
      BY <3>2, <3>3, <3>4, <3>5
  <2> HIDE DEF w
  <2> QED
    BY <1>3, <2>1, <2>2, SeqEqual DEF w, n
<1> QED
  BY <1>8, <1>9 DEF u

\* Words written side by side are a word.
LEMMA WordsJoined ==
  ASSUME NEW a \in Words, NEW b \in Text, NEW c \in Words
  PROVE  a \o b \o c \in Words
<1> DEFINE d == a \o b
           w == d \o c
<1>1. a \in Seq(Chars) /\ b \in Seq(Chars) /\ c \in Seq(Chars) /\ a # <<>> /\ c # <<>>
      /\ a[1] \notin Blanks /\ c[Len(c)] \notin Blanks
  BY DEF Words, Trimmed, Text
<1>2. Len(a) \in Nat \ {0} /\ Len(c) \in Nat \ {0} /\ Len(b) \in Nat
  BY <1>1, EmptySeq, LenProperties
<1>3. d \in Seq(Chars) /\ Len(d) \in Nat \ {0} /\ d[1] = a[1]
  BY <1>1, <1>2, ConcatProperties
<1> HIDE DEF d
<1>4. w \in Seq(Chars) /\ Len(w) = Len(d) + Len(c) /\ w[1] = d[1] /\ w[Len(d) + Len(c)] = c[Len(c)]
  BY <1>1, <1>2, <1>3, ConcatProperties
<1>5. w # <<>>
  BY <1>2, <1>3, <1>4, EmptySeq
<1> HIDE DEF w
<1>6. w \in Words
  BY <1>1, <1>3, <1>4, <1>5 DEF Words, Trimmed, Text
<1> QED
  BY <1>6 DEF w, d

LEMMA JoinedWords ==
  ASSUME NEW sep \in Text, NEW ts \in Seq(Words)
  PROVE  Join(ts, sep) \in Trimmed
<1> DEFINE P == {q \in Seq(Words) : q # <<>> => Join(q, sep) \in Words}
<1>1. <<>> \in P
  OBVIOUS
<1>2. ASSUME NEW q \in Seq(Words), NEW e \in Words, q \in P PROVE Append(q, e) \in P
  <2>0. Words \subseteq Seq(Chars)
    BY DEF Words, Trimmed, Text
  <2>1. q \in Seq(Seq(Chars)) /\ e \in Seq(Chars) /\ sep \in Seq(Chars)
    BY <2>0, SeqMonotonic DEF Text
  <2>2. Join(Append(q, e), sep) = IF Len(q) + 1 = 1 THEN e ELSE Join(q, sep) \o sep \o e
    BY <2>1, JoinAppend
  <2>3. CASE q = <<>>
    <3>1. Len(q) + 1 = 1
      BY <2>3
    <3> QED
      BY <2>2, <3>1
  <2>4. CASE q # <<>>
    <3>1. Len(q) \in Nat \ {0}
      BY <2>4, EmptySeq
    <3>2. Join(Append(q, e), sep) = Join(q, sep) \o sep \o e
      BY <2>2, <3>1
    <3>3. Join(q, sep) \in Words
      BY <1>2, <2>4
    <3>4. Join(Append(q, e), sep) \in Words
      BY <3>2, <3>3, WordsJoined
    <3> QED
      BY <3>4
  <2> QED
    BY <2>3, <2>4
<1> HIDE DEF P
<1>3. Seq(Words) \subseteq P
  BY <1>1, <1>2, SeqInduct
<1>4. CASE ts = <<>>
  <2>1. Join(ts, sep) = <<>> /\ <<>> \in Trimmed
    BY <1>4, JoinEmpty DEF Trimmed, Text
  <2> QED
    BY <2>1
<1>5. CASE ts # <<>>
  BY <1>3, <1>5 DEF P, Words
<1> QED
  BY <1>4, <1>5

\* Tags written with commas, and blanks after them or not, are read again.
LEMMA TagsRead ==
  ASSUME NEW pre \in Seq(Chars \cap Blanks), NEW ts \in Seq(Tags), "comma" \in Chars
  PROVE  ParseTagsInput(Join(ts, <<"comma">> \o pre)) = ts
<1> DEFINE sep == <<"comma">> \o pre
           seps == {"comma"}
           U == Chars \ {"comma"}
<1>0. pre \in Seq(Chars) /\ pre \in Seq(U)
  <2>1. Chars \cap Blanks \subseteq Chars /\ Chars \cap Blanks \subseteq U
    BY DEF Blanks
  <2> QED
    BY <2>1, SeqMonotonic
<1>1. sep \in Seq(Chars)
  BY <1>0, ConcatProperties
<1>2. CASE ts = <<>>
  <2>1. Join(ts, sep) = <<>>
    BY <1>1, <1>2, JoinEmpty
  <2> QED
    BY <1>2, <2>1, NoTagsParsed
<1>3. CASE ts # <<>>
  <2>1. Tags \subseteq Seq(U) /\ Tags \subseteq Words
    BY DEF Tags
  <2>2. ts \in Seq(Seq(U)) /\ ts \in Seq(Words)
    BY <2>1, SeqMonotonic
  <2>3. Split(Join(ts, sep), seps) = Prefixed(ts, pre)
    BY <1>0, <1>3, <2>2, SplitJoined
  <2> DEFINE n == Len(ts)
             ps == Prefixed(ts, pre)
  <2>4. n \in Nat /\ DOMAIN ts = 1 .. n /\ \A i \in 1 .. n : ts[i] \in Words
    BY <2>2
  <2> HIDE DEF n
  <2>5. ps = [i \in 1 .. n |-> IF i = 1 THEN ts[1] ELSE pre \o ts[i]]
    BY <2>4 DEF Prefixed
  <2> HIDE DEF ps
  <2>6. TrimAll(ps) = [i \in 1 .. n |-> Trim(ps[i])]
    BY <2>5 DEF TrimAll
  <2>7. \A i \in 1 .. n : Trim(ps[i]) = ts[i]
    <3> TAKE i \in 1 .. n
    <3>1. ts[i] \in Words /\ ts[i] \in Trimmed
      BY <2>4 DEF Words
    <3>2. Trim(ts[i]) = ts[i] /\ Trim(pre \o ts[i]) = ts[i]
      BY <3>1, TrimKeeps, TrimPrefixed
    <3> QED
      BY <2>5, <3>2
  <2>8. ts = [i \in 1 .. n |-> ts[i]]
    BY <2>2, <2>4
  <2>9. TrimAll(ps) = ts
    BY <2>6, <2>7, <2>8
  <2>10. NotEmpty(ts) = ts
    BY <2>2, NotEmptyWords
  <2> QED
    BY <2>3, <2>9, <2>10 DEF ParseTagsInput, ps
<1> QED
  BY <1>2, <1>3

-----------------------------------------------------------------------------
(* The cells of a row.                                                      *)

LEMMA CharsHeld ==
  /\ "q" \in Chars /\ "comma" \in Chars /\ "semi" \in Chars /\ "sp" \in Chars /\ "nl" \in Chars
  /\ "q" \in Chars \ {"nl"} /\ "comma" \in Chars \ {"nl"} /\ "semi" \in Chars \ {"nl"}
  /\ "0" \in Chars \ {"nl"} /\ "1" \in Chars \ {"nl"}
BY ImportExportAssumption

\* A text without a line break is of one line.
LEMMA LacksChar ==
  ASSUME NEW t \in Text, NEW c, ~Contains(t, c)
  PROVE  t \in Seq(Chars \ {c})
<1>1. \A i \in 1 .. Len(t) : t[i] \in Chars /\ t[i] # c
  BY DEF Contains, Text
<1>2. Len(t) \in Nat /\ t = [i \in 1 .. Len(t) |-> t[i]]
  BY DEF Text
<1>3. t \in [1 .. Len(t) -> Chars \ {c}]
  BY <1>1, <1>2
<1> QED
  BY <1>2, <1>3, ListedSeq

\* The payloads a CSV file can hold: every text is of one line, and trimmed.
Plain == Trimmed \cap OneLine
CsvPayloads == {p \in Payloads : /\ p.username \in Plain /\ p.password \in Plain /\ p.notes \in Plain
                                 /\ p.totp_seed \in Plain
                                 /\ p.urls \in Seq(Words \cap OneLine) /\ p.tags \in Seq(Tags \cap OneLine)}

LEMMA FitTexts ==
  ASSUME NEW t \in Text, Trim(t) = t, ~Contains(t, "nl")
  PROVE  t \in Plain
BY TrimTrims, LacksChar DEF Plain, OneLine

LEMMA FitRow ==
  ASSUME NEW r \in Rows, FitsCsv(r)
  PROVE  r.title \in Words \cap OneLine /\ Whither(r) \in CsvPayloads
<1> DEFINE p == r.payload
           folder == r.folder
           w == Whither(r)
<1>1. r.title \in Words /\ p \in FormPayloads /\ p \in Payloads /\ folder \in Text
  BY DEF Rows, FormPayloads
<1> HIDE DEF p, folder
<1>2. /\ p.username \in Text /\ p.password \in Text /\ p.notes \in Text /\ p.totp_seed \in Trimmed /\ p.totp_seed \in OneLine
      /\ p.urls \in Seq(Words \cap OneLine) /\ p.tags \in Seq(Tags)
  BY <1>1 DEF FormPayloads, Payloads
<1>3. \A t \in TextsOf(r) : Trim(t) = t /\ ~Contains(t, "nl")
  BY DEF FitsCsv
<1>4. {r.title, p.username, p.password, p.notes} \subseteq TextsOf(r) /\ ToSet(p.tags) \subseteq TextsOf(r)
  BY DEF TextsOf, p
<1>5. r.title \in OneLine
  <2>1. r.title \in Text
    BY <1>1 DEF Words, Trimmed
  <2> QED
    BY <1>3, <1>4, <2>1, FitTexts DEF Plain
<1>6. p.username \in Plain /\ p.password \in Plain /\ p.notes \in Plain
  BY <1>2, <1>3, <1>4, FitTexts
<1>7. p.tags \in Seq(Tags \cap OneLine)
  <2>1. Len(p.tags) \in Nat /\ p.tags = [i \in 1 .. Len(p.tags) |-> p.tags[i]] /\ \A i \in 1 .. Len(p.tags) : p.tags[i] \in Tags
    BY <1>2
  <2>2. \A i \in 1 .. Len(p.tags) : p.tags[i] \in ToSet(p.tags)
    BY <2>1 DEF ToSet
  <2>3. \A t \in Tags : t \in Text
    BY DEF Tags, Words, Trimmed
  <2>4. \A i \in 1 .. Len(p.tags) : p.tags[i] \in Tags \cap OneLine
    BY <1>3, <1>4, <2>1, <2>2, <2>3, FitTexts DEF Plain
  <2>5. p.tags \in [1 .. Len(p.tags) -> Tags \cap OneLine]
    BY <2>1, <2>4
  <2> QED
    BY <2>1, <2>5, ListedSeq
<1>8. w \in Payloads
  BY <1>1, FolderMerged DEF Whither, p, folder
<1>9. w.tags \in Seq(Tags \cap OneLine)
  <2>1. CASE Trim(folder) = <<>>
    BY <1>7, <2>1 DEF Whither, MergeFolderIntoTags, p, folder
  <2>2. CASE Trim(folder) # <<>>
    <3>1. folder \in Seq(Chars \ {"comma"}) /\ folder \in OneLine
      BY <1>1, LacksChar DEF FitsCsv, folder, OneLine
    <3>2. Trim(folder) \in Seq(Chars \ {"comma"}) /\ Trim(folder) \in OneLine /\ Trim(folder) \in Trimmed
      BY <1>1, <3>1, TrimWithin, TrimTrims DEF OneLine
    <3>3. Trim(folder) \in Tags \cap OneLine
      BY <2>2, <3>2 DEF Tags, Words
    <3> DEFINE one == <<Trim(folder)>>
    <3>4. one \in Seq(Tags \cap OneLine)
      BY <3>3
    <3> HIDE DEF one
    <3>5. MergeTags(p.tags, one) \in Seq(Tags \cap OneLine)
      BY <1>7, <3>4, MergedWithin
    <3>6. w.tags = MergeTags(p.tags, one)
      <4>1. w = [p EXCEPT !.tags = MergeTags(@, one)]
        BY <2>2 DEF Whither, MergeFolderIntoTags, p, folder, one
      <4> HIDE DEF w
      <4> QED
        BY <1>1, <4>1 DEF Payloads
    <3> QED
      BY <3>5, <3>6
  <2> QED
    BY <2>1, <2>2
<1>10. /\ w.username = p.username /\ w.password = p.password /\ w.notes = p.notes /\ w.totp_seed = p.totp_seed
       /\ w.urls = p.urls
  BY DEF Whither, MergeFolderIntoTags, p
<1> HIDE DEF w
<1> QED
  BY <1>1, <1>2, <1>5, <1>6, <1>8, <1>9, <1>10 DEF CsvPayloads, Plain, w

LEMMA CellsOf ==
  ASSUME NEW title \in Words \cap OneLine, NEW p \in CsvPayloads
  PROVE  LET c == CsvCells(ExportItem(title, p))
         IN /\ c \in Parts(Chars \ {"nl"}) /\ Len(c) = 10 /\ DOMAIN TrimAll(c) = 1 .. 10
            /\ TrimAll(c)[1] = title /\ TrimAll(c)[2] = p.username /\ TrimAll(c)[3] = p.password
            /\ TrimAll(c)[6] = <<>> /\ TrimAll(c)[7] = p.notes /\ TrimAll(c)[8] = p.totp_seed
            /\ TrimAll(c)[9] = Join(p.tags, <<"comma">>)
            /\ TrimAll(c)[10] = IF p.favorite THEN <<"1">> ELSE <<"0">>
<1> DEFINE e == ExportItem(title, p)
           c == CsvCells(e)
           url == IF p.urls = <<>> THEN <<>> ELSE p.urls[1]
           urls == Join(p.urls, <<"semi">>)
           tags == Join(p.tags, <<"comma">>)
           fav == IF p.favorite THEN <<"1">> ELSE <<"0">>
<1>1. /\ DOMAIN p = {"username", "password", "urls", "totp_seed", "notes", "tags", "favorite", "extra"}
      /\ p.username \in Plain /\ p.password \in Plain /\ p.notes \in Plain /\ p.totp_seed \in Plain
      /\ p.urls \in Seq(Words \cap OneLine) /\ p.tags \in Seq(Tags \cap OneLine)
  BY DEF CsvPayloads, Payloads
<1>2. e = [f \in DOMAIN p \cup {"title"} |-> IF f = "title" THEN title ELSE p[f]]
  BY DEF ExportItem
<1> HIDE DEF e
<1>3. e.title = title /\ \A f \in DOMAIN p : e[f] = p[f]
  BY <1>1, <1>2
<1>4. c = <<title, p.username, p.password, url, urls, <<>>, p.notes, p.totp_seed, tags, fav>>
  BY <1>1, <1>3 DEF CsvCells
<1>5. url \in OneLine
  <2>1. CASE p.urls = <<>>
    BY <2>1 DEF OneLine
  <2>2. CASE p.urls # <<>>
    <3>1. Len(p.urls) \in Nat \ {0}
      BY <1>1, <2>2, EmptySeq
    <3>2. p.urls[1] \in Words \cap OneLine
      BY <1>1, <3>1
    <3> QED
      BY <2>2, <3>2
  <2> QED
    BY <2>1, <2>2
<1>6. urls \in OneLine
  <2>1. p.urls \in Seq(OneLine)
    BY <1>1, SeqMonotonic
  <2>2. <<"semi">> \in OneLine
    BY CharsHeld DEF OneLine
  <2> QED
    BY <2>1, <2>2, JoinType DEF OneLine
<1>7. tags \in OneLine /\ tags \in Trimmed
  <2>1. p.tags \in Seq(OneLine) /\ p.tags \in Seq(Words)
    BY <1>1, SeqMonotonic DEF Tags
  <2>2. <<"comma">> \in OneLine /\ <<"comma">> \in Text
    BY CharsHeld DEF OneLine, Text
  <2> QED
    BY <2>1, <2>2, JoinType, JoinedWords DEF OneLine
<1>8. fav \in OneLine /\ fav \in Trimmed
  <2>1. <<"1">> \in OneLine /\ <<"0">> \in OneLine /\ <<"1">> \in Text /\ <<"0">> \in Text
    BY CharsHeld DEF OneLine, Text
  <2>2. <<"1">> \in Trimmed /\ <<"0">> \in Trimmed
    BY <2>1 DEF Trimmed, Blanks
  <2> QED
    BY <2>1, <2>2
<1>9. <<>> \in OneLine /\ <<>> \in Trimmed /\ title \in OneLine /\ title \in Trimmed /\ Plain \subseteq OneLine /\ Plain \subseteq Trimmed
  BY DEF OneLine, Trimmed, Text, Words, Plain
<1> HIDE DEF c, url, urls, tags, fav
<1>10. c \in Seq(OneLine) /\ Len(c) = 10 /\ DOMAIN c = 1 .. 10
  <2>1. p.username \in OneLine /\ p.password \in OneLine /\ p.notes \in OneLine /\ p.totp_seed \in OneLine
    BY <1>1, <1>9
  <2> DEFINE D == OneLine
             u == p.username
             w == p.password
             n == p.notes
             s == p.totp_seed
  <2>2. u \in D /\ w \in D /\ n \in D /\ s \in D /\ title \in D /\ url \in D /\ urls \in D /\ <<>> \in D /\ tags \in D /\ fav \in D
    BY <1>5, <1>6, <1>7, <1>8, <1>9, <2>1
  <2>3. c = <<title, u, w, url, urls, <<>>, n, s, tags, fav>>
    BY <1>4
  <2> HIDE DEF D, u, w, n, s
  <2>4. DOMAIN c = 1 .. 10 /\ Len(c) = 10 /\ c = [i \in 1 .. 10 |-> c[i]]
    BY <2>3
  <2>5. \A i \in 1 .. 10 : c[i] \in D
    BY <2>2, <2>3
  <2>6. c \in [1 .. 10 -> D]
    BY <2>4, <2>5
  <2>7. c \in Seq(D)
    BY <2>6, ListedSeq
  <2> QED
    BY <2>4, <2>7 DEF D
<1>11. c # <<>>
  <2>1. Len(c) # 0
    BY <1>10
  <2> QED
    BY <1>10, <2>1, EmptySeq
<1>12. /\ c[1] = title /\ c[2] = p.username /\ c[3] = p.password /\ c[6] = <<>> /\ c[7] = p.notes
       /\ c[8] = p.totp_seed /\ c[9] = tags /\ c[10] = fav
  BY <1>4
<1>13. TrimAll(c) = [i \in 1 .. 10 |-> Trim(c[i])]
  BY <1>10 DEF TrimAll
<1>14. \A t \in Trimmed : Trim(t) = t
  BY TrimKeeps
<1>15. /\ Trim(title) = title /\ Trim(p.username) = p.username /\ Trim(p.password) = p.password /\ Trim(<<>>) = <<>>
       /\ Trim(p.notes) = p.notes /\ Trim(p.totp_seed) = p.totp_seed /\ Trim(tags) = tags /\ Trim(fav) = fav
  BY <1>1, <1>7, <1>8, <1>9, <1>14
<1>16. /\ TrimAll(c)[1] = title /\ TrimAll(c)[2] = p.username /\ TrimAll(c)[3] = p.password
       /\ TrimAll(c)[6] = <<>> /\ TrimAll(c)[7] = p.notes /\ TrimAll(c)[8] = p.totp_seed
       /\ TrimAll(c)[9] = tags /\ TrimAll(c)[10] = fav /\ DOMAIN TrimAll(c) = 1 .. 10
  BY <1>12, <1>13, <1>15
<1>17. c \in Parts(Chars \ {"nl"})
  BY <1>10, <1>11 DEF Parts, OneLine
<1> QED
  BY <1>10, <1>16, <1>17 DEF c, e, tags, fav

-----------------------------------------------------------------------------
(* The columns of a file of ours.                                           *)

LEMMA LeastIs ==
  ASSUME NEW I, I \subseteq Nat, NEW k \in I, \A i \in I : k <= i
  PROVE  Min(I) = k
<1>1. \A x \in I : (\A y \in I : x <= y) => x = k
  <2> TAKE x \in I
  <2> HAVE \A y \in I : x <= y
  <2>1. x <= k /\ k <= x /\ x \in Nat /\ k \in Nat
    OBVIOUS
  <2> QED
    BY <2>1
<1> QED
  BY <1>1 DEF Min

LEMMA HeaderNamed ==
  ASSUME NEW i \in 1 .. 10
  PROVE  HeaderName(CsvHeader[i]) = CsvHeader[i] /\ DOMAIN CsvHeader = 1 .. 10 /\ Len(CsvHeader) = 10
<1>1. CsvHeader[i] \in {"title", "username", "password", "url", "urls", "folder", "notes", "totp", "tags", "favorite"}
      /\ DOMAIN CsvHeader = 1 .. 10 /\ Len(CsvHeader) = 10
  BY DEF CsvHeader
<1>2. \A h \in {"title", "username", "password", "url", "urls", "folder", "notes", "totp", "tags", "favorite"} : HeaderName(h) = h
  BY DEF HeaderName
<1> QED
  BY <1>1, <1>2

\* A field is looked for in the first column of its name.
LEMMA CellFound ==
  ASSUME NEW ts, NEW field, NEW k \in 1 .. 10, DOMAIN ts = 1 .. 10,
         Len(ColumnNames[field]) \in Nat \ {0}, ColumnNames[field][1] = CsvHeader[k],
         \A j \in 1 .. 10 : CsvHeader[j] = CsvHeader[k] => j = k
  PROVE  Cell(CsvHeader, field, ts) = ts[k]
<1> DEFINE names == ColumnNames[field]
           I == {i \in 1 .. Len(names) : Contains(CsvHeader, names[i])}
           H(n) == {j \in 1 .. Len(CsvHeader) : CsvHeader[j] = names[n]}
           J == H(1)
           name == IF I # {} THEN Min(I) ELSE 0
           at == IF name = 0 THEN 0 ELSE IF H(name) # {} THEN Min(H(name)) ELSE 0
<1>1. Len(CsvHeader) = 10
  BY DEF CsvHeader
<1>2. 1 \in I /\ I \subseteq Nat /\ \A i \in I : 1 <= i
  BY <1>1 DEF Contains
<1>3. name = 1
  <2> HIDE DEF I
  <2> QED
    BY <1>2, LeastIs
<1>4. k \in J /\ J \subseteq Nat /\ \A j \in J : k <= j
  BY <1>1
<1>5. at = k
  <2>1. at = IF J # {} THEN Min(J) ELSE 0
    <3> HIDE DEF name, H
    <3> QED
      BY <1>3
  <2> HIDE DEF J, at
  <2> QED
    BY <1>4, <2>1, LeastIs
<1>6. Cell(CsvHeader, field, ts) = IF at \in DOMAIN ts THEN ts[at] ELSE <<>>
  BY DEF Cell, SelectInSeq
<1> HIDE DEF at
<1> QED
  BY <1>5, <1>6

LEMMA CellsFound ==
  ASSUME NEW ts, DOMAIN ts = 1 .. 10
  PROVE  /\ Cell(CsvHeader, "title", ts) = ts[1] /\ Cell(CsvHeader, "username", ts) = ts[2]
         /\ Cell(CsvHeader, "password", ts) = ts[3] /\ Cell(CsvHeader, "folder", ts) = ts[6]
         /\ Cell(CsvHeader, "notes", ts) = ts[7] /\ Cell(CsvHeader, "totp_seed", ts) = ts[8]
         /\ Cell(CsvHeader, "tags", ts) = ts[9] /\ Cell(CsvHeader, "favorite", ts) = ts[10]
<1>1. \A k \in 1 .. 10 : \A j \in 1 .. 10 : CsvHeader[j] = CsvHeader[k] => j = k
  BY DEF CsvHeader
<1>2. Len(ColumnNames["title"]) \in Nat \ {0} /\ ColumnNames["title"][1] = CsvHeader[1]
  BY DEF ColumnNames, CsvHeader
<1>3. Len(ColumnNames["username"]) \in Nat \ {0} /\ ColumnNames["username"][1] = CsvHeader[2]
  BY DEF ColumnNames, CsvHeader
<1>4. Len(ColumnNames["password"]) \in Nat \ {0} /\ ColumnNames["password"][1] = CsvHeader[3]
  BY DEF ColumnNames, CsvHeader
<1>5. Len(ColumnNames["folder"]) \in Nat \ {0} /\ ColumnNames["folder"][1] = CsvHeader[6]
  BY DEF ColumnNames, CsvHeader
<1>6. Len(ColumnNames["notes"]) \in Nat \ {0} /\ ColumnNames["notes"][1] = CsvHeader[7]
  BY DEF ColumnNames, CsvHeader
<1>7. Len(ColumnNames["totp_seed"]) \in Nat \ {0} /\ ColumnNames["totp_seed"][1] = CsvHeader[8]
  BY DEF ColumnNames, CsvHeader
<1>8. Len(ColumnNames["tags"]) \in Nat \ {0} /\ ColumnNames["tags"][1] = CsvHeader[9]
  BY DEF ColumnNames, CsvHeader
<1>9. Len(ColumnNames["favorite"]) \in Nat \ {0} /\ ColumnNames["favorite"][1] = CsvHeader[10]
  BY DEF ColumnNames, CsvHeader
<1>10. 1 \in 1 .. 10 /\ 2 \in 1 .. 10 /\ 3 \in 1 .. 10 /\ 6 \in 1 .. 10 /\ 7 \in 1 .. 10 /\ 8 \in 1 .. 10
       /\ 9 \in 1 .. 10 /\ 10 \in 1 .. 10
  OBVIOUS
<1>11. Cell(CsvHeader, "title", ts) = ts[1] /\ Cell(CsvHeader, "username", ts) = ts[2]
  BY <1>1, <1>2, <1>3, <1>10, CellFound
<1>12. Cell(CsvHeader, "password", ts) = ts[3] /\ Cell(CsvHeader, "folder", ts) = ts[6]
  BY <1>1, <1>4, <1>5, <1>10, CellFound
<1>13. Cell(CsvHeader, "notes", ts) = ts[7] /\ Cell(CsvHeader, "totp_seed", ts) = ts[8]
  BY <1>1, <1>6, <1>7, <1>10, CellFound
<1>14. Cell(CsvHeader, "tags", ts) = ts[9] /\ Cell(CsvHeader, "favorite", ts) = ts[10]
  BY <1>1, <1>8, <1>9, <1>10, CellFound
<1> QED
  BY <1>11, <1>12, <1>13, <1>14

\* A row that fits a CSV file, out of the vault, through the file and back: all but
\* the addresses, of which the file's column of one address is read.
LEMMA CsvComesBack ==
  ASSUME NEW title \in Words, NEW p \in Payloads, NEW ts, p.tags \in Seq(Tags), DOMAIN ts = 1 .. 10,
         ts[1] = title, ts[2] = p.username, ts[3] = p.password, ts[6] = <<>>, ts[7] = p.notes,
         ts[8] = p.totp_seed, ts[9] = Join(p.tags, <<"comma">>),
         ts[10] = IF p.favorite THEN <<"1">> ELSE <<"0">>
  PROVE  LET s == Imported(CsvItem(CsvHeader, ts))
         IN s.title = title /\ \A f \in (Names \cup {"tags"}) \ {"urls"} : s.payload[f] = p[f]
<1> DEFINE cell(field) == Cell(CsvHeader, field, ts)
           raw == [title |-> OrElse(cell("title"), OrElse(HostFromUrl(cell("url")), ts[1])), username |-> cell("username"),
                   password |-> cell("password"), urls |-> SplitUrls(cell("url")), notes |-> cell("notes"),
                   totp_seed |-> cell("totp_seed"), folder |-> cell("folder"), tags |-> ParseTagsInput(cell("tags")),
                   favorite |-> cell("favorite") = <<"1">>]
           r == [f \in DOMAIN Blank |-> IF f \in DOMAIN raw THEN raw[f] ELSE Blank[f]]
           it == NormalizeItem(raw)
           s == Imported(it)
<1>1. CsvItem(CsvHeader, ts) = it
  BY DEF CsvItem
<1>2. p.totp_seed \in Trimmed /\ p.tags \in TagLists /\ p.favorite \in BOOLEAN
  BY DEF Payloads
<1>3. OrElse(cell("title"), OrElse(HostFromUrl(cell("url")), ts[1])) = title
  BY CellsFound DEF OrElse, Words
<1>4. ParseTagsInput(cell("tags")) = p.tags
  <2> DEFINE pre == <<>>
  <2>1. pre \in Seq(Chars \cap Blanks) /\ <<"comma">> \o pre = <<"comma">>
    <3>1. <<"comma">> \in Text
      BY CharsHeld DEF Text
    <3> QED
      BY <3>1, ConcatEmptySeq DEF Text
  <2> HIDE DEF pre
  <2>2. ParseTagsInput(Join(p.tags, <<"comma">> \o pre)) = p.tags
    BY <2>1, CharsHeld, TagsRead
  <2> QED
    BY <2>1, <2>2, CellsFound
<1>5. (cell("favorite") = <<"1">>) = p.favorite
  <2>1. <<"1">> # <<"0">>
    OBVIOUS
  <2>2. cell("favorite") = IF p.favorite THEN <<"1">> ELSE <<"0">>
    BY CellsFound
  <2> HIDE DEF cell
  <2>3. CASE p.favorite
    BY <1>2, <2>2, <2>3
  <2>4. CASE ~p.favorite
    BY <1>2, <2>1, <2>2, <2>4
  <2> QED
    BY <2>3, <2>4
<1> DEFINE u == SplitUrls(cell("url"))
<1> HIDE DEF u
<1>6. raw = [title |-> title, username |-> p.username, password |-> p.password, urls |-> u, notes |-> p.notes,
             totp_seed |-> p.totp_seed, folder |-> <<>>, tags |-> p.tags, favorite |-> p.favorite]
  BY <1>3, <1>4, <1>5, CellsFound DEF u
<1> HIDE DEF raw
<1>7. DOMAIN Blank = {"title", "username", "password", "urls", "notes", "totp_seed", "tags", "favorite",
                  "folder", "extra"}
  BY DEF Blank
<1>8. DOMAIN raw = {"title", "username", "password", "urls", "notes", "totp_seed", "folder", "tags", "favorite"}
  BY <1>6
<1>9. DOMAIN r = DOMAIN Blank /\ \A f \in DOMAIN raw : r[f] = raw[f]
  BY <1>7, <1>8
<1> HIDE DEF r
<1>10. Trim(title) = title /\ title # <<>> /\ Trim(<<>>) = <<>> /\ Trim(p.totp_seed) = p.totp_seed
  <2>1. title \in Trimmed /\ <<>> \in Trimmed
    BY DEF Words, Trimmed, Text
  <2> QED
    BY <1>2, <2>1, TrimKeeps DEF Words
<1>11. it = [r EXCEPT !.title = OrElse(Trim(@), <<"Import">>), !.urls = NotEmpty(TrimAll(@)),
                      !.totp_seed = Trim(@), !.folder = Trim(@)]
  BY DEF NormalizeItem, r
<1>12. /\ it.title = title /\ it.username = p.username /\ it.password = p.password /\ it.tags = p.tags
       /\ it.notes = p.notes /\ it.totp_seed = p.totp_seed /\ it.favorite = p.favorite /\ it.folder = <<>>
  <2>1. OrElse(Trim(title), <<"Import">>) = title
    BY <1>10 DEF OrElse
  <2> HIDE DEF it
  <2> QED
    BY <1>6, <1>7, <1>8, <1>9, <1>10, <1>11, <2>1
<1> HIDE DEF it
<1>13. s.title = it.title /\ s.payload = NormalizeSecretPayload(
        [username |-> it.username, password |-> it.password, urls |-> it.urls, notes |-> it.notes,
         totp_seed |-> it.totp_seed, tags |-> MergeTags(it.tags, ParseTagsInput(it.folder)),
         favorite |-> it.favorite, extra |-> it.extra])
  BY DEF Imported
<1>14. MergeTags(it.tags, ParseTagsInput(it.folder)) = p.tags
  BY <1>2, <1>12, NoTagsParsed, MergedWithNone
<1>15. NotEmpty(TrimAll(p.tags)) = p.tags
  BY <1>2, CleanStays DEF TagLists
<1> HIDE DEF s
<1>16. /\ s.payload.username = it.username /\ s.payload.password = it.password
       /\ s.payload.tags = NotEmpty(TrimAll(p.tags)) /\ s.payload.notes = it.notes
       /\ s.payload.totp_seed = Trim(it.totp_seed) /\ s.payload.favorite = it.favorite
  BY <1>13, <1>14 DEF NormalizeSecretPayload
<1>17. s.title = title /\ \A f \in (Names \cup {"tags"}) \ {"urls"} : s.payload[f] = p[f]
  BY <1>10, <1>12, <1>13, <1>15, <1>16 DEF Names
<1> QED
  BY <1>1, <1>17 DEF s

-----------------------------------------------------------------------------
(* The lines of a file of ours.                                             *)

\* The row a line is written of.
CellsAt(i) == CsvCells(ExportItem(rows[i].title, Whither(rows[i])))

\* The columns' names as the parser compares them.
Named(header) == [i \in DOMAIN header |-> HeaderName(header[i])]

LEMMA OurColumns == Named(CsvHeader) = CsvHeader
<1>1. \A i \in 1 .. 10 : HeaderName(CsvHeader[i]) = CsvHeader[i]
  BY HeaderNamed
<1>2. DOMAIN CsvHeader = 1 .. 10 /\ CsvHeader = [i \in 1 .. 10 |-> CsvHeader[i]]
  BY DEF CsvHeader
<1> QED
  BY <1>1, <1>2 DEF Named

\* The cells of a line.
LineParts == Parts(Chars \ {"nl"})

LEMMA FileRead ==
  ASSUME NEW header, NEW n \in Nat \ {0}, NEW cells, DOMAIN cells = 1 .. n,
         \A i \in 1 .. n : cells[i] \in LineParts
  PROVE  ParseCSV(header, CsvText(cells)) = [i \in 1 .. n |-> CsvItem(Named(header), TrimAll(cells[i]))]
<1> DEFINE U == Chars \ {"nl"}
           L == [i \in 1 .. n |-> RowText(cells[i])]
           text == CsvText(cells)
           seps == {"nl"}
           S == {l \in ToSet(L) : Trim(l) = <<>>}
           names == Named(header)
<1>1. \A i \in 1 .. n : /\ RowText(cells[i]) \in Seq(U) /\ RowText(cells[i]) # <<>> /\ RowText(cells[i])[1] = "q"
                        /\ Scanned(RowText(cells[i])) = Reading(cells[i], FALSE, TRUE)
  <2> TAKE i \in 1 .. n
  <2>1. "q" \in U /\ "comma" \in U /\ cells[i] \in Parts(U)
    BY CharsHeld DEF LineParts
  <2> HIDE DEF U
  <2> QED
    BY <2>1, ScanRow
<1>2. text = Join(L, <<"nl">>)
  BY DEF CsvText, RowText, Escaped
<1>3. L \in Seq(Seq(U)) /\ Len(L) = n
  <2>1. L \in [1 .. n -> Seq(U)]
    BY <1>1
  <2> DEFINE D == Seq(U)
  <2>2. L \in [1 .. n -> D]
    BY <2>1
  <2> HIDE DEF L, D
  <2>3. L \in Seq(D) /\ Len(L) = n
    BY <2>2, ListedSeq
  <2> QED
    BY <2>3 DEF D
<1>4. L # <<>>
  <2> HIDE DEF L, U
  <2>1. Len(L) # 0
    BY <1>3
  <2> QED
    BY <1>3, <2>1, EmptySeq
<1>5. Split(Join(L, <<"nl">>), seps) = L
  <2> DEFINE pre == <<>>
             c == "nl"
             sep == <<c>> \o pre
  <2>1. pre \in Seq(U) /\ L \in Seq(Seq(U)) /\ U = Chars \ seps /\ c \in Chars /\ c \in seps
    BY <1>3, CharsHeld
  <2>2. sep = <<"nl">>
    <3>1. <<c>> \in Seq(Chars)
      BY <2>1
    <3> QED
      BY <3>1, ConcatEmptySeq
  <2>3. Prefixed(L, pre) = L
    <3>1. \A i \in 1 .. n : pre \o L[i] = L[i]
      <4> TAKE i \in 1 .. n
      <4>1. L[i] \in Seq(U)
        BY <1>1
      <4> HIDE DEF L
      <4> QED
        BY <4>1, ConcatEmptySeq
    <3>2. DOMAIN L = 1 .. n /\ L = [i \in 1 .. n |-> L[i]] /\ 1 \in 1 .. n
      OBVIOUS
    <3> HIDE DEF L, pre
    <3>3. Prefixed(L, pre) = [i \in 1 .. n |-> IF i = 1 THEN L[1] ELSE pre \o L[i]]
      BY <3>2 DEF Prefixed
    <3>4. \A i \in 1 .. n : (IF i = 1 THEN L[1] ELSE pre \o L[i]) = L[i]
      BY <3>1
    <3> QED
      BY <3>2, <3>3, <3>4
  <2> HIDE DEF pre, c, seps, L, U
  <2>4. Split(Join(L, <<c>> \o pre), seps) = Prefixed(L, pre)
    BY <1>4, <2>1, SplitJoined
  <2> QED
    BY <2>2, <2>3, <2>4 DEF c
<1>6. Without(L, S) = L
  <2> DEFINE T == {L[i] : i \in 1 .. n}
  <2>1. L \in Seq(T)
    <3>1. L \in [1 .. n -> T]
      OBVIOUS
    <3> HIDE DEF L, T
    <3> QED
      BY <3>1, ListedSeq
  <2>2. \A i \in 1 .. n : Trim(L[i]) # <<>>
    <3> TAKE i \in 1 .. n
    <3> DEFINE t == RowText(cells[i])
    <3>1. t \in Text /\ t # <<>> /\ t[1] = "q"
      <4>1. Seq(U) \subseteq Text
        BY SeqMonotonic DEF Text
      <4> QED
        BY <1>1, <4>1
    <3> HIDE DEF t
    <3>2. Len(t) \in Nat \ {0}
      BY <3>1, EmptySeq DEF Text
    <3>3. 1 \in 1 .. Len(t) /\ t[1] \notin Blanks
      BY <3>1, <3>2 DEF Blanks
    <3>4. Trim(t) # <<>>
      <4>1. CASE \E a, b \in 1 .. Len(t) : a <= b /\ Trim(t) = SubSeq(t, a, b)
        <5>1. PICK a, b \in 1 .. Len(t) : a <= b /\ Trim(t) = SubSeq(t, a, b)
          BY <4>1
        <5>2. Len(SubSeq(t, a, b)) = b - a + 1 /\ a \in Nat /\ b \in Nat
          BY <3>1, <3>2, <5>1, SubSeqProperties DEF Text
        <5>3. Len(Trim(t)) # 0
          BY <5>1, <5>2
        <5>4. Trim(t) \in Text
          BY <3>1, TrimTrims DEF Trimmed
        <5> QED
          BY <5>3, <5>4, EmptySeq DEF Text
      <4>2. CASE \A i_1 \in 1 .. Len(t) : t[i_1] \in Blanks
        BY <3>3, <4>2
      <4> QED
        BY <3>1, <4>1, <4>2, TrimCut
    <3> QED
      BY <3>4 DEF t
  <2>3. T \cap S = {}
    BY <2>2
  <2> HIDE DEF L, T, S
  <2> QED
    BY <2>1, <2>3, WithoutNone
<1>8. \A i \in 1 .. n : SplitRow(L[i]) = TrimAll(cells[i])
  BY <1>1 DEF SplitRow, Reading
<1>9. DOMAIN L = 1 .. n
  OBVIOUS
<1> DEFINE all == Split(text, seps)
           lines == Without(all, {l \in ToSet(all) : Trim(l) = <<>>})
<1>10. ParseCSV(header, text) = [i \in DOMAIN lines |-> CsvItem(names, SplitRow(lines[i]))]
  BY DEF ParseCSV, Named
<1>11. lines = L
  BY <1>2, <1>5, <1>6
<1> HIDE DEF lines, L, names, text
<1> QED
  BY <1>8, <1>9, <1>10, <1>11 DEF text, names

LEMMA CsvRows ==
  ASSUME FileInvariant
  PROVE  CsvKeeps
<1> SUFFICES ASSUME file.format = "csv", logins = <<>>, \A i \in DOMAIN rows : FitsCsv(rows[i]),
                    NEW k \in DOMAIN saved, Whole(k)
             PROVE  LET r == Kept(rows[saved[k].of])
                        s == saved[k].secret
                    IN s.title = r.title /\ \A f \in (Names \cup {"tags"}) \ {"urls"} : s.payload[f] = r.payload[f]
  BY DEF CsvKeeps
<1> DEFINE i == saved[k].of
           n == Len(rows)
           cells == [j \in DOMAIN rows |-> CsvCells(ExportItems[j])]
<1>1. i \in DOMAIN Opened /\ saved[k].secret = Imported(Opened[i])
  BY DEF FileInvariant, Posted
<1>2. rows \in Seq(Rows) /\ step # "idle"
  BY DEF FileInvariant, Origin, NoFile, File
<1>3. file = Written("csv") /\ rows # <<>>
  BY <1>2 DEF FileInvariant, Origin, Wrapped, Written, File, Own, OwnFormats
<1>4. file.header = CsvHeader /\ file.text = CsvText(cells)
  BY <1>3 DEF Written, File
<1>5. Opened = ParseCSV(CsvHeader, CsvText(cells))
  BY <1>4 DEF Opened, Parsed
<1>6. n \in Nat \ {0} /\ DOMAIN rows = 1 .. n
  BY <1>2, <1>3, EmptySeq
<1>7. DOMAIN cells = 1 .. n /\ \A j \in 1 .. n : cells[j] = CellsAt(j)
  BY <1>2, <1>6, ExportedRows DEF CellsAt
<1> HIDE DEF cells, n
<1>8. \A j \in 1 .. n : rows[j] \in Rows /\ rows[j].title \in Words \cap OneLine /\ Whither(rows[j]) \in CsvPayloads
  BY <1>2, <1>6, FitRow
<1>9. \A j \in 1 .. n : cells[j] \in LineParts
  <2> TAKE j \in 1 .. n
  <2> DEFINE t == rows[j].title
             p == Whither(rows[j])
  <2>1. t \in Words \cap OneLine /\ p \in CsvPayloads
    BY <1>8
  <2>2. cells[j] = CsvCells(ExportItem(t, p))
    BY <1>7 DEF CellsAt
  <2> HIDE DEF t, p
  <2> QED
    BY <2>1, <2>2, CellsOf DEF LineParts
<1>10. Opened = [j \in 1 .. n |-> CsvItem(CsvHeader, TrimAll(cells[j]))]
  BY <1>5, <1>6, <1>7, <1>9, FileRead, OurColumns
<1>11. i \in 1 .. n /\ Opened[i] = CsvItem(CsvHeader, TrimAll(CellsAt(i)))
  BY <1>1, <1>7, <1>10
<1> DEFINE ts == TrimAll(CellsAt(i))
           title == rows[i].title
           p == Whither(rows[i])
<1>12. title \in Words \cap OneLine /\ p \in CsvPayloads
  BY <1>8, <1>11
<1>13. /\ DOMAIN ts = 1 .. 10 /\ ts[1] = title /\ ts[2] = p.username /\ ts[3] = p.password /\ ts[6] = <<>>
       /\ ts[7] = p.notes /\ ts[8] = p.totp_seed /\ ts[9] = Join(p.tags, <<"comma">>)
       /\ ts[10] = IF p.favorite THEN <<"1">> ELSE <<"0">>
  BY <1>12, CellsOf DEF CellsAt
<1>14. p \in Payloads /\ p.tags \in Seq(Tags) /\ title \in Words
  <2>1. p.tags \in Seq(Tags \cap OneLine)
    BY <1>12 DEF CsvPayloads
  <2> QED
    BY <1>12, <2>1, SeqMonotonic DEF CsvPayloads
<1> HIDE DEF ts, title, p, i
<1>15. LET s == Imported(CsvItem(CsvHeader, ts))
       IN s.title = title /\ \A f \in (Names \cup {"tags"}) \ {"urls"} : s.payload[f] = p[f]
  BY <1>13, <1>14, CsvComesBack
<1>16. saved[k].secret = Imported(CsvItem(CsvHeader, ts))
  BY <1>1, <1>11 DEF ts
<1>17. Kept(rows[i]).title = title /\ Kept(rows[i]).payload = p
  BY DEF Kept, Whither, title, p
<1> QED
  BY <1>15, <1>16, <1>17 DEF i

\* A Bitwarden export keeps the login of every secret, and a CSV export the texts it
\* can hold, whatever quotes and separators are in them (vault-io.js toBitwardenJSON
\* and csvEscape, import-parse.js parseBitwarden, splitRow and parseCSV).
THEOREM OtherFormatsRestore == Spec => []OtherFormatsKeep
<1>1. FileInvariant => OtherFormatsKeep
  BY BitwardenRows, CsvRows DEF OtherFormatsKeep
<1> QED
  BY <1>1, FilesInvariant, PTL

-----------------------------------------------------------------------------
(* Opening a secret and saving it.                                          *)

LEMMA WithoutConcat ==
  ASSUME NEW T, NEW S, NEW a \in Seq(T), NEW b \in Seq(T)
  PROVE  Without(a \o b, S) = Without(a, S) \o Without(b, S)
<1> DEFINE P == {q \in Seq(T) : Without(a \o q, S) = Without(a, S) \o Without(q, S)}
           w == Without(a, S)
<1>0. w \in Seq(T)
  BY WithoutType
<1>1. <<>> \in P
  <2>1. a \o <<>> = a /\ w \o <<>> = w /\ Without(<<>>, S) = <<>>
    BY <1>0, ConcatEmptySeq, WithoutEmpty
  <2>2. <<>> \in Seq(T)
    OBVIOUS
  <2> QED
    BY <2>1, <2>2
<1>2. ASSUME NEW q \in Seq(T), NEW e \in T, q \in P PROVE Append(q, e) \in P
  <2> DEFINE c == a \o q
             v == Without(q, S)
  <2>1. c \in Seq(T) /\ v \in Seq(T) /\ a \o Append(q, e) = Append(c, e)
    BY AppendConcat, WithoutType, ConcatProperties
  <2>2. Without(c, S) = w \o v
    BY <1>2
  <2> HIDE DEF c, v, w, P
  <2>3. Without(Append(c, e), S) = IF e \in S THEN Without(c, S) ELSE Append(Without(c, S), e)
    BY <2>1, WithoutAppend
  <2>4. Without(Append(q, e), S) = IF e \in S THEN v ELSE Append(v, e)
    BY WithoutAppend DEF v
  <2>5. w \o Append(v, e) = Append(w \o v, e)
    BY <1>0, <2>1, AppendConcat
  <2>6. Without(a \o Append(q, e), S) = w \o Without(Append(q, e), S)
    BY <2>1, <2>2, <2>3, <2>4, <2>5
  <2>7. Append(q, e) \in Seq(T)
    OBVIOUS
  <2> QED
    BY <2>6, <2>7 DEF P, w
<1> HIDE DEF P
<1>3. Seq(T) \subseteq P
  BY <1>1, <1>2, SeqInduct
<1> QED
  BY <1>3 DEF P

LEMMA WithoutAll ==
  ASSUME NEW T, NEW S, T \subseteq S, NEW s \in Seq(T)
  PROVE  Without(s, S) = <<>>
<1> DEFINE P == {q \in Seq(T) : Without(q, S) = <<>>}
<1>1. <<>> \in P
  BY WithoutEmpty
<1>2. ASSUME NEW q \in Seq(T), NEW e \in T, q \in P PROVE Append(q, e) \in P
  <2>1. Without(Append(q, e), S) = Without(q, S)
    BY WithoutAppend
  <2> QED
    BY <1>2, <2>1
<1> HIDE DEF P
<1>3. Seq(T) \subseteq P
  BY <1>1, <1>2, SeqInduct
<1> QED
  BY <1>3 DEF P

\* Rows of a type a form may hold many of are added one after another.
AllReadied(q) == [i \in DOMAIN q |-> Readied(q[i])]

LEMMA ReadiedAppend ==
  ASSUME NEW q \in Seq(SlotRow), NEW e \in SlotRow
  PROVE  AllReadied(q) \in Seq(FormSlots) /\ AllReadied(Append(q, e)) = Append(AllReadied(q), Readied(e))
<1> DEFINE n == Len(q)
           u == Append(q, e)
           l == AllReadied(u)
           s == AllReadied(q)
           b == Readied(e)
           r == Append(s, b)
<1>1. n \in Nat /\ DOMAIN q = 1 .. n /\ \A i \in 1 .. n : q[i] \in SlotRow
  OBVIOUS
<1>2. u \in Seq(SlotRow) /\ DOMAIN u = 1 .. n + 1 /\ u[n + 1] = e /\ \A i \in 1 .. n : u[i] = q[i]
  BY <1>1, AppendProperties, LenProperties
<1> HIDE DEF u
<1>3. l = [i \in 1 .. n + 1 |-> Readied(u[i])] /\ s = [i \in 1 .. n |-> Readied(q[i])]
  BY <1>1, <1>2 DEF AllReadied
<1>4. \A i \in 1 .. n + 1 : u[i] \in SlotRow
  BY <1>2
<1>5. s \in [1 .. n -> FormSlots] /\ l \in [1 .. n + 1 -> FormSlots] /\ b \in FormSlots
  BY <1>1, <1>3, <1>4, ReadiedType
<1> HIDE DEF l, s, b
<1>6. s \in Seq(FormSlots) /\ Len(s) = n /\ l \in Seq(FormSlots) /\ Len(l) = n + 1
  <2>1. n \in Nat /\ n + 1 \in Nat
    BY <1>1
  <2> QED
    BY <1>5, <2>1, ListedSeq
<1>7. r \in Seq(FormSlots) /\ Len(r) = n + 1 /\ r[n + 1] = b /\ \A i \in 1 .. n : r[i] = s[i]
  BY <1>5, <1>6, AppendProperties
<1> HIDE DEF r
<1>8. \A i \in 1 .. n + 1 : l[i] = r[i]
  <2> TAKE i \in 1 .. n + 1
  <2>1. l[i] = Readied(u[i])
    BY <1>3
  <2>2. CASE i = n + 1
    BY <1>2, <1>7, <2>1, <2>2 DEF b
  <2>3. CASE i \in 1 .. n
    BY <1>2, <1>3, <1>7, <2>1, <2>3
  <2> QED
    BY <1>1, <2>2, <2>3
<1>9. l = r
  BY <1>6, <1>7, <1>8, SeqEqual
<1> QED
  BY <1>6, <1>9 DEF u, l, s, b, r

Many == {r \in SlotRow : r.type \notin Singletons}

LEMMA ManyAdded ==
  ASSUME NEW list \in Seq(SlotRow), NEW q \in Seq(Many)
  PROVE  AddAll(list \o q) = AddAll(list) \o AllReadied(q) /\ AllReadied(q) \in Seq(FormSlots)
<1> DEFINE A == AddAll(list)
           P == {v \in Seq(Many) : AddAll(list \o v) = A \o AllReadied(v)}
<1>0. A \in Seq(FormSlots)
  BY AddAllType
<1>1. <<>> \in P
  <2>1. list \o <<>> = list /\ A \o <<>> = A
    BY <1>0, ConcatEmptySeq
  <2>2. AllReadied(<<>>) = <<>>
    BY DEF AllReadied
  <2>3. <<>> \in Seq(Many)
    OBVIOUS
  <2> QED
    BY <2>1, <2>2, <2>3
<1>2. ASSUME NEW v \in Seq(Many), NEW e \in Many, v \in P PROVE Append(v, e) \in P
  <2> DEFINE c == list \o v
             w == AllReadied(v)
             b == Readied(e)
  <2>0. v \in Seq(SlotRow) /\ e \in SlotRow /\ e.type \notin Singletons
    <3>1. Many \subseteq SlotRow
      BY DEF Many
    <3> QED
      BY <3>1, SeqMonotonic DEF Many
  <2>1. c \in Seq(SlotRow) /\ list \o Append(v, e) = Append(c, e)
    BY <2>0, AppendConcat, ConcatProperties
  <2>2. AddAll(c) = A \o w
    BY <1>2
  <2>3. w \in Seq(FormSlots) /\ AllReadied(Append(v, e)) = Append(w, b) /\ b \in FormSlots
    BY <2>0, ReadiedAppend, ReadiedType
  <2> HIDE DEF c, w, A, P, b
  <2>4. AddAll(Append(c, e)) = AddExtraSlot(AddAll(c), e)
    BY <2>0, <2>1, AddAllAppend
  <2>5. AddExtraSlot(A \o w, e) = Append(A \o w, b)
    BY <2>0, AddedSlot DEF b
  <2>6. A \o Append(w, b) = Append(A \o w, b)
    BY <1>0, <2>3, AppendConcat
  <2>7. AddAll(list \o Append(v, e)) = A \o AllReadied(Append(v, e))
    BY <2>1, <2>2, <2>3, <2>4, <2>5, <2>6
  <2>8. Append(v, e) \in Seq(Many)
    OBVIOUS
  <2> QED
    BY <2>7, <2>8 DEF P
<1> HIDE DEF P
<1>3. Seq(Many) \subseteq P
  BY <1>1, <1>2, SeqInduct
<1>4. q \in Seq(SlotRow)
  <2>1. Many \subseteq SlotRow
    BY DEF Many
  <2> QED
    BY <2>1, SeqMonotonic
<1>5. AllReadied(q) \in Seq(FormSlots)
  <2> DEFINE n == Len(q)
             s == AllReadied(q)
  <2>1. n \in Nat /\ DOMAIN q = 1 .. n /\ \A i \in 1 .. n : q[i] \in SlotRow
    BY <1>4
  <2>2. s = [i \in 1 .. n |-> Readied(q[i])]
    BY <2>1 DEF AllReadied
  <2>3. s \in [1 .. n -> FormSlots]
    BY <2>1, <2>2, ReadiedType
  <2> HIDE DEF n, s
  <2>4. s \in Seq(FormSlots)
    BY <2>1, <2>3, ListedSeq
  <2> QED
    BY <2>4 DEF s
<1> QED
  BY <1>3, <1>5 DEF P

-----------------------------------------------------------------------------
(* The rows a secret is opened in.                                          *)

\* The rows of one type, and those of the others.
Kind(type) == {r \in FormSlots : r.type = type}
NotOf(type) == {r \in FormSlots : r.type # type}
LoneRows == {r \in FormSlots : r.type \in Lone}
Of(type, list) == Without(list, NotOf(type))

LEMMA InItsSet ==
  ASSUME NEW T, NEW s \in Seq(T)
  PROVE  s \in Seq(ToSet(s)) /\ ToSet(s) \subseteq T
<1> DEFINE n == Len(s)
<1>1. n \in Nat /\ DOMAIN s = 1 .. n /\ s = [i \in 1 .. n |-> s[i]] /\ \A i \in 1 .. n : s[i] \in T
  BY LenProperties
<1>2. ToSet(s) = {s[i] : i \in 1 .. n}
  BY <1>1 DEF ToSet
<1>3. s \in [1 .. n -> ToSet(s)]
  BY <1>1, <1>2
<1> HIDE DEF n
<1> QED
  BY <1>1, <1>2, <1>3, ListedSeq

LEMMA KindsChosen ==
  ASSUME NEW list \in Seq(FormSlots), NEW type
  PROVE  /\ Values(type, list) = [i \in DOMAIN Of(type, list) |-> Of(type, list)[i].value]
         /\ ExtraOf(list) = Without(list, LoneRows)
<1> DEFINE S == {s \in ToSet(list) : s.type # type}
           E == {s \in ToSet(list) : s.type \in Singletons \cup {"url"}}
           D == ToSet(list)
<1>1. list \in Seq(D) /\ D \subseteq FormSlots
  BY InItsSet
<1>2. \A x \in D : x \in S <=> x \in NotOf(type)
  BY <1>1 DEF NotOf
<1>3. \A x \in D : x \in E <=> x \in LoneRows
  BY <1>1 DEF LoneRows, Lone
<1>4. Values(type, list) = [i \in DOMAIN Without(list, S) |-> Without(list, S)[i].value]
  BY DEF Values
<1>5. ExtraOf(list) = Without(list, E)
  BY DEF ExtraOf
<1> HIDE DEF S, E, D
<1>6. Without(list, S) = Of(type, list)
  BY <1>1, <1>2, WithoutAlike DEF Of
<1>7. Without(list, E) = Without(list, LoneRows)
  BY <1>1, <1>3, WithoutAlike
<1> QED
  BY <1>4, <1>5, <1>6, <1>7

LEMMA KindLeft ==
  ASSUME NEW k, NEW q \in Seq(Kind(k)), NEW type
  PROVE  /\ q \in Seq(FormSlots)
         /\ Without(q, NotOf(type)) = IF k = type THEN q ELSE <<>>
         /\ k \in Lone => Without(q, LoneRows) = <<>>
         /\ k # type => q \in Seq(NotOf(type))
<1>1. Kind(k) \subseteq FormSlots /\ (k = type => Kind(k) \cap NotOf(type) = {}) /\ (k # type => Kind(k) \subseteq NotOf(type))
      /\ (k \in Lone => Kind(k) \subseteq LoneRows)
  BY DEF Kind, NotOf, LoneRows
<1>2. q \in Seq(FormSlots)
  BY <1>1, SeqMonotonic
<1>3. k = type => Without(q, NotOf(type)) = q
  BY <1>1, WithoutNone
<1>4. k # type => Without(q, NotOf(type)) = <<>>
  BY <1>1, WithoutAll
<1>5. k \in Lone => Without(q, LoneRows) = <<>>
  BY <1>1, WithoutAll
<1>6. k # type => q \in Seq(NotOf(type))
  BY <1>1, SeqMonotonic
<1> QED
  BY <1>2, <1>3, <1>4, <1>5, <1>6

LEMMA ExtraLeft ==
  ASSUME NEW q \in Seq(ExtraSlots)
  PROVE  /\ q \in Seq(FormSlots)
         /\ \A type \in Lone : Without(q, NotOf(type)) = <<>>
         /\ Without(q, LoneRows) = q
<1>1. ExtraSlots \subseteq FormSlots /\ ExtraSlots \cap LoneRows = {}
  BY DEF ExtraSlots, LoneRows
<1>2. \A type \in Lone : ExtraSlots \subseteq NotOf(type)
  BY DEF ExtraSlots, NotOf
<1>3. q \in Seq(FormSlots)
  BY <1>1, SeqMonotonic
<1>4. Without(q, LoneRows) = q
  BY <1>1, WithoutNone
<1>5. \A type \in Lone : Without(q, NotOf(type)) = <<>>
  BY <1>2, WithoutAll
<1> QED
  BY <1>3, <1>4, <1>5

\* Five pieces of a sequence.
Pieces(u, a, b, c, x) == u \o a \o b \o c \o x

LEMMA PairJoined ==
  ASSUME NEW T, NEW a \in T, NEW b \in T
  PROVE  <<a>> \o <<b>> = <<a, b>>
<1> DEFINE s == <<a>>
           t == <<b>>
           u == <<a, b>>
           l == s \o t
<1>1. s \in Seq(T) /\ Len(s) = 1 /\ s[1] = a
  OBVIOUS
<1>2. t \in Seq(T) /\ Len(t) = 1 /\ t[1] = b
  OBVIOUS
<1>3. u \in Seq(T) /\ Len(u) = 2 /\ u[1] = a /\ u[2] = b
  OBVIOUS
<1> HIDE DEF s, t, u
<1>4. l \in Seq(T) /\ Len(l) = 2 /\ l[1] = a /\ l[2] = b
  <2>1. l \in Seq(T) /\ Len(l) = Len(s) + Len(t)
        /\ \A i \in 1 .. Len(s) + Len(t) : l[i] = IF i <= Len(s) THEN s[i] ELSE t[i - Len(s)]
    BY <1>1, <1>2, ConcatProperties
  <2> HIDE DEF l
  <2> QED
    BY <1>1, <1>2, <2>1
<1> HIDE DEF l
<1>5. \A i \in 1 .. Len(l) : i = 1 \/ i = 2
  BY <1>4
<1>6. l = u
  BY <1>3, <1>4, <1>5, SeqEqual
<1> QED
  BY <1>6 DEF s, t, u, l

LEMMA WithoutOfFive ==
  ASSUME NEW T, NEW S, NEW u \in Seq(T), NEW a \in Seq(T), NEW b \in Seq(T), NEW c \in Seq(T), NEW x \in Seq(T)
  PROVE  Without(Pieces(u, a, b, c, x), S)
           = Pieces(Without(u, S), Without(a, S), Without(b, S), Without(c, S), Without(x, S))
<1> DEFINE d == u \o a
           e == d \o b
           f == e \o c
<1>1. d \in Seq(T)
  BY ConcatProperties
<1>2. Without(d, S) = Without(u, S) \o Without(a, S)
  BY WithoutConcat
<1> HIDE DEF d
<1>3. e \in Seq(T)
  BY <1>1, ConcatProperties
<1>4. Without(e, S) = Without(d, S) \o Without(b, S)
  BY <1>1, WithoutConcat
<1> HIDE DEF e
<1>5. f \in Seq(T)
  BY <1>3, ConcatProperties
<1>6. Without(f, S) = Without(e, S) \o Without(c, S)
  BY <1>3, WithoutConcat
<1> HIDE DEF f
<1>7. Without(f \o x, S) = Without(f, S) \o Without(x, S)
  BY <1>5, WithoutConcat
<1> QED
  BY <1>2, <1>4, <1>6, <1>7 DEF d, e, f, Pieces

-----------------------------------------------------------------------------
\* A row of a type there is one of, as the form shows it.
Single(type, value) == IF value = <<>> THEN <<>> ELSE <<Slot(type, DefaultLabel, value)>>

LEMMA SingleReads ==
  ASSUME NEW type \in Lone, NEW value \in Text, type \notin Lines => value \in OneLine
  PROVE  Single(type, value) \in Seq(Kind(type))
<1> DEFINE r == Slot(type, DefaultLabel, value)
<1>1. Lone \subseteq SlotTypes
  BY DEF Lone, Singletons, SlotTypes
<1>2. r \in SlotRow /\ r.type = type /\ r.label = DefaultLabel /\ r.value = value
  BY <1>1, Labels DEF Slot, SlotRow
<1>3. r \in Kind(type)
  BY <1>2 DEF Kind, FormSlots
<1> HIDE DEF r
<1>4. <<r>> \in Seq(Kind(type)) /\ <<>> \in Seq(Kind(type))
  BY <1>3
<1> QED
  BY <1>4 DEF Single, r

LEMMA SlotReadied ==
  ASSUME NEW type \in SlotTypes, type \notin Labelled, NEW value \in Text, type \notin Lines => value \in OneLine
  PROVE  /\ Slot(type, <<>>, value) \in SlotRow /\ Slot(type, <<>>, value).type = type
         /\ Readied(Slot(type, <<>>, value)) = Slot(type, DefaultLabel, value)
<1>1. Slot(type, <<>>, value) = [type |-> type, label |-> <<>>, value |-> value] /\ <<>> \in Text
  BY DEF Slot, Text
<1>2. type \notin Lines => Without(value, {"nl"}) = value
  <2>1. (Chars \ {"nl"}) \cap {"nl"} = {}
    OBVIOUS
  <2> QED
    BY <2>1, WithoutNone DEF OneLine
<1> DEFINE e == Slot(type, <<>>, value)
           kept == IF type \in Lines THEN value ELSE Without(value, {"nl"})
<1>3. kept = value
  BY <1>2
<1> HIDE DEF kept
<1>4. e = [type |-> type, label |-> <<>>, value |-> value] /\ e.type = type /\ e.value = value
  BY <1>1
<1> HIDE DEF e
<1>5. Readied(e) = [e EXCEPT !.label = DefaultLabel, !.value = kept]
  BY <1>4 DEF Readied, kept
<1>6. Readied(e) = [type |-> type, label |-> DefaultLabel, value |-> value]
  BY <1>3, <1>4, <1>5
<1>7. e \in SlotRow
  BY <1>1, <1>4 DEF SlotRow
<1> QED
  BY <1>4, <1>6, <1>7 DEF Slot, e

LEMMA FilledAdded ==
  ASSUME NEW list \in Seq(SlotRow), NEW type \in Singletons, NEW value \in Text, type \notin Lines => value \in OneLine,
         AddAll(list) \in Seq(NotOf(type))
  PROVE  /\ AddAll(list \o Filled(type, value)) = AddAll(list) \o Single(type, value)
         /\ list \o Filled(type, value) \in Seq(SlotRow)
<1> DEFINE A == AddAll(list)
           e == Slot(type, <<>>, value)
           r == Slot(type, DefaultLabel, value)
<1>1. type \in SlotTypes /\ type \notin Labelled
  BY DEF Singletons, SlotTypes, Labelled
<1>2. e \in SlotRow /\ e.type = type /\ Readied(e) = r
  BY <1>1, SlotReadied
<1>3. CASE value = <<>>
  <2>1. list \o <<>> = list /\ A \o <<>> = A
    BY ConcatEmptySeq
  <2> QED
    BY <1>3, <2>1 DEF Filled, Single
<1>4. CASE value # <<>>
  <2>1. Filled(type, value) = <<e>> /\ Single(type, value) = <<r>>
    BY <1>4 DEF Filled, Single
  <2>2. r \in FormSlots
    BY <1>2, ReadiedType
  <2>3. A \in Seq(FormSlots)
    BY AddAllType
  <2> HIDE DEF e, r, A
  <2>4. list \o <<e>> = Append(list, e)
    BY <1>2
  <2>5. A \o <<r>> = Append(A, r)
    BY <2>2, <2>3
  <2>6. AddAll(Append(list, e)) = AddExtraSlot(A, e)
    BY <1>2, AddAllAppend DEF A
  <2>7. \A i \in DOMAIN A : A[i].type # type
    <3>1. \A i \in DOMAIN A : A[i] \in NotOf(type)
      BY DEF A
    <3> QED
      BY <3>1 DEF NotOf
  <2>8. AddExtraSlot(A, e) = Append(A, r)
    BY <1>2, <2>7, AddedSlot
  <2>9. Append(list, e) \in Seq(SlotRow)
    BY <1>2
  <2> QED
    BY <2>1, <2>4, <2>5, <2>6, <2>8, <2>9 DEF A
<1> QED
  BY <1>3, <1>4

LEMMA SingleLast ==
  ASSUME NEW list \in Seq(FormSlots), NEW type, NEW value, Of(type, list) = Single(type, value)
  PROVE  LastOf(type, list) = value
<1> DEFINE v == Values(type, list)
<1>1. v = [i \in DOMAIN Single(type, value) |-> Single(type, value)[i].value]
  BY KindsChosen
<1>2. LastOf(type, list) = IF v = <<>> THEN <<>> ELSE v[Len(v)]
  BY DEF LastOf, Last
<1> HIDE DEF v
<1>3. CASE value = <<>>
  <2>1. v = <<>>
    BY <1>1, <1>3 DEF Single
  <2> QED
    BY <1>2, <1>3, <2>1
<1>4. CASE value # <<>>
  <2> DEFINE r == Slot(type, DefaultLabel, value)
  <2>1. Single(type, value) = <<r>>
    BY <1>4 DEF Single
  <2>2. r.value = value
    BY DEF Slot
  <2> HIDE DEF r
  <2>3. v = [i \in 1 .. 1 |-> value]
    BY <1>1, <2>1, <2>2
  <2>4. v = <<value>>
    BY <2>3
  <2>5. v # <<>> /\ Len(v) = 1 /\ v[1] = value
    BY <2>4
  <2> QED
    BY <1>2, <2>5
<1> QED
  BY <1>3, <1>4

-----------------------------------------------------------------------------
(* A secret opened and saved.                                               *)

UrlRows(p, label) == [i \in DOMAIN p.urls |-> Slot("url", label, p.urls[i])]
Starred(p) == IF p.favorite THEN <<"1">> ELSE <<>>

LEMMA UrlsReadied ==
  ASSUME NEW p \in FormPayloads
  PROVE  /\ UrlRows(p, <<>>) \in Seq(Many)
         /\ AllReadied(UrlRows(p, <<>>)) = UrlRows(p, DefaultLabel)
         /\ UrlRows(p, DefaultLabel) \in Seq(Kind("url"))
<1> DEFINE n == Len(p.urls)
           a == UrlRows(p, <<>>)
           b == UrlRows(p, DefaultLabel)
<1>1. p.urls \in Seq(Words \cap OneLine)
  BY DEF FormPayloads
<1>2. n \in Nat /\ DOMAIN p.urls = 1 .. n /\ \A i \in 1 .. n : p.urls[i] \in Words \cap OneLine
  BY <1>1
<1>3. \A i \in 1 .. n : p.urls[i] \in Text /\ p.urls[i] \in OneLine
  BY <1>2 DEF Words, Trimmed
<1>4. "url" \in SlotTypes /\ "url" \notin Labelled /\ "url" \notin Lines /\ "url" \notin Singletons /\ "url" \in Lone
  BY DEF SlotTypes, Labelled, Lines, Singletons, Lone
<1>5. a = [i \in 1 .. n |-> Slot("url", <<>>, p.urls[i])] /\ b = [i \in 1 .. n |-> Slot("url", DefaultLabel, p.urls[i])]
  BY <1>2 DEF UrlRows
<1> HIDE DEF a, b, n
<1>6. \A i \in 1 .. n : a[i] \in SlotRow /\ a[i].type = "url" /\ Readied(a[i]) = b[i]
  BY <1>3, <1>4, <1>5, SlotReadied
<1>7. \A i \in 1 .. n : b[i] \in FormSlots /\ b[i].type = "url"
  <2> TAKE i \in 1 .. n
  <2>1. b[i] \in FormSlots
    BY <1>6, ReadiedType
  <2>2. b[i] = Slot("url", DefaultLabel, p.urls[i])
    BY <1>5
  <2> QED
    BY <2>1, <2>2 DEF Slot
<1>8. a \in [1 .. n -> Many] /\ b \in [1 .. n -> Kind("url")]
  BY <1>4, <1>5, <1>6, <1>7 DEF Many, Kind
<1>9. a \in Seq(Many) /\ b \in Seq(Kind("url")) /\ Len(a) = n
  BY <1>2, <1>8, ListedSeq DEF n
<1>10. AllReadied(a) = b
  <2>1. DOMAIN a = 1 .. n
    BY <1>5
  <2>2. AllReadied(a) = [i \in 1 .. n |-> Readied(a[i])]
    BY <2>1 DEF AllReadied
  <2>3. AllReadied(a) = [i \in 1 .. n |-> b[i]]
    BY <1>6, <2>2
  <2> QED
    BY <1>5, <2>3
<1> QED
  BY <1>9, <1>10 DEF a, b

LEMMA ExtraReadied ==
  ASSUME NEW q \in Seq(ExtraSlots)
  PROVE  q \in Seq(Many) /\ AllReadied(q) = q /\ [i \in DOMAIN q |-> Labeled(q[i])] = q
<1> DEFINE n == Len(q)
<1>1. n \in Nat /\ DOMAIN q = 1 .. n /\ q = [i \in 1 .. n |-> q[i]] /\ \A i \in 1 .. n : q[i] \in ExtraSlots
  BY LenProperties
<1>2. ExtraSlots \subseteq Many
  BY DEF ExtraSlots, FormSlots, Many, Lone
<1>3. ASSUME NEW e \in ExtraSlots PROVE Readied(e) = e /\ Labeled(e) = e
  <2>1. e \in FormSlots /\ e.label \in Words /\ e.label # <<>>
    BY DEF ExtraSlots, Words
  <2>2. e = [type |-> e.type, label |-> e.label, value |-> e.value]
    BY <2>1 DEF FormSlots, SlotRow
  <2>3. Trim(e.label) = e.label
    BY <2>1, TrimKeeps DEF Words
  <2>4. Labeled(e) = e
    BY <2>1, <2>2, <2>3 DEF Labeled, OrElse
  <2> DEFINE lab == IF e.type \in Labelled THEN OrElse(e.label, DefaultLabel) ELSE DefaultLabel
             val == IF e.type \in Lines THEN e.value ELSE Without(e.value, {"nl"})
  <2>5. lab = e.label
    BY <2>1 DEF OrElse, FormSlots
  <2>6. val = e.value
    <3>1. e.type \notin Lines => e.value \in OneLine
      BY <2>1 DEF FormSlots
    <3>2. (Chars \ {"nl"}) \cap {"nl"} = {}
      OBVIOUS
    <3>3. e.type \notin Lines => Without(e.value, {"nl"}) = e.value
      BY <3>1, <3>2, WithoutNone DEF OneLine
    <3> QED
      BY <3>3
  <2>7. Readied(e) = [e EXCEPT !.label = lab, !.value = val]
    BY DEF Readied
  <2> HIDE DEF lab, val
  <2>8. Readied(e) = e
    BY <2>2, <2>5, <2>6, <2>7
  <2> QED
    BY <2>4, <2>8
<1>4. q \in Seq(Many)
  BY <1>2, SeqMonotonic
<1>5. AllReadied(q) = q
  <2>1. AllReadied(q) = [i \in 1 .. n |-> Readied(q[i])]
    BY <1>1 DEF AllReadied
  <2>2. AllReadied(q) = [i \in 1 .. n |-> q[i]]
    BY <1>1, <1>3, <2>1
  <2> QED
    BY <1>1, <2>2
<1>6. [i \in DOMAIN q |-> Labeled(q[i])] = q
  <2>1. [i \in DOMAIN q |-> Labeled(q[i])] = [i \in 1 .. n |-> q[i]]
    BY <1>1, <1>3
  <2> QED
    BY <1>1, <2>1
<1> QED
  BY <1>4, <1>5, <1>6

\* The rows of the form of a secret that is edited.
Opening(p) == UrlRows(p, DefaultLabel) \o Single("totp", p.totp_seed) \o Single("notes", p.notes)
              \o Single("favorite", Starred(p)) \o p.extra

LEMMA EditValues ==
  ASSUME NEW p \in FormPayloads
  PROVE  /\ p.totp_seed \in Trimmed /\ p.totp_seed \in OneLine /\ p.totp_seed \in Text
         /\ p.notes \in Text
         /\ Starred(p) \in Text /\ Starred(p) \in OneLine /\ p.favorite \in BOOLEAN
         /\ p.extra \in Seq(ExtraSlots)
<1>1. p \in Payloads /\ p.totp_seed \in OneLine /\ p.extra \in Seq(ExtraSlots)
  BY DEF FormPayloads
<1>2. p.totp_seed \in Trimmed /\ p.notes \in Text /\ p.favorite \in BOOLEAN
  BY <1>1 DEF Payloads
<1>3. p.totp_seed \in Text
  BY <1>2 DEF Trimmed
<1>4. <<"1">> \in Seq(Chars) /\ <<"1">> \in Seq(Chars \ {"nl"}) /\ <<>> \in Seq(Chars) /\ <<>> \in Seq(Chars \ {"nl"})
  <2>1. "1" \in Chars
    BY ImportExportAssumption
  <2> QED
    BY <2>1
<1> QED
  BY <1>1, <1>2, <1>3, <1>4 DEF Starred, Text, OneLine

\* The rows of a payload whose labels are those the form shows.
FilledForm(p) ==
    AddAll([i \in DOMAIN p.urls |-> Slot("url", <<>>, p.urls[i])]
           \o Filled("totp", p.totp_seed) \o Filled("notes", p.notes)
           \o Filled("favorite", Starred(p)) \o p.extra)

LEMMA FormHydrated ==
  ASSUME NEW p \in FormPayloads
  PROVE  FilledForm(p) = Opening(p)
<1> DEFINE u0 == UrlRows(p, <<>>)
           u == UrlRows(p, DefaultLabel)
           a0 == Filled("totp", p.totp_seed)
           a == Single("totp", p.totp_seed)
           b0 == Filled("notes", p.notes)
           b == Single("notes", p.notes)
           c0 == Filled("favorite", Starred(p))
           c == Single("favorite", Starred(p))
           x == p.extra
           l1 == u0 \o a0
           l2 == l1 \o b0
           l3 == l2 \o c0
           r1 == u \o a
           r2 == r1 \o b
           r3 == r2 \o c
<1>1. FilledForm(p) = AddAll(l3 \o x) /\ Opening(p) = r3 \o x
  BY DEF FilledForm, Opening, UrlRows
<1>2. "totp" \in Singletons /\ "notes" \in Singletons /\ "favorite" \in Singletons /\ "notes" \in Lines
      /\ "totp" \in Lone /\ "notes" \in Lone /\ "favorite" \in Lone
  BY DEF Singletons, Lines, Lone
<1>3. /\ a \in Seq(Kind("totp"))
      /\ b \in Seq(Kind("notes"))
      /\ c \in Seq(Kind("favorite"))
  BY <1>2, EditValues, SingleReads
<1>4. u0 \in Seq(Many) /\ AllReadied(u0) = u /\ u \in Seq(Kind("url"))
  BY UrlsReadied
<1>5. u0 \in Seq(SlotRow) /\ AddAll(u0) = u
  <2>1. Many \subseteq SlotRow
    BY DEF Many
  <2>2. u0 \in Seq(SlotRow)
    BY <1>4, <2>1, SeqMonotonic
  <2> DEFINE z == <<>>
  <2>3. z \in Seq(SlotRow) /\ z \o u0 = u0 /\ z \o u = u
    BY <1>4, <2>2, ConcatEmptySeq
  <2>4. AddAll(z) = z
    BY AddAllEmpty
  <2> HIDE DEF z, u0, u
  <2>5. AddAll(z \o u0) = AddAll(z) \o AllReadied(u0)
    BY <1>4, <2>3, ManyAdded
  <2> QED
    BY <1>4, <2>2, <2>3, <2>4, <2>5
<1> HIDE DEF u0, u, a, b, c
<1>6. u \in Seq(NotOf("totp")) /\ u \in Seq(NotOf("notes")) /\ u \in Seq(NotOf("favorite"))
      /\ a \in Seq(NotOf("notes")) /\ a \in Seq(NotOf("favorite")) /\ b \in Seq(NotOf("favorite"))
  BY <1>3, <1>4, KindLeft
<1>7. AddAll(l1) = r1 /\ l1 \in Seq(SlotRow)
  BY <1>2, <1>5, <1>6, EditValues, FilledAdded DEF a
<1>8. r1 \in Seq(NotOf("notes")) /\ r1 \in Seq(NotOf("favorite"))
  BY <1>6, ConcatProperties
<1> HIDE DEF l1, r1
<1>9. AddAll(l2) = r2 /\ l2 \in Seq(SlotRow)
  BY <1>2, <1>7, <1>8, EditValues, FilledAdded DEF b
<1>10. r2 \in Seq(NotOf("favorite"))
  BY <1>6, <1>8, ConcatProperties
<1> HIDE DEF l2, r2
<1>11. AddAll(l3) = r3 /\ l3 \in Seq(SlotRow)
  BY <1>2, <1>9, <1>10, EditValues, FilledAdded DEF c
<1> HIDE DEF l3, r3
<1>12. x \in Seq(Many) /\ AllReadied(x) = x
  BY EditValues, ExtraReadied
<1>13. AddAll(l3 \o x) = r3 \o x
  BY <1>11, <1>12, ManyAdded
<1> QED
  BY <1>1, <1>13 DEF l3, r3

LEMMA OpeningRead ==
  ASSUME NEW p \in FormPayloads
  PROVE  /\ Opening(p) \in Seq(FormSlots)
         /\ Of("url", Opening(p)) = UrlRows(p, DefaultLabel)
         /\ Of("totp", Opening(p)) = Single("totp", p.totp_seed)
         /\ Of("notes", Opening(p)) = Single("notes", p.notes)
         /\ Of("tags", Opening(p)) = Single("tags", <<>>)
         /\ Of("favorite", Opening(p)) = Single("favorite", Starred(p))
         /\ Without(Opening(p), LoneRows) = p.extra
<1> DEFINE u == UrlRows(p, DefaultLabel)
           a == Single("totp", p.totp_seed)
           b == Single("notes", p.notes)
           c == Single("favorite", Starred(p))
           x == p.extra
           z == <<>>
           T == FormSlots
<1>1. "totp" \in Lone /\ "notes" \in Lone /\ "favorite" \in Lone /\ "url" \in Lone /\ "tags" \in Lone /\ "notes" \in Lines
  BY DEF Lone, Singletons, Lines
<1>2. /\ u \in Seq(Kind("url"))
      /\ a \in Seq(Kind("totp"))
      /\ b \in Seq(Kind("notes"))
      /\ c \in Seq(Kind("favorite"))
      /\ x \in Seq(ExtraSlots)
  BY <1>1, EditValues, SingleReads, UrlsReadied
<1>3. Opening(p) = Pieces(u, a, b, c, x)
  BY DEF Opening, Pieces
<1>4. Single("tags", <<>>) = z
  BY DEF Single
<1> HIDE DEF u, a, b, c, x
<1>5. u \in Seq(T) /\ a \in Seq(T) /\ b \in Seq(T) /\ c \in Seq(T) /\ x \in Seq(T)
  BY <1>2, KindLeft, ExtraLeft
<1>6. \A S : Without(Pieces(u, a, b, c, x), S)
             = Pieces(Without(u, S), Without(a, S), Without(b, S), Without(c, S), Without(x, S))
  BY <1>5, WithoutOfFive
<1>7. Pieces(u, a, b, c, x) \in Seq(T)
  BY <1>5, ConcatProperties DEF Pieces
<1>8. z \o z = z /\ (\A s \in Seq(T) : s \o z = s /\ z \o s = s)
  BY ConcatEmptySeq
<1>9. /\ Without(u, NotOf("url")) = u /\ Without(u, NotOf("totp")) = z /\ Without(u, NotOf("notes")) = z
      /\ Without(u, NotOf("tags")) = z /\ Without(u, NotOf("favorite")) = z /\ Without(u, LoneRows) = z
  BY <1>1, <1>2, KindLeft
<1>10. /\ Without(a, NotOf("url")) = z /\ Without(a, NotOf("totp")) = a /\ Without(a, NotOf("notes")) = z
       /\ Without(a, NotOf("tags")) = z /\ Without(a, NotOf("favorite")) = z /\ Without(a, LoneRows) = z
  BY <1>1, <1>2, KindLeft
<1>11. /\ Without(b, NotOf("url")) = z /\ Without(b, NotOf("totp")) = z /\ Without(b, NotOf("notes")) = b
       /\ Without(b, NotOf("tags")) = z /\ Without(b, NotOf("favorite")) = z /\ Without(b, LoneRows) = z
  BY <1>1, <1>2, KindLeft
<1>12. /\ Without(c, NotOf("url")) = z /\ Without(c, NotOf("totp")) = z /\ Without(c, NotOf("notes")) = z
       /\ Without(c, NotOf("tags")) = z /\ Without(c, NotOf("favorite")) = c /\ Without(c, LoneRows) = z
  BY <1>1, <1>2, KindLeft
<1>13. /\ Without(x, NotOf("url")) = z /\ Without(x, NotOf("totp")) = z /\ Without(x, NotOf("notes")) = z
       /\ Without(x, NotOf("tags")) = z /\ Without(x, NotOf("favorite")) = z /\ Without(x, LoneRows) = x
  BY <1>1, <1>2, ExtraLeft
<1> DEFINE o == Opening(p)
<1>14. o = Pieces(u, a, b, c, x)
  BY <1>3
<1> HIDE DEF o, z, T
<1>15. Of("url", o) = u
  <2>1. Of("url", o) = Pieces(u, z, z, z, z)
    BY <1>6, <1>9, <1>10, <1>11, <1>12, <1>13, <1>14 DEF Of
  <2> QED
    BY <1>5, <1>8, <2>1 DEF Pieces
<1>16. Of("totp", o) = a
  <2>1. Of("totp", o) = Pieces(z, a, z, z, z)
    BY <1>6, <1>9, <1>10, <1>11, <1>12, <1>13, <1>14 DEF Of
  <2> QED
    BY <1>5, <1>8, <2>1 DEF Pieces
<1>17. Of("notes", o) = b
  <2>1. Of("notes", o) = Pieces(z, z, b, z, z)
    BY <1>6, <1>9, <1>10, <1>11, <1>12, <1>13, <1>14 DEF Of
  <2> QED
    BY <1>5, <1>8, <2>1 DEF Pieces
<1>18. Of("favorite", o) = c
  <2>1. Of("favorite", o) = Pieces(z, z, z, c, z)
    BY <1>6, <1>9, <1>10, <1>11, <1>12, <1>13, <1>14 DEF Of
  <2> QED
    BY <1>5, <1>8, <2>1 DEF Pieces
<1>19. Of("tags", o) = z
  <2>1. Of("tags", o) = Pieces(z, z, z, z, z)
    BY <1>6, <1>9, <1>10, <1>11, <1>12, <1>13, <1>14 DEF Of
  <2> QED
    BY <1>8, <2>1 DEF Pieces
<1>20. Without(o, LoneRows) = x
  <2>1. Without(o, LoneRows) = Pieces(z, z, z, z, x)
    BY <1>6, <1>9, <1>10, <1>11, <1>12, <1>13, <1>14
  <2> QED
    BY <1>5, <1>8, <2>1 DEF Pieces
<1>21. o \in Seq(FormSlots)
  BY <1>7, <1>14 DEF T
<1> QED
  BY <1>4, <1>15, <1>16, <1>17, <1>18, <1>19, <1>20, <1>21 DEF o, u, a, b, c, x

\* What the form reads from its inputs is what they were filled with.
Reread(p) == NormalizeSecretPayload(CollectPayload(FilledForm(p),
    [username |-> p.username, password |-> p.password, tagsInput |-> Join(p.tags, <<"comma", "sp">>)]))

LEMMA EditComesBack ==
  ASSUME NEW p \in FormPayloads
  PROVE  Reread(p) = p
<1> DEFINE o == Opening(p)
           input == Join(p.tags, <<"comma", "sp">>)
           core == [username |-> p.username, password |-> p.password, tagsInput |-> input]
           ex == ExtraOf(o)
<1>1. p \in Payloads /\ p.urls \in Seq(Words) /\ p.tags \in Seq(Tags) /\ p.tags \in TagLists
  BY DEF FormPayloads, Payloads
<1>2. NormalizeSecretPayload(p) = p /\ FilledForm(p) = o
  BY <1>1, NormalPayload, FormHydrated
<1>3. Reread(p) = NormalizeSecretPayload(CollectPayload(o, core))
  BY <1>2 DEF Reread
<1>4. ParseTagsInput(input) = p.tags
  <2> DEFINE pre == <<"sp">>
  <2>1. "sp" \in Chars \cap Blanks /\ "comma" \in Chars
    BY ImportExportAssumption DEF Blanks
  <2> DEFINE B == Chars \cap Blanks
  <2>2. <<"comma">> \o pre = <<"comma", "sp">>
    <3> DEFINE x == "comma"
               y == "sp"
    <3>1. x \in Chars /\ y \in Chars
      BY <2>1
    <3> HIDE DEF x, y
    <3>2. <<x>> \o <<y>> = <<x, y>>
      BY <3>1, PairJoined
    <3> QED
      BY <3>2 DEF x, y
  <2>3. pre \in Seq(B)
    <3> HIDE DEF B
    <3> QED
      BY <2>1 DEF B
  <2> HIDE DEF pre
  <2>4. ParseTagsInput(Join(p.tags, <<"comma">> \o pre)) = p.tags
    BY <1>1, <2>1, <2>3, TagsRead
  <2> QED
    BY <2>2, <2>4
<1> HIDE DEF o, input
<1>5. CollectPayload(o, core) =
        [username |-> core.username, password |-> core.password,
         urls |-> NotEmpty(TrimAll(Values("url", o))),
         totp_seed |-> Trim(LastOf("totp", o)), notes |-> LastOf("notes", o),
         tags |-> MergeTags(ParseTagsInput(LastOf("tags", o)), ParseTagsInput(core.tagsInput)),
         favorite |-> LastOf("favorite", o) = <<"1">>,
         extra |-> [i \in DOMAIN ex |-> Labeled(ex[i])]]
  BY CollectedFields
<1>6. core.username = p.username /\ core.password = p.password /\ core.tagsInput = input
  OBVIOUS
<1>7. o \in Seq(FormSlots)
  BY OpeningRead DEF o
<1>8. ex = p.extra
  BY <1>7, KindsChosen, OpeningRead DEF o
<1> HIDE DEF core, ex
<1>9. Values("url", o) = p.urls
  <2> DEFINE u == UrlRows(p, DefaultLabel)
             n == Len(p.urls)
  <2>1. Values("url", o) = [i \in DOMAIN u |-> u[i].value]
    BY <1>7, KindsChosen, OpeningRead DEF o
  <2>2. n \in Nat /\ DOMAIN p.urls = 1 .. n /\ p.urls = [i \in 1 .. n |-> p.urls[i]]
    BY <1>1, LenProperties
  <2>3. u = [i \in 1 .. n |-> Slot("url", DefaultLabel, p.urls[i])]
    BY <2>2 DEF UrlRows
  <2> HIDE DEF u, n
  <2>4. DOMAIN u = 1 .. n /\ \A i \in 1 .. n : u[i].value = p.urls[i]
    BY <2>3 DEF Slot
  <2>5. Values("url", o) = [i \in 1 .. n |-> p.urls[i]]
    BY <2>1, <2>4
  <2> QED
    BY <2>2, <2>5
<1>10. /\ LastOf("totp", o) = p.totp_seed /\ LastOf("notes", o) = p.notes
       /\ LastOf("favorite", o) = Starred(p) /\ LastOf("tags", o) = <<>>
  BY <1>7, OpeningRead, SingleLast DEF o
<1>11. NotEmpty(TrimAll(p.urls)) = p.urls /\ Trim(p.totp_seed) = p.totp_seed
  BY <1>1, CleanStays, EditValues, TrimKeeps
<1>12. MergeTags(ParseTagsInput(<<>>), ParseTagsInput(input)) = p.tags
  BY <1>1, <1>4, NoTagsParsed, MergedFromNone
<1>13. (Starred(p) = <<"1">>) = p.favorite
  BY EditValues DEF Starred
<1>14. [i \in DOMAIN ex |-> Labeled(ex[i])] = p.extra
  BY <1>8, EditValues, ExtraReadied
<1>15. CollectPayload(o, core) =
        [username |-> p.username, password |-> p.password, urls |-> p.urls, totp_seed |-> p.totp_seed,
         notes |-> p.notes, tags |-> p.tags, favorite |-> p.favorite, extra |-> p.extra]
  BY <1>5, <1>6, <1>9, <1>10, <1>11, <1>12, <1>13, <1>14
<1>16. p = [username |-> p.username, password |-> p.password, urls |-> p.urls, totp_seed |-> p.totp_seed,
            notes |-> p.notes, tags |-> p.tags, favorite |-> p.favorite, extra |-> p.extra]
  BY <1>1 DEF Payloads
<1> QED
  BY <1>2, <1>3, <1>15, <1>16

\* The label a row is made with, when the browser has read it from the HTML.
ShownLabel(t) == AttributeRead(AsAttribute(t))

LEMMA ShownText ==
  ASSUME NEW t \in Text
  PROVE  /\ ShownLabel(t) \in Text /\ Len(ShownLabel(t)) = Len(t)
         /\ t \in Words => ShownLabel(t) \in Words
         /\ ~Contains(t, "ref") => ShownLabel(t) = t
<1> DEFINE n == Len(t)
           u == ShownLabel(t)
<1>1. n \in Nat /\ DOMAIN t = 1 .. n /\ t = [i \in 1 .. n |-> t[i]] /\ \A i \in 1 .. n : t[i] \in Chars
  BY LenProperties DEF Text
<1>2. "q" \in Chars /\ "q" \notin Blanks
  BY ImportExportAssumption DEF Blanks
<1> DEFINE a == AsAttribute(t)
<1> HIDE DEF n
<1>3. a = [i \in 1 .. n |-> IF t[i] = "q" THEN "ref" ELSE t[i]]
  BY <1>1 DEF AsAttribute
<1>4. u = [i \in 1 .. n |-> IF t[i] \in {"q", "ref"} THEN "q" ELSE t[i]]
  <2>1. u = [i \in DOMAIN a |-> IF a[i] = "ref" THEN "q" ELSE a[i]]
    BY DEF ShownLabel, AttributeRead
  <2> HIDE DEF a, u
  <2>2. DOMAIN a = 1 .. n /\ \A i \in 1 .. n : a[i] = IF t[i] = "q" THEN "ref" ELSE t[i]
    BY <1>3
  <2>3. \A i \in 1 .. n : (IF a[i] = "ref" THEN "q" ELSE a[i]) = IF t[i] \in {"q", "ref"} THEN "q" ELSE t[i]
    BY <2>2
  <2> QED
    BY <2>1, <2>2, <2>3
<1> HIDE DEF u
<1>5. u \in [1 .. n -> Chars]
  BY <1>1, <1>2, <1>4
<1>6. u \in Text /\ Len(u) = n
  BY <1>1, <1>5, ListedSeq DEF Text
<1>7. ASSUME t \in Words PROVE u \in Words
  <2>1. t # <<>> /\ t[1] \notin Blanks /\ t[n] \notin Blanks
    BY <1>7 DEF Words, Trimmed, n
  <2>2. n # 0
    BY <1>1, <2>1, EmptySeq DEF Text, n
  <2>3. 1 \in 1 .. n /\ n \in 1 .. n
    BY <1>1, <2>2
  <2>4. u[1] \notin Blanks /\ u[n] \notin Blanks
    BY <1>2, <1>4, <2>1, <2>3
  <2>5. u # <<>>
    BY <1>6, <2>2
  <2> QED
    BY <1>6, <2>4, <2>5 DEF Words, Trimmed
<1>8. ASSUME ~Contains(t, "ref") PROVE u = t
  <2>1. \A i \in 1 .. n : t[i] # "ref"
    BY <1>1, <1>8 DEF Contains
  <2> QED
    BY <1>1, <1>4, <2>1
<1> QED
  BY <1>6, <1>7, <1>8 DEF n, u

\* The payload the form shows.
Displayed(p) == [p EXCEPT !.extra = PrefilledAll(@)]

LEMMA DisplayedPayload ==
  ASSUME NEW p \in FormPayloads
  PROVE  /\ Displayed(p) \in FormPayloads /\ SavedAs(p, Displayed(p))
         /\ HydrateExtraSlots(p) = FilledForm(Displayed(p))
<1> DEFINE x == p.extra
           n == Len(x)
           y == PrefilledAll(x)
           d == Displayed(p)
<1>1. p \in Payloads /\ x \in Seq(ExtraSlots)
  BY DEF FormPayloads
<1>2. n \in Nat /\ DOMAIN x = 1 .. n /\ \A i \in 1 .. n : x[i] \in ExtraSlots
  BY <1>1, LenProperties
<1>3. ASSUME NEW e \in ExtraSlots
      PROVE  /\ Prefilled(e) \in ExtraSlots /\ Prefilled(e).type = e.type /\ Prefilled(e).value = e.value
             /\ ~Contains(e.label, "ref") => Prefilled(e).label = e.label
  <2>1. e \in SlotRow /\ e \in FormSlots /\ e.type \notin Lone /\ e.label \in Words
    BY DEF ExtraSlots, FormSlots
  <2>2. e = [type |-> e.type, label |-> e.label, value |-> e.value] /\ e.label \in Text
    BY <2>1 DEF SlotRow
  <2>3. Prefilled(e) = [type |-> e.type, label |-> ShownLabel(e.label), value |-> e.value]
    <3> DEFINE lab == ShownLabel(e.label)
    <3>1. Prefilled(e) = [e EXCEPT !.label = lab]
      BY DEF Prefilled, ShownLabel
    <3> HIDE DEF lab
    <3>2. Prefilled(e) = [type |-> e.type, label |-> lab, value |-> e.value]
      BY <2>2, <3>1
    <3> QED
      BY <3>2 DEF lab
  <2>4. /\ ShownLabel(e.label) \in Text /\ ShownLabel(e.label) \in Words
        /\ ~Contains(e.label, "ref") => ShownLabel(e.label) = e.label
    BY <2>1, <2>2, ShownText
  <2>5. ~Contains(DefaultLabel, "ref")
    BY DEF Contains, DefaultLabel
  <2>6. Prefilled(e) \in SlotRow
    BY <2>1, <2>3, <2>4 DEF SlotRow
  <2>7. Prefilled(e) \in FormSlots
    BY <2>1, <2>3, <2>4, <2>5, <2>6 DEF FormSlots
  <2> QED
    BY <2>1, <2>3, <2>4, <2>7 DEF ExtraSlots
<1>4. DOMAIN y = 1 .. n /\ \A i \in 1 .. n : y[i] = Prefilled(x[i])
  BY <1>2 DEF PrefilledAll
<1>5. y = [i \in 1 .. n |-> Prefilled(x[i])]
  BY <1>2 DEF PrefilledAll
<1> HIDE DEF y
<1>6. y \in [1 .. n -> ExtraSlots]
  BY <1>2, <1>3, <1>5
<1> HIDE DEF n
<1>7. y \in Seq(ExtraSlots)
  BY <1>2, <1>6, ListedSeq
<1>8. ExtraSlots \subseteq SlotRow
  BY DEF ExtraSlots, FormSlots
<1>9. y \in Seq(SlotRow)
  BY <1>7, <1>8, SeqMonotonic
<1>10. d = [p EXCEPT !.extra = y]
  BY DEF Displayed, y
<1> HIDE DEF d
<1>11. /\ d.extra = y /\ \A f \in DOMAIN p \ {"extra"} : d[f] = p[f]
       /\ DOMAIN p = {"username", "password", "urls", "totp_seed", "notes", "tags", "favorite", "extra"}
  BY <1>1, <1>10 DEF Payloads
<1>12. d \in FormPayloads
  <2>1. d \in Payloads
    BY <1>1, <1>9, <1>10 DEF Payloads
  <2>2. d.urls = p.urls /\ d.totp_seed = p.totp_seed /\ d.tags = p.tags
    BY <1>11
  <2> QED
    BY <1>7, <1>11, <2>1, <2>2 DEF FormPayloads
<1>13. SavedAs(p, d)
  <2>1. \A k \in 1 .. n : /\ y[k].type = x[k].type /\ y[k].value = x[k].value
                          /\ ~Contains(x[k].label, "ref") => y[k].label = x[k].label
    BY <1>2, <1>3, <1>4
  <2> QED
    BY <1>2, <1>4, <1>11, <2>1 DEF SavedAs
<1>14. HydrateExtraSlots(p) = FilledForm(d)
  <2>1. d.urls = p.urls /\ d.totp_seed = p.totp_seed /\ d.notes = p.notes /\ d.favorite = p.favorite
    BY <1>11
  <2> QED
    BY <1>11, <2>1 DEF HydrateExtraSlots, FilledForm, Starred, y
<1> QED
  BY <1>12, <1>13, <1>14 DEF d

\* Opening a secret and saving it unchanged.
LEMMA EditSaves ==
  ASSUME NEW p \in FormPayloads
  PROVE  Resaved(p) = Displayed(p)
<1> DEFINE d == Displayed(p)
<1>1. p \in Payloads /\ NormalizeSecretPayload(p) = p
  BY NormalPayload DEF FormPayloads
<1>2. HydrateExtraSlots(p) = FilledForm(d) /\ d \in FormPayloads
  BY DisplayedPayload
<1>3. d.username = p.username /\ d.password = p.password /\ d.tags = p.tags
  BY <1>1 DEF Displayed, Payloads
<1> HIDE DEF d
<1>4. Resaved(p) = Reread(d)
  BY <1>1, <1>2, <1>3 DEF Resaved, Reread
<1> QED
  BY <1>2, <1>4, EditComesBack DEF d

\* For any forms: opening a secret the form made and saving it unchanged keeps every
\* field, and of the extra fields number, order, types, values and each label with no
\* character reference in it (app.js dedit, hydrateExtraSlots, addExtraSlot, dsave,
\* collectPayloadFromSlots).
THEOREM EditsKeep == Spec => []EditKeepsPayload
<1>1. ASSUME FileInvariant PROVE EditKeepsPayload
  <2>1. rows \in Seq(Rows)
    BY <1>1 DEF FileInvariant, Origin
  <2>2. \A i \in DOMAIN rows : rows[i] \in Rows
    BY <2>1
  <2>3. \A i \in DOMAIN rows : rows[i].payload \in FormPayloads
    BY <2>2 DEF Rows
  <2>4. \A i \in DOMAIN rows : SavedAs(rows[i].payload, Resaved(rows[i].payload))
    BY <2>3, EditSaves, DisplayedPayload
  <2> QED
    BY <2>4 DEF EditKeepsPayload
<1> QED
  BY <1>1, FilesInvariant, PTL

-----------------------------------------------------------------------------
(* The files of other programs.                                             *)

\* A field is looked for under its names in their order, in the first column of
\* that name.
LEMMA CellIs ==
  ASSUME NEW h, NEW field, NEW ts, Len(h) \in Nat, DOMAIN ts = 1 .. Len(h), Len(ColumnNames[field]) \in Nat,
         NEW m \in 1 .. Len(ColumnNames[field]), NEW k \in 1 .. Len(h), h[k] = ColumnNames[field][m],
         \A j \in 1 .. Len(h) : h[j] = h[k] => k <= j,
         \A q \in 1 .. Len(ColumnNames[field]) : q < m => \A j \in 1 .. Len(h) : h[j] # ColumnNames[field][q]
  PROVE  Cell(h, field, ts) = ts[k]
<1> DEFINE names == ColumnNames[field]
           I == {i \in 1 .. Len(names) : Contains(h, names[i])}
           H(n) == {j \in 1 .. Len(h) : h[j] = names[n]}
           J == H(m)
           name == IF I # {} THEN Min(I) ELSE 0
           at == IF name = 0 THEN 0 ELSE IF H(name) # {} THEN Min(H(name)) ELSE 0
<1>1. I \subseteq Nat /\ m \in Nat /\ k \in Nat /\ m # 0
  OBVIOUS
<1>2. m \in I
  BY DEF Contains
<1>3. \A i \in I : m <= i
  <2> TAKE i \in I
  <2>1. i \in 1 .. Len(names) /\ \E j \in 1 .. Len(h) : h[j] = names[i]
    BY DEF Contains
  <2>2. ~(i < m)
    BY <2>1
  <2> QED
    BY <1>1, <2>1, <2>2
<1>4. name = m
  <2> HIDE DEF I
  <2> QED
    BY <1>1, <1>2, <1>3, LeastIs
<1>5. k \in J /\ J \subseteq Nat /\ \A j \in J : k <= j
  BY <1>1
<1>6. at = k
  <2>1. at = IF J # {} THEN Min(J) ELSE 0
    <3> HIDE DEF name, H
    <3> QED
      BY <1>1, <1>4
  <2> HIDE DEF J, at
  <2> QED
    BY <1>5, <2>1, LeastIs
<1>7. Cell(h, field, ts) = IF at \in DOMAIN ts THEN ts[at] ELSE <<>>
  BY DEF Cell, SelectInSeq
<1> HIDE DEF at
<1> QED
  BY <1>6, <1>7

LEMMA RowParsed ==
  ASSUME NEW header, NEW row \in Seq(Plain), Len(row) # 0
  PROVE  ParseCSV(header, CsvText(<<row>>)) = [i \in 1 .. 1 |-> CsvItem(Named(header), row)]
<1> DEFINE cells == <<row>>
           n == Len(row)
<1>1. n \in Nat \ {0} /\ row \in [1 .. n -> Plain] /\ DOMAIN row = 1 .. n
  OBVIOUS
<1>2. Plain \subseteq Trimmed /\ Plain \subseteq Seq(Chars \ {"nl"})
  BY DEF Plain, OneLine
<1>3. row \in LineParts
  <2> DEFINE D == Seq(Chars \ {"nl"})
  <2>1. Plain \subseteq D
    BY <1>2
  <2> HIDE DEF D
  <2>2. row \in Seq(D) /\ row # <<>>
    BY <2>1, SeqMonotonic
  <2> QED
    BY <2>2 DEF LineParts, Parts, D
<1>4. TrimAll(row) = row
  <2>1. \A i \in 1 .. n : Trim(row[i]) = row[i]
    BY <1>1, <1>2, TrimKeeps
  <2> HIDE DEF n
  <2>2. TrimAll(row) = [i \in 1 .. n |-> row[i]]
    BY <1>1, <2>1 DEF TrimAll
  <2> QED
    BY <1>1, <2>2
<1>5. DOMAIN cells = 1 .. 1 /\ cells[1] = row
  OBVIOUS
<1> HIDE DEF cells
<1>6. \A i \in 1 .. 1 : cells[i] = row
  BY <1>5
<1>7. ParseCSV(header, CsvText(cells)) = [i \in 1 .. 1 |-> CsvItem(Named(header), TrimAll(cells[i]))]
  <2> DEFINE k == 1
  <2>1. k \in Nat \ {0} /\ DOMAIN cells = 1 .. k
    BY <1>5
  <2>2. \A i \in 1 .. k : cells[i] \in LineParts
    BY <1>3, <1>6
  <2> HIDE DEF k
  <2>3. ParseCSV(header, CsvText(cells)) = [i \in 1 .. k |-> CsvItem(Named(header), TrimAll(cells[i]))]
    BY <2>1, <2>2, FileRead
  <2> QED
    BY <2>3 DEF k
<1> QED
  BY <1>4, <1>6, <1>7 DEF cells

\* What of an item its parts decide.
LEMMA RawItem ==
  ASSUME NEW raw, {"title", "username", "password", "urls", "notes", "totp_seed"} \subseteq DOMAIN raw
  PROVE  LET it == NormalizeItem(raw)
         IN /\ it.username = raw.username /\ it.password = raw.password /\ it.urls = NotEmpty(TrimAll(raw.urls))
            /\ it.notes = raw.notes /\ it.totp_seed = Trim(raw.totp_seed)
            /\ it.title = OrElse(Trim(raw.title), <<"Import">>)
<1> DEFINE r == [f \in DOMAIN Blank |-> IF f \in DOMAIN raw THEN raw[f] ELSE Blank[f]]
           it == NormalizeItem(raw)
<1>1. DOMAIN Blank = {"title", "username", "password", "urls", "notes", "totp_seed", "tags", "favorite",
                  "folder", "extra"}
  BY DEF Blank
<1>2. /\ r.title = raw.title /\ r.username = raw.username /\ r.password = raw.password /\ r.urls = raw.urls
      /\ r.notes = raw.notes /\ r.totp_seed = raw.totp_seed /\ DOMAIN r = DOMAIN Blank
  BY <1>1
<1>3. it = [r EXCEPT !.title = OrElse(Trim(@), <<"Import">>), !.urls = NotEmpty(TrimAll(@)),
                      !.totp_seed = Trim(@), !.folder = Trim(@)]
  BY DEF NormalizeItem
<1> HIDE DEF r, it
<1>4. /\ it.title = OrElse(Trim(r.title), <<"Import">>) /\ it.username = r.username /\ it.password = r.password
      /\ it.urls = NotEmpty(TrimAll(r.urls)) /\ it.notes = r.notes /\ it.totp_seed = Trim(r.totp_seed)
  BY <1>1, <1>2, <1>3
<1> QED
  BY <1>2, <1>4 DEF it

\* What of an item the columns of a file decide.
LEMMA ItemOfCells ==
  ASSUME NEW h, NEW ts
  PROVE  LET it == CsvItem(h, ts)
         IN /\ it.username = Cell(h, "username", ts) /\ it.password = Cell(h, "password", ts)
            /\ it.urls = NotEmpty(TrimAll(SplitUrls(Cell(h, "url", ts)))) /\ it.notes = Cell(h, "notes", ts)
            /\ it.totp_seed = Trim(Cell(h, "totp_seed", ts))
            /\ Cell(h, "title", ts) # <<>> => it.title = OrElse(Trim(Cell(h, "title", ts)), <<"Import">>)
<1> DEFINE cell(field) == Cell(h, field, ts)
           title == OrElse(cell("title"), OrElse(HostFromUrl(cell("url")), ts[1]))
           raw == [title |-> title, username |-> cell("username"),
                   password |-> cell("password"), urls |-> SplitUrls(cell("url")), notes |-> cell("notes"),
                   totp_seed |-> cell("totp_seed"), folder |-> cell("folder"), tags |-> ParseTagsInput(cell("tags")),
                   favorite |-> cell("favorite") = <<"1">>]
<1>1. CsvItem(h, ts) = NormalizeItem(raw)
  BY DEF CsvItem
<1>2. cell("title") # <<>> => title = cell("title")
  BY DEF OrElse
<1> HIDE DEF cell, title
<1>3. /\ raw.title = title /\ raw.username = cell("username") /\ raw.password = cell("password")
      /\ raw.urls = SplitUrls(cell("url")) /\ raw.notes = cell("notes") /\ raw.totp_seed = cell("totp_seed")
  OBVIOUS
<1>4. {"title", "username", "password", "urls", "notes", "totp_seed"} \subseteq DOMAIN raw
  OBVIOUS
<1> HIDE DEF raw
<1> QED
  BY <1>1, <1>2, <1>3, <1>4, RawItem DEF cell

LEMMA Unsplit ==
  ASSUME NEW T, NEW seps, NEW U, U = T \ seps, NEW u \in Seq(U)
  PROVE  Split(u, seps) = <<u>>
<1> DEFINE none == <<>>
           parts == Split(none, seps)
           one == <<u>>
<1>1. u \in Seq(T)
  <2>1. U \subseteq T
    OBVIOUS
  <2> QED
    BY <2>1, SeqMonotonic
<1>2. none \in Seq(T) /\ none \o u = u
  BY <1>1, ConcatEmptySeq
<1>3. parts = << <<>> >>
  BY SplitEmpty
<1>4. Trail(<< <<>> >>, u) = one
  BY TrailStart
<1> HIDE DEF none, one
<1>5. Split(none \o u, seps) = Trail(parts, u)
  <2>1. none \in Seq(T) /\ U = T \ seps /\ u \in Seq(U)
    BY <1>2
  <2>2. Split(none \o u, seps) = Trail(Split(none, seps), u)
    BY <2>1, SplitOn
  <2> QED
    BY <2>2
<1> QED
  BY <1>2, <1>3, <1>4, <1>5 DEF one

\* An address is one when nothing separates it.
LEMMA OneUrl ==
  ASSUME NEW u \in Plain, u # <<>>, ~Contains(u, "semi")
  PROVE  SplitUrls(u) = <<u>> /\ NotEmpty(TrimAll(<<u>>)) = <<u>>
<1> DEFINE seps == {"semi", "nl"}
           U == Chars \ seps
           one == <<u>>
<1>1. u \in Trimmed /\ u \in OneLine /\ u \in Text
  BY DEF Plain, Trimmed
<1>2. u \in Seq(U)
  <2>1. \A i \in 1 .. Len(u) : u[i] \in Chars /\ u[i] # "nl" /\ u[i] # "semi"
    BY <1>1 DEF OneLine, Contains
  <2>2. \A i \in 1 .. Len(u) : u[i] \in U
    BY <2>1
  <2>3. Len(u) \in Nat /\ u = [i \in 1 .. Len(u) |-> u[i]]
    BY <1>1 DEF Text
  <2> HIDE DEF U
  <2>4. u \in [1 .. Len(u) -> U]
    BY <2>2, <2>3
  <2> QED
    BY <2>3, <2>4, ListedSeq
<1>3. u \in Words
  BY <1>1 DEF Words
<1>4. one \in Seq(Words)
  BY <1>3
<1>5. NotEmpty(TrimAll(one)) = one
  <2> HIDE DEF one
  <2> QED
    BY <1>4, CleanStays
<1>6. Split(u, seps) = one
  <2>1. U = Chars \ seps
    OBVIOUS
  <2> HIDE DEF one, seps, U
  <2> QED
    BY <1>2, <2>1, Unsplit DEF one
<1> HIDE DEF one, U
<1>7. SplitUrls(u) = one
  BY <1>5, <1>6 DEF SplitUrls
<1> QED
  BY <1>5, <1>7 DEF one

LEMMA FitLogin ==
  ASSUME NEW l \in LoginRow, FitsFile(l)
  PROVE  /\ l.title \in Plain /\ l.username \in Plain /\ l.password \in Plain /\ l.url \in Plain
         /\ l.notes \in Plain /\ l.totp \in Plain /\ l.folder \in Plain
         /\ l.url # <<>> /\ ~Contains(l.url, "semi")
<1>1. /\ l.title \in Text /\ l.username \in Text /\ l.password \in Text /\ l.url \in Text
      /\ l.notes \in Text /\ l.totp \in Text /\ l.folder \in Text
  BY DEF LoginRow
<1>2. \A t \in {l.title, l.username, l.password, l.url, l.notes, l.totp, l.folder} : Trim(t) = t /\ ~Contains(t, "nl")
  BY DEF FitsFile
<1>3. \A t \in {l.title, l.username, l.password, l.url, l.notes, l.totp, l.folder} : t \in Plain
  BY <1>1, <1>2, FitTexts
<1> QED
  BY <1>3 DEF FitsFile

Arrives(it, l) == it.username = l.username /\ it.password = l.password /\ it.urls = <<l.url>>
Titled(it, l) == l.title # <<>> => it.title = l.title
Noted(it, l) == it.totp_seed = l.totp /\ it.notes = l.notes

LEMMA LoginRead ==
  ASSUME NEW l \in LoginRow, FitsFile(l), NEW h, NEW row,
         Cell(h, "username", row) = l.username, Cell(h, "password", row) = l.password, Cell(h, "url", row) = l.url
  PROVE  /\ Arrives(CsvItem(h, row), l)
         /\ Cell(h, "title", row) = l.title => Titled(CsvItem(h, row), l)
         /\ Cell(h, "totp_seed", row) = l.totp /\ Cell(h, "notes", row) = l.notes => Noted(CsvItem(h, row), l)
<1> DEFINE it == CsvItem(h, row)
<1>1. /\ it.username = Cell(h, "username", row) /\ it.password = Cell(h, "password", row)
      /\ it.urls = NotEmpty(TrimAll(SplitUrls(Cell(h, "url", row)))) /\ it.notes = Cell(h, "notes", row)
      /\ it.totp_seed = Trim(Cell(h, "totp_seed", row))
      /\ Cell(h, "title", row) # <<>> => it.title = OrElse(Trim(Cell(h, "title", row)), <<"Import">>)
  BY ItemOfCells
<1>2. SplitUrls(l.url) = <<l.url>> /\ NotEmpty(TrimAll(<<l.url>>)) = <<l.url>>
  BY FitLogin, OneUrl
<1>3. Trim(l.totp) = l.totp /\ Trim(l.title) = l.title
  BY FitLogin, TrimKeeps DEF Plain
<1> HIDE DEF it
<1>4. Arrives(it, l)
  BY <1>1, <1>2 DEF Arrives
<1>5. Cell(h, "title", row) = l.title => Titled(it, l)
  BY <1>1, <1>3 DEF Titled, OrElse
<1>6. Cell(h, "totp_seed", row) = l.totp /\ Cell(h, "notes", row) = l.notes => Noted(it, l)
  BY <1>1, <1>3 DEF Noted
<1> QED
  BY <1>4, <1>5, <1>6 DEF it

-----------------------------------------------------------------------------
(* The columns of the other programs.                                       *)

HeaderOf(program, k) == [i \in 1 .. k |-> Layout[program][2 * i - 1]]
RowOf(program, k, l) == [i \in 1 .. k |-> IF Layout[program][2 * i] = "none" THEN <<>> ELSE l[Layout[program][2 * i]]]

LEMMA LayoutFile ==
  ASSUME NEW program \in DOMAIN Layout, NEW l, NEW k \in Nat, Len(Layout[program]) = 2 * k
  PROVE  ForeignFile(program, l) = File("csv", HeaderOf(program, k), CsvText(<<RowOf(program, k, l)>>), <<>>)
<1> DEFINE c == Columns(program)
           lay == Layout[program]
<1>1. (2 * k) \div 2 = k
  OBVIOUS
<1>2. c = [i \in 1 .. k |-> <<lay[2 * i - 1], lay[2 * i]>>]
  BY <1>1 DEF Columns
<1>3. ForeignFile(program, l) =
        File("csv", [i \in DOMAIN c |-> c[i][1]],
             CsvText(<< [i \in DOMAIN c |-> IF c[i][2] = "none" THEN <<>> ELSE l[c[i][2]]] >>), <<>>)
  <2>1. program # "keepass" /\ program # "proton" /\ program # "pux"
    BY DEF Layout
  <2> QED
    BY <2>1, Zenon DEF ForeignFile
<1> HIDE DEF c, lay
<1>4. DOMAIN c = 1 .. k /\ \A i \in 1 .. k : c[i][1] = lay[2 * i - 1] /\ c[i][2] = lay[2 * i]
  BY <1>2
<1>5. [i \in DOMAIN c |-> c[i][1]] = HeaderOf(program, k)
  BY <1>4 DEF HeaderOf, lay
<1>6. [i \in DOMAIN c |-> IF c[i][2] = "none" THEN <<>> ELSE l[c[i][2]]] = RowOf(program, k, l)
  BY <1>4 DEF RowOf, lay
<1> QED
  BY <1>3, <1>5, <1>6

\* A file of one row is read by the names of its columns.
LEMMA LayoutRead ==
  ASSUME NEW program \in DOMAIN Layout, NEW l, NEW k \in Nat, k # 0, Len(Layout[program]) = 2 * k,
         \A i \in 1 .. k : RowOf(program, k, l)[i] \in Plain
  PROVE  /\ Parsed(ForeignFile(program, l)) = [i \in 1 .. 1 |-> CsvItem(Named(HeaderOf(program, k)), RowOf(program, k, l))]
         /\ Len(Named(HeaderOf(program, k))) = k /\ DOMAIN RowOf(program, k, l) = 1 .. k
<1> DEFINE f == ForeignFile(program, l)
           row == RowOf(program, k, l)
           head == HeaderOf(program, k)
           h == Named(head)
<1>1. f = File("csv", head, CsvText(<<row>>), <<>>)
  BY LayoutFile
<1>2. f.format = "csv" /\ f.header = head /\ f.text = CsvText(<<row>>)
  BY <1>1 DEF File
<1>3. DOMAIN row = 1 .. k /\ row = [i \in 1 .. k |-> row[i]] /\ DOMAIN head = 1 .. k
  BY DEF RowOf, HeaderOf
<1> HIDE DEF f, row, head
<1>4. row \in [1 .. k -> Plain]
  BY <1>3 DEF row
<1>5. row \in Seq(Plain) /\ Len(row) = k
  BY <1>4, ListedSeq
<1>6. Parsed(f) = ParseCSV(head, CsvText(<<row>>))
  BY <1>2 DEF Parsed
<1>7. ParseCSV(head, CsvText(<<row>>)) = [i \in 1 .. 1 |-> CsvItem(Named(head), row)]
  BY <1>5, RowParsed
<1>8. Len(h) = k
  <2>1. h = [i \in 1 .. k |-> HeaderName(head[i])]
    BY <1>3 DEF Named
  <2> DEFINE T == {HeaderName(head[i]) : i \in 1 .. k}
  <2>2. h \in [1 .. k -> T]
    BY <2>1
  <2> HIDE DEF h, T
  <2> QED
    BY <2>2, ListedSeq
<1> QED
  BY <1>3, <1>6, <1>7, <1>8 DEF f, row, head, h

\* A column that has the first of a field's names.
LEMMA FirstName ==
  ASSUME NEW h, NEW ts, Len(h) \in Nat, DOMAIN ts = 1 .. Len(h), NEW k \in 1 .. Len(h), NEW field,
         Len(ColumnNames[field]) \in Nat \ {0}, h[k] = ColumnNames[field][1],
         \A j \in 1 .. Len(h) : h[j] = h[k] => j = k
  PROVE  Cell(h, field, ts) = ts[k]
<1>1. 1 \in 1 .. Len(ColumnNames[field]) /\ Len(ColumnNames[field]) \in Nat
  OBVIOUS
<1>2. \A j \in 1 .. Len(h) : h[j] = h[k] => k <= j
  OBVIOUS
<1>3. \A q \in 1 .. Len(ColumnNames[field]) : q < 1 => \A j \in 1 .. Len(h) : h[j] # ColumnNames[field][q]
  OBVIOUS
<1> QED
  BY <1>1, <1>2, <1>3, CellIs

LEMMA NamesHeld ==
  /\ Len(ColumnNames["title"]) \in Nat \ {0} /\ ColumnNames["title"][1] = "title" /\ ColumnNames["title"][2] = "name"
  /\ Len(ColumnNames["username"]) \in Nat \ {0} /\ ColumnNames["username"][1] = "username"
  /\ Len(ColumnNames["password"]) \in Nat \ {0} /\ ColumnNames["password"][1] = "password"
  /\ Len(ColumnNames["url"]) \in Nat \ {0} /\ ColumnNames["url"][1] = "url"
  /\ Len(ColumnNames["notes"]) \in Nat \ {0} /\ ColumnNames["notes"][1] = "notes"
  /\ Len(ColumnNames["totp_seed"]) \in Nat \ {0} /\ ColumnNames["totp_seed"][1] = "totp"
BY DEF ColumnNames

\* Columns of one name each.
Distinguished(h) == \A i, j \in 1 .. Len(h) : h[i] = h[j] => i = j

LEMMA FieldsFound ==
  ASSUME NEW h, NEW ts, Len(h) \in Nat, DOMAIN ts = 1 .. Len(h), Distinguished(h), NEW k \in 1 .. Len(h)
  PROVE  /\ h[k] = "title" => Cell(h, "title", ts) = ts[k]
         /\ h[k] = "username" => Cell(h, "username", ts) = ts[k]
         /\ h[k] = "password" => Cell(h, "password", ts) = ts[k]
         /\ h[k] = "url" => Cell(h, "url", ts) = ts[k]
         /\ h[k] = "notes" => Cell(h, "notes", ts) = ts[k]
         /\ h[k] = "totp" => Cell(h, "totp_seed", ts) = ts[k]
<1>1. \A j \in 1 .. Len(h) : h[j] = h[k] => j = k
  BY DEF Distinguished
<1>2. ASSUME NEW field, Len(ColumnNames[field]) \in Nat \ {0}, h[k] = ColumnNames[field][1]
      PROVE  Cell(h, field, ts) = ts[k]
  BY <1>1, <1>2, FirstName
<1>3. h[k] = "title" => Cell(h, "title", ts) = ts[k]
  BY <1>2, NamesHeld
<1>4. h[k] = "username" => Cell(h, "username", ts) = ts[k]
  BY <1>2, NamesHeld
<1>5. h[k] = "password" => Cell(h, "password", ts) = ts[k]
  BY <1>2, NamesHeld
<1>6. h[k] = "url" => Cell(h, "url", ts) = ts[k]
  BY <1>2, NamesHeld
<1>7. h[k] = "notes" => Cell(h, "notes", ts) = ts[k]
  BY <1>2, NamesHeld
<1>8. h[k] = "totp" => Cell(h, "totp_seed", ts) = ts[k]
  BY <1>2, NamesHeld
<1> QED
  BY <1>3, <1>4, <1>5, <1>6, <1>7, <1>8

\* A title column is also looked for as "name", notes as "extra", a seed as "otpauth".
LEMMA OtherNames ==
  ASSUME NEW h, NEW ts, Len(h) \in Nat, DOMAIN ts = 1 .. Len(h), Distinguished(h), NEW k \in 1 .. Len(h)
  PROVE  /\ h[k] = "name" /\ (\A j \in 1 .. Len(h) : h[j] # "title") => Cell(h, "title", ts) = ts[k]
         /\ h[k] = "extra" /\ (\A j \in 1 .. Len(h) : h[j] \notin {"notes", "note", "comments"}) =>
              Cell(h, "notes", ts) = ts[k]
         /\ h[k] = "otpauth" /\ (\A j \in 1 .. Len(h) : h[j] \notin {"totp", "otp"}) => Cell(h, "totp_seed", ts) = ts[k]
<1>0. k \in Nat /\ \A j \in 1 .. Len(h) : h[j] = h[k] => k <= j
  BY DEF Distinguished
<1>1. ASSUME h[k] = "name", \A j \in 1 .. Len(h) : h[j] # "title"
      PROVE  Cell(h, "title", ts) = ts[k]
  <2> DEFINE c == ColumnNames["title"]
  <2>1. Len(c) \in Nat /\ 2 \in 1 .. Len(c) /\ c[2] = "name" /\ \A q \in 1 .. Len(c) : q < 2 => c[q] = "title"
    BY DEF ColumnNames
  <2> QED
    BY <1>0, <1>1, <2>1, CellIs
<1>2. ASSUME h[k] = "extra", \A j \in 1 .. Len(h) : h[j] \notin {"notes", "note", "comments"}
      PROVE  Cell(h, "notes", ts) = ts[k]
  <2> DEFINE c == ColumnNames["notes"]
  <2>1. Len(c) \in Nat /\ 4 \in 1 .. Len(c) /\ c[4] = "extra"
        /\ \A q \in 1 .. Len(c) : q < 4 => c[q] \in {"notes", "note", "comments"}
    BY DEF ColumnNames
  <2> QED
    BY <1>0, <1>2, <2>1, CellIs
<1>3. ASSUME h[k] = "otpauth", \A j \in 1 .. Len(h) : h[j] \notin {"totp", "otp"}
      PROVE  Cell(h, "totp_seed", ts) = ts[k]
  <2> DEFINE c == ColumnNames["totp_seed"]
  <2>1. Len(c) \in Nat /\ 3 \in 1 .. Len(c) /\ c[3] = "otpauth" /\ \A q \in 1 .. Len(c) : q < 3 => c[q] \in {"totp", "otp"}
    BY DEF ColumnNames
  <2> QED
    BY <1>0, <1>3, <2>1, CellIs
<1> QED
  BY <1>1, <1>2, <1>3

-----------------------------------------------------------------------------
(* The file of each program.                                                *)

LEMMA EmptyPlain == <<>> \in Plain
BY DEF Plain, Trimmed, Text, OneLine

LEMMA ChromeRead ==
  ASSUME NEW l \in LoginRow, FitsFile(l)
  PROVE  LET q == Parsed(ForeignFile("chrome", l)) IN DOMAIN q = 1 .. 1 /\ Arrives(q[1], l) /\ Titled(q[1], l)
<1> DEFINE lay == Layout["chrome"]
           head == HeaderOf("chrome", 5)
           row == RowOf("chrome", 5, l)
           h == Named(head)
           q == Parsed(ForeignFile("chrome", l))
<1>1. "chrome" \in DOMAIN Layout /\ Len(lay) = 2 * 5
  BY DEF Layout
<1>2. /\ lay[1] = "name" /\ lay[2] = "title" /\ lay[3] = "url" /\ lay[4] = "url" /\ lay[5] = "username"
      /\ lay[6] = "username" /\ lay[7] = "password" /\ lay[8] = "password" /\ lay[9] = "note"
      /\ lay[10] = "notes"
  BY DEF Layout
<1> HIDE DEF lay
<1>3. /\ DOMAIN head = 1 .. 5 /\ DOMAIN row = 1 .. 5
      /\ head[1] = "name" /\ head[2] = "url" /\ head[3] = "username" /\ head[4] = "password" /\ head[5] = "note"
      /\ row[1] = l.title /\ row[2] = l.url /\ row[3] = l.username /\ row[4] = l.password /\ row[5] = l.notes
  BY <1>2 DEF HeaderOf, RowOf, lay
<1> HIDE DEF head, row
<1>4. /\ h[1] = "name" /\ h[2] = "url" /\ h[3] = "username" /\ h[4] = "password" /\ h[5] = "note"
  BY <1>3 DEF Named, HeaderName
<1>5. \A i \in 1 .. 5 : i = 1 \/ i = 2 \/ i = 3 \/ i = 4 \/ i = 5
  OBVIOUS
<1>6. \A i \in 1 .. 5 : row[i] \in Plain
  BY <1>3, <1>5, FitLogin
<1>7. q = [i \in 1 .. 1 |-> CsvItem(h, row)] /\ Len(h) = 5
  <2> DEFINE pp == "chrome"
             kk == 5
  <2>1. /\ pp \in DOMAIN Layout /\ kk \in Nat /\ kk # 0 /\ Len(Layout[pp]) = 2 * kk
        /\ \A i \in 1 .. kk : RowOf(pp, kk, l)[i] \in Plain
    BY <1>1, <1>6 DEF lay, row
  <2> HIDE DEF pp, kk
  <2>2. /\ Parsed(ForeignFile(pp, l)) = [i \in 1 .. 1 |-> CsvItem(Named(HeaderOf(pp, kk)), RowOf(pp, kk, l))]
        /\ Len(Named(HeaderOf(pp, kk))) = kk
    BY <2>1, LayoutRead
  <2> QED
    BY <2>2 DEF pp, kk, head, row
<1> HIDE DEF h, q
<1>8. Distinguished(h)
  BY <1>4, <1>5, <1>7 DEF Distinguished
<1>9. 1 \in 1 .. Len(h) /\ 2 \in 1 .. Len(h) /\ 3 \in 1 .. Len(h) /\ 4 \in 1 .. Len(h) /\ 5 \in 1 .. Len(h)
  BY <1>7
<1>10. Cell(h, "username", row) = l.username
  <2> DEFINE kk == 3
  <2>1. kk \in 1 .. Len(h) /\ h[kk] = "username" /\ row[kk] = l.username /\ Len(h) \in Nat /\ DOMAIN row = 1 .. Len(h)
    BY <1>3, <1>4, <1>7, <1>9
  <2> HIDE DEF kk
  <2> QED
    BY <1>8, <2>1, FieldsFound
<1>11. Cell(h, "password", row) = l.password
  <2> DEFINE kk == 4
  <2>1. kk \in 1 .. Len(h) /\ h[kk] = "password" /\ row[kk] = l.password /\ Len(h) \in Nat /\ DOMAIN row = 1 .. Len(h)
    BY <1>3, <1>4, <1>7, <1>9
  <2> HIDE DEF kk
  <2> QED
    BY <1>8, <2>1, FieldsFound
<1>12. Cell(h, "url", row) = l.url
  <2> DEFINE kk == 2
  <2>1. kk \in 1 .. Len(h) /\ h[kk] = "url" /\ row[kk] = l.url /\ Len(h) \in Nat /\ DOMAIN row = 1 .. Len(h)
    BY <1>3, <1>4, <1>7, <1>9
  <2> HIDE DEF kk
  <2> QED
    BY <1>8, <2>1, FieldsFound
<1>13. Cell(h, "title", row) = l.title
  <2>1. \A j \in 1 .. Len(h) : h[j] # "title"
    BY <1>4, <1>5, <1>7
  <2> DEFINE kk == 1
  <2>2. kk \in 1 .. Len(h) /\ h[kk] = "name" /\ row[kk] = l.title /\ Len(h) \in Nat /\ DOMAIN row = 1 .. Len(h)
    BY <1>3, <1>4, <1>7, <1>9
  <2> HIDE DEF kk
  <2> QED
    BY <1>8, <2>1, <2>2, OtherNames
<1>14. q[1] = CsvItem(h, row) /\ DOMAIN q = 1 .. 1
  BY <1>7
<1> QED
  BY <1>10, <1>11, <1>12, <1>13, <1>14, LoginRead DEF q

LEMMA FirefoxRead ==
  ASSUME NEW l \in LoginRow, FitsFile(l)
  PROVE  LET q == Parsed(ForeignFile("firefox", l)) IN DOMAIN q = 1 .. 1 /\ Arrives(q[1], l)
<1> DEFINE lay == Layout["firefox"]
           head == HeaderOf("firefox", 4)
           row == RowOf("firefox", 4, l)
           h == Named(head)
           q == Parsed(ForeignFile("firefox", l))
<1>1. "firefox" \in DOMAIN Layout /\ Len(lay) = 2 * 4
  BY DEF Layout
<1>2. /\ lay[1] = "url" /\ lay[2] = "url" /\ lay[3] = "username" /\ lay[4] = "username" /\ lay[5] = "password"
      /\ lay[6] = "password" /\ lay[7] = "httpRealm" /\ lay[8] = "none"
  BY DEF Layout
<1> HIDE DEF lay
<1>3. /\ DOMAIN head = 1 .. 4 /\ DOMAIN row = 1 .. 4
      /\ head[1] = "url" /\ head[2] = "username" /\ head[3] = "password" /\ head[4] = "httpRealm"
      /\ row[1] = l.url /\ row[2] = l.username /\ row[3] = l.password /\ row[4] = <<>>
  BY <1>2 DEF HeaderOf, RowOf, lay
<1> HIDE DEF head, row
<1>4. /\ h[1] = "url" /\ h[2] = "username" /\ h[3] = "password" /\ h[4] = "http_realm"
  BY <1>3 DEF Named, HeaderName
<1>5. \A i \in 1 .. 4 : i = 1 \/ i = 2 \/ i = 3 \/ i = 4
  OBVIOUS
<1>6. \A i \in 1 .. 4 : row[i] \in Plain
  BY <1>3, <1>5, FitLogin, EmptyPlain
<1>7. q = [i \in 1 .. 1 |-> CsvItem(h, row)] /\ Len(h) = 4
  <2> DEFINE pp == "firefox"
             kk == 4
  <2>1. /\ pp \in DOMAIN Layout /\ kk \in Nat /\ kk # 0 /\ Len(Layout[pp]) = 2 * kk
        /\ \A i \in 1 .. kk : RowOf(pp, kk, l)[i] \in Plain
    BY <1>1, <1>6 DEF lay, row
  <2> HIDE DEF pp, kk
  <2>2. /\ Parsed(ForeignFile(pp, l)) = [i \in 1 .. 1 |-> CsvItem(Named(HeaderOf(pp, kk)), RowOf(pp, kk, l))]
        /\ Len(Named(HeaderOf(pp, kk))) = kk
    BY <2>1, LayoutRead
  <2> QED
    BY <2>2 DEF pp, kk, head, row
<1> HIDE DEF h, q
<1>8. Distinguished(h)
  BY <1>4, <1>5, <1>7 DEF Distinguished
<1>9. 1 \in 1 .. Len(h) /\ 2 \in 1 .. Len(h) /\ 3 \in 1 .. Len(h) /\ 4 \in 1 .. Len(h)
  BY <1>7
<1>10. Cell(h, "username", row) = l.username
  <2> DEFINE kk == 2
  <2>1. kk \in 1 .. Len(h) /\ h[kk] = "username" /\ row[kk] = l.username /\ Len(h) \in Nat /\ DOMAIN row = 1 .. Len(h)
    BY <1>3, <1>4, <1>7, <1>9
  <2> HIDE DEF kk
  <2> QED
    BY <1>8, <2>1, FieldsFound
<1>11. Cell(h, "password", row) = l.password
  <2> DEFINE kk == 3
  <2>1. kk \in 1 .. Len(h) /\ h[kk] = "password" /\ row[kk] = l.password /\ Len(h) \in Nat /\ DOMAIN row = 1 .. Len(h)
    BY <1>3, <1>4, <1>7, <1>9
  <2> HIDE DEF kk
  <2> QED
    BY <1>8, <2>1, FieldsFound
<1>12. Cell(h, "url", row) = l.url
  <2> DEFINE kk == 1
  <2>1. kk \in 1 .. Len(h) /\ h[kk] = "url" /\ row[kk] = l.url /\ Len(h) \in Nat /\ DOMAIN row = 1 .. Len(h)
    BY <1>3, <1>4, <1>7, <1>9
  <2> HIDE DEF kk
  <2> QED
    BY <1>8, <2>1, FieldsFound
<1>13. q[1] = CsvItem(h, row) /\ DOMAIN q = 1 .. 1
  BY <1>7
<1> QED
  BY <1>10, <1>11, <1>12, <1>13, LoginRead DEF q

LEMMA LastPassRead ==
  ASSUME NEW l \in LoginRow, FitsFile(l)
  PROVE  LET q == Parsed(ForeignFile("lastpass", l)) IN DOMAIN q = 1 .. 1 /\ Arrives(q[1], l) /\ Titled(q[1], l) /\ Noted(q[1], l)
<1> DEFINE lay == Layout["lastpass"]
           head == HeaderOf("lastpass", 7)
           row == RowOf("lastpass", 7, l)
           h == Named(head)
           q == Parsed(ForeignFile("lastpass", l))
<1>1. "lastpass" \in DOMAIN Layout /\ Len(lay) = 2 * 7
  BY DEF Layout
<1>2. /\ lay[1] = "url" /\ lay[2] = "url" /\ lay[3] = "username" /\ lay[4] = "username" /\ lay[5] = "password"
      /\ lay[6] = "password" /\ lay[7] = "totp" /\ lay[8] = "totp" /\ lay[9] = "extra" /\ lay[10] = "notes"
      /\ lay[11] = "name" /\ lay[12] = "title" /\ lay[13] = "grouping" /\ lay[14] = "folder"
  BY DEF Layout
<1> HIDE DEF lay
<1>3. /\ DOMAIN head = 1 .. 7 /\ DOMAIN row = 1 .. 7
      /\ head[1] = "url" /\ head[2] = "username" /\ head[3] = "password" /\ head[4] = "totp"
      /\ head[5] = "extra" /\ head[6] = "name" /\ head[7] = "grouping"
      /\ row[1] = l.url /\ row[2] = l.username /\ row[3] = l.password /\ row[4] = l.totp /\ row[5] = l.notes
      /\ row[6] = l.title /\ row[7] = l.folder
  BY <1>2 DEF HeaderOf, RowOf, lay
<1> HIDE DEF head, row
<1>4. /\ h[1] = "url" /\ h[2] = "username" /\ h[3] = "password" /\ h[4] = "totp" /\ h[5] = "extra"
      /\ h[6] = "name" /\ h[7] = "grouping"
  BY <1>3 DEF Named, HeaderName
<1>5. \A i \in 1 .. 7 : i = 1 \/ i = 2 \/ i = 3 \/ i = 4 \/ i = 5 \/ i = 6 \/ i = 7
  OBVIOUS
<1>6. \A i \in 1 .. 7 : row[i] \in Plain
  BY <1>3, <1>5, FitLogin
<1>7. q = [i \in 1 .. 1 |-> CsvItem(h, row)] /\ Len(h) = 7
  <2> DEFINE pp == "lastpass"
             kk == 7
  <2>1. /\ pp \in DOMAIN Layout /\ kk \in Nat /\ kk # 0 /\ Len(Layout[pp]) = 2 * kk
        /\ \A i \in 1 .. kk : RowOf(pp, kk, l)[i] \in Plain
    BY <1>1, <1>6 DEF lay, row
  <2> HIDE DEF pp, kk
  <2>2. /\ Parsed(ForeignFile(pp, l)) = [i \in 1 .. 1 |-> CsvItem(Named(HeaderOf(pp, kk)), RowOf(pp, kk, l))]
        /\ Len(Named(HeaderOf(pp, kk))) = kk
    BY <2>1, LayoutRead
  <2> QED
    BY <2>2 DEF pp, kk, head, row
<1> HIDE DEF h, q
<1>8. Distinguished(h)
  BY <1>4, <1>5, <1>7 DEF Distinguished
<1>9. \A i \in 1 .. 7 : i \in 1 .. Len(h)
  BY <1>7
<1>10. Cell(h, "username", row) = l.username
  <2> DEFINE kk == 2
  <2>1. kk \in 1 .. Len(h) /\ h[kk] = "username" /\ row[kk] = l.username /\ Len(h) \in Nat /\ DOMAIN row = 1 .. Len(h)
    BY <1>3, <1>4, <1>7, <1>9
  <2> HIDE DEF kk
  <2> QED
    BY <1>8, <2>1, FieldsFound
<1>11. Cell(h, "password", row) = l.password
  <2> DEFINE kk == 3
  <2>1. kk \in 1 .. Len(h) /\ h[kk] = "password" /\ row[kk] = l.password /\ Len(h) \in Nat /\ DOMAIN row = 1 .. Len(h)
    BY <1>3, <1>4, <1>7, <1>9
  <2> HIDE DEF kk
  <2> QED
    BY <1>8, <2>1, FieldsFound
<1>12. Cell(h, "url", row) = l.url
  <2> DEFINE kk == 1
  <2>1. kk \in 1 .. Len(h) /\ h[kk] = "url" /\ row[kk] = l.url /\ Len(h) \in Nat /\ DOMAIN row = 1 .. Len(h)
    BY <1>3, <1>4, <1>7, <1>9
  <2> HIDE DEF kk
  <2> QED
    BY <1>8, <2>1, FieldsFound
<1>13. Cell(h, "totp_seed", row) = l.totp
  <2> DEFINE kk == 4
  <2>1. kk \in 1 .. Len(h) /\ h[kk] = "totp" /\ row[kk] = l.totp /\ Len(h) \in Nat /\ DOMAIN row = 1 .. Len(h)
    BY <1>3, <1>4, <1>7, <1>9
  <2> HIDE DEF kk
  <2> QED
    BY <1>8, <2>1, FieldsFound
<1>14. Cell(h, "title", row) = l.title
  <2>1. \A j \in 1 .. Len(h) : h[j] # "title"
    BY <1>4, <1>5, <1>7
  <2> DEFINE kk == 6
  <2>2. kk \in 1 .. Len(h) /\ h[kk] = "name" /\ row[kk] = l.title /\ Len(h) \in Nat /\ DOMAIN row = 1 .. Len(h)
    BY <1>3, <1>4, <1>7, <1>9
  <2> HIDE DEF kk
  <2> QED
    BY <1>8, <2>1, <2>2, OtherNames
<1>15. Cell(h, "notes", row) = l.notes
  <2>1. \A j \in 1 .. Len(h) : h[j] \notin {"notes", "note", "comments"}
    BY <1>4, <1>5, <1>7
  <2> DEFINE kk == 5
  <2>2. kk \in 1 .. Len(h) /\ h[kk] = "extra" /\ row[kk] = l.notes /\ Len(h) \in Nat /\ DOMAIN row = 1 .. Len(h)
    BY <1>3, <1>4, <1>7, <1>9
  <2> HIDE DEF kk
  <2> QED
    BY <1>8, <2>1, <2>2, OtherNames
<1>16. q[1] = CsvItem(h, row) /\ DOMAIN q = 1 .. 1
  BY <1>7
<1> QED
  BY <1>10, <1>11, <1>12, <1>13, <1>14, <1>15, <1>16, LoginRead DEF q

LEMMA OnePasswordRead ==
  ASSUME NEW l \in LoginRow, FitsFile(l)
  PROVE  LET q == Parsed(ForeignFile("onepassword", l)) IN DOMAIN q = 1 .. 1 /\ Arrives(q[1], l) /\ Titled(q[1], l) /\ Noted(q[1], l)
<1> DEFINE lay == Layout["onepassword"]
           head == HeaderOf("onepassword", 6)
           row == RowOf("onepassword", 6, l)
           h == Named(head)
           q == Parsed(ForeignFile("onepassword", l))
<1>1. "onepassword" \in DOMAIN Layout /\ Len(lay) = 2 * 6
  BY DEF Layout
<1>2. /\ lay[1] = "Title" /\ lay[2] = "title" /\ lay[3] = "Url" /\ lay[4] = "url" /\ lay[5] = "Username"
      /\ lay[6] = "username" /\ lay[7] = "Password" /\ lay[8] = "password" /\ lay[9] = "OTPAuth"
      /\ lay[10] = "totp" /\ lay[11] = "Notes" /\ lay[12] = "notes"
  BY DEF Layout
<1> HIDE DEF lay
<1>3. /\ DOMAIN head = 1 .. 6 /\ DOMAIN row = 1 .. 6
      /\ head[1] = "Title" /\ head[2] = "Url" /\ head[3] = "Username" /\ head[4] = "Password"
      /\ head[5] = "OTPAuth" /\ head[6] = "Notes"
      /\ row[1] = l.title /\ row[2] = l.url /\ row[3] = l.username /\ row[4] = l.password /\ row[5] = l.totp
      /\ row[6] = l.notes
  BY <1>2 DEF HeaderOf, RowOf, lay
<1> HIDE DEF head, row
<1>4. /\ h[1] = "title" /\ h[2] = "url" /\ h[3] = "username" /\ h[4] = "password" /\ h[5] = "otpauth"
      /\ h[6] = "notes"
  BY <1>3 DEF Named, HeaderName
<1>5. \A i \in 1 .. 6 : i = 1 \/ i = 2 \/ i = 3 \/ i = 4 \/ i = 5 \/ i = 6
  OBVIOUS
<1>6. \A i \in 1 .. 6 : row[i] \in Plain
  BY <1>3, <1>5, FitLogin
<1>7. q = [i \in 1 .. 1 |-> CsvItem(h, row)] /\ Len(h) = 6
  <2> DEFINE pp == "onepassword"
             kk == 6
  <2>1. /\ pp \in DOMAIN Layout /\ kk \in Nat /\ kk # 0 /\ Len(Layout[pp]) = 2 * kk
        /\ \A i \in 1 .. kk : RowOf(pp, kk, l)[i] \in Plain
    BY <1>1, <1>6 DEF lay, row
  <2> HIDE DEF pp, kk
  <2>2. /\ Parsed(ForeignFile(pp, l)) = [i \in 1 .. 1 |-> CsvItem(Named(HeaderOf(pp, kk)), RowOf(pp, kk, l))]
        /\ Len(Named(HeaderOf(pp, kk))) = kk
    BY <2>1, LayoutRead
  <2> QED
    BY <2>2 DEF pp, kk, head, row
<1> HIDE DEF h, q
<1>8. Distinguished(h)
  BY <1>4, <1>5, <1>7 DEF Distinguished
<1>9. 1 \in 1 .. Len(h) /\ 2 \in 1 .. Len(h) /\ 3 \in 1 .. Len(h) /\ 4 \in 1 .. Len(h) /\ 5 \in 1 .. Len(h) /\ 6 \in 1 .. Len(h)
  BY <1>7
<1>10. Cell(h, "username", row) = l.username
  <2> DEFINE kk == 3
  <2>1. kk \in 1 .. Len(h) /\ h[kk] = "username" /\ row[kk] = l.username /\ Len(h) \in Nat /\ DOMAIN row = 1 .. Len(h)
    BY <1>3, <1>4, <1>7, <1>9
  <2> HIDE DEF kk
  <2> QED
    BY <1>8, <2>1, FieldsFound
<1>11. Cell(h, "password", row) = l.password
  <2> DEFINE kk == 4
  <2>1. kk \in 1 .. Len(h) /\ h[kk] = "password" /\ row[kk] = l.password /\ Len(h) \in Nat /\ DOMAIN row = 1 .. Len(h)
    BY <1>3, <1>4, <1>7, <1>9
  <2> HIDE DEF kk
  <2> QED
    BY <1>8, <2>1, FieldsFound
<1>12. Cell(h, "url", row) = l.url
  <2> DEFINE kk == 2
  <2>1. kk \in 1 .. Len(h) /\ h[kk] = "url" /\ row[kk] = l.url /\ Len(h) \in Nat /\ DOMAIN row = 1 .. Len(h)
    BY <1>3, <1>4, <1>7, <1>9
  <2> HIDE DEF kk
  <2> QED
    BY <1>8, <2>1, FieldsFound
<1>13. Cell(h, "title", row) = l.title
  <2> DEFINE kk == 1
  <2>1. kk \in 1 .. Len(h) /\ h[kk] = "title" /\ row[kk] = l.title /\ Len(h) \in Nat /\ DOMAIN row = 1 .. Len(h)
    BY <1>3, <1>4, <1>7, <1>9
  <2> HIDE DEF kk
  <2> QED
    BY <1>8, <2>1, FieldsFound
<1>14. Cell(h, "notes", row) = l.notes
  <2> DEFINE kk == 6
  <2>1. kk \in 1 .. Len(h) /\ h[kk] = "notes" /\ row[kk] = l.notes /\ Len(h) \in Nat /\ DOMAIN row = 1 .. Len(h)
    BY <1>3, <1>4, <1>7, <1>9
  <2> HIDE DEF kk
  <2> QED
    BY <1>8, <2>1, FieldsFound
<1>15. Cell(h, "totp_seed", row) = l.totp
  <2>1. \A j \in 1 .. Len(h) : h[j] \notin {"totp", "otp"}
    BY <1>4, <1>5, <1>7
  <2> DEFINE kk == 5
  <2>2. kk \in 1 .. Len(h) /\ h[kk] = "otpauth" /\ row[kk] = l.totp /\ Len(h) \in Nat /\ DOMAIN row = 1 .. Len(h)
    BY <1>3, <1>4, <1>7, <1>9
  <2> HIDE DEF kk
  <2> QED
    BY <1>8, <2>1, <2>2, OtherNames
<1>16. q[1] = CsvItem(h, row) /\ DOMAIN q = 1 .. 1
  BY <1>7
<1> QED
  BY <1>10, <1>11, <1>12, <1>13, <1>14, <1>15, <1>16, LoginRead DEF q

LEMMA KeePassXCRead ==
  ASSUME NEW l \in LoginRow, FitsFile(l)
  PROVE  LET q == Parsed(ForeignFile("keepassxc", l)) IN DOMAIN q = 1 .. 1 /\ Arrives(q[1], l) /\ Titled(q[1], l) /\ Noted(q[1], l)
<1> DEFINE lay == Layout["keepassxc"]
           head == HeaderOf("keepassxc", 7)
           row == RowOf("keepassxc", 7, l)
           h == Named(head)
           q == Parsed(ForeignFile("keepassxc", l))
<1>1. "keepassxc" \in DOMAIN Layout /\ Len(lay) = 2 * 7
  BY DEF Layout
<1>2. /\ lay[1] = "Group" /\ lay[2] = "folder" /\ lay[3] = "Title" /\ lay[4] = "title" /\ lay[5] = "Username"
      /\ lay[6] = "username" /\ lay[7] = "Password" /\ lay[8] = "password" /\ lay[9] = "URL" /\ lay[10] = "url"
      /\ lay[11] = "Notes" /\ lay[12] = "notes" /\ lay[13] = "TOTP" /\ lay[14] = "totp"
  BY DEF Layout
<1> HIDE DEF lay
<1>3. /\ DOMAIN head = 1 .. 7 /\ DOMAIN row = 1 .. 7
      /\ head[1] = "Group" /\ head[2] = "Title" /\ head[3] = "Username" /\ head[4] = "Password"
      /\ head[5] = "URL" /\ head[6] = "Notes" /\ head[7] = "TOTP"
      /\ row[1] = l.folder /\ row[2] = l.title /\ row[3] = l.username /\ row[4] = l.password /\ row[5] = l.url
      /\ row[6] = l.notes /\ row[7] = l.totp
  BY <1>2 DEF HeaderOf, RowOf, lay
<1> HIDE DEF head, row
<1>4. /\ h[1] = "group" /\ h[2] = "title" /\ h[3] = "username" /\ h[4] = "password" /\ h[5] = "url"
      /\ h[6] = "notes" /\ h[7] = "totp"
  BY <1>3 DEF Named, HeaderName
<1>5. \A i \in 1 .. 7 : i = 1 \/ i = 2 \/ i = 3 \/ i = 4 \/ i = 5 \/ i = 6 \/ i = 7
  OBVIOUS
<1>6. \A i \in 1 .. 7 : row[i] \in Plain
  BY <1>3, <1>5, FitLogin
<1>7. q = [i \in 1 .. 1 |-> CsvItem(h, row)] /\ Len(h) = 7
  <2> DEFINE pp == "keepassxc"
             kk == 7
  <2>1. /\ pp \in DOMAIN Layout /\ kk \in Nat /\ kk # 0 /\ Len(Layout[pp]) = 2 * kk
        /\ \A i \in 1 .. kk : RowOf(pp, kk, l)[i] \in Plain
    BY <1>1, <1>6 DEF lay, row
  <2> HIDE DEF pp, kk
  <2>2. /\ Parsed(ForeignFile(pp, l)) = [i \in 1 .. 1 |-> CsvItem(Named(HeaderOf(pp, kk)), RowOf(pp, kk, l))]
        /\ Len(Named(HeaderOf(pp, kk))) = kk
    BY <2>1, LayoutRead
  <2> QED
    BY <2>2 DEF pp, kk, head, row
<1> HIDE DEF h, q
<1>8. Distinguished(h)
  BY <1>4, <1>5, <1>7 DEF Distinguished
<1>9. \A i \in 1 .. 7 : i \in 1 .. Len(h)
  BY <1>7
<1>10. Cell(h, "username", row) = l.username
  <2> DEFINE kk == 3
  <2>1. kk \in 1 .. Len(h) /\ h[kk] = "username" /\ row[kk] = l.username /\ Len(h) \in Nat /\ DOMAIN row = 1 .. Len(h)
    BY <1>3, <1>4, <1>7, <1>9
  <2> HIDE DEF kk
  <2> QED
    BY <1>8, <2>1, FieldsFound
<1>11. Cell(h, "password", row) = l.password
  <2> DEFINE kk == 4
  <2>1. kk \in 1 .. Len(h) /\ h[kk] = "password" /\ row[kk] = l.password /\ Len(h) \in Nat /\ DOMAIN row = 1 .. Len(h)
    BY <1>3, <1>4, <1>7, <1>9
  <2> HIDE DEF kk
  <2> QED
    BY <1>8, <2>1, FieldsFound
<1>12. Cell(h, "url", row) = l.url
  <2> DEFINE kk == 5
  <2>1. kk \in 1 .. Len(h) /\ h[kk] = "url" /\ row[kk] = l.url /\ Len(h) \in Nat /\ DOMAIN row = 1 .. Len(h)
    BY <1>3, <1>4, <1>7, <1>9
  <2> HIDE DEF kk
  <2> QED
    BY <1>8, <2>1, FieldsFound
<1>13. Cell(h, "title", row) = l.title
  <2> DEFINE kk == 2
  <2>1. kk \in 1 .. Len(h) /\ h[kk] = "title" /\ row[kk] = l.title /\ Len(h) \in Nat /\ DOMAIN row = 1 .. Len(h)
    BY <1>3, <1>4, <1>7, <1>9
  <2> HIDE DEF kk
  <2> QED
    BY <1>8, <2>1, FieldsFound
<1>14. Cell(h, "notes", row) = l.notes
  <2> DEFINE kk == 6
  <2>1. kk \in 1 .. Len(h) /\ h[kk] = "notes" /\ row[kk] = l.notes /\ Len(h) \in Nat /\ DOMAIN row = 1 .. Len(h)
    BY <1>3, <1>4, <1>7, <1>9
  <2> HIDE DEF kk
  <2> QED
    BY <1>8, <2>1, FieldsFound
<1>15. Cell(h, "totp_seed", row) = l.totp
  <2> DEFINE kk == 7
  <2>1. kk \in 1 .. Len(h) /\ h[kk] = "totp" /\ row[kk] = l.totp /\ Len(h) \in Nat /\ DOMAIN row = 1 .. Len(h)
    BY <1>3, <1>4, <1>7, <1>9
  <2> HIDE DEF kk
  <2> QED
    BY <1>8, <2>1, FieldsFound
<1>16. q[1] = CsvItem(h, row) /\ DOMAIN q = 1 .. 1
  BY <1>7
<1> QED
  BY <1>10, <1>11, <1>12, <1>13, <1>14, <1>15, <1>16, LoginRead DEF q

-----------------------------------------------------------------------------
(* Logins of other programs, in the preview.                                *)

LEMMA ArrivesRaw ==
  ASSUME NEW l \in LoginRow, FitsFile(l), NEW raw,
         {"title", "username", "password", "urls", "notes", "totp_seed"} \subseteq DOMAIN raw,
         raw.title = l.title, raw.username = l.username, raw.password = l.password, raw.urls = <<l.url>>,
         raw.notes = l.notes, raw.totp_seed = l.totp
  PROVE  Arrives(NormalizeItem(raw), l) /\ Titled(NormalizeItem(raw), l) /\ Noted(NormalizeItem(raw), l)
<1>1. NotEmpty(TrimAll(<<l.url>>)) = <<l.url>>
  BY FitLogin, OneUrl
<1>2. Trim(l.totp) = l.totp /\ Trim(l.title) = l.title
  BY FitLogin, TrimKeeps DEF Plain
<1>3. /\ NormalizeItem(raw).username = l.username /\ NormalizeItem(raw).password = l.password
      /\ NormalizeItem(raw).urls = <<l.url>> /\ NormalizeItem(raw).notes = l.notes
      /\ NormalizeItem(raw).totp_seed = l.totp /\ NormalizeItem(raw).title = OrElse(l.title, <<"Import">>)
  BY <1>1, <1>2, RawItem
<1> QED
  BY <1>3 DEF Arrives, Titled, Noted, OrElse

LEMMA KeePassRead ==
  ASSUME NEW l \in LoginRow, FitsFile(l)
  PROVE  LET q == Parsed(ForeignFile("keepass", l))
         IN DOMAIN q = 1 .. 1 /\ Arrives(q[1], l) /\ Titled(q[1], l) /\ Noted(q[1], l)
<1> DEFINE s == [Title |-> l.title, UserName |-> l.username, Password |-> l.password, URL |-> l.url,
                 Notes |-> l.notes, otp |-> <<>>, TOTP |-> l.totp]
           entry == [path |-> << <<"R">>, l.folder >>, strings |-> s]
           items == <<entry>>
           f == ForeignFile("keepass", l)
           raw == [title |-> s.Title, username |-> s.UserName, password |-> s.Password, urls |-> SplitUrls(s.URL),
                   notes |-> s.Notes, totp_seed |-> OrElse(s.otp, s.TOTP), folder |-> Join(entry.path, <<"/">>)]
<1>1. f = File("keepass-xml", <<>>, <<>>, items)
  <2>1. "keepass" \notin DOMAIN Layout
    BY DEF Layout
  <2> QED
    BY <2>1, Zenon DEF ForeignFile
<1>2. f.format = "keepass-xml" /\ f.items = items
  BY <1>1 DEF File
<1> HIDE DEF f
<1>3. entry.strings = s /\ DOMAIN items = 1 .. 1 /\ items[1] = entry
  OBVIOUS
<1>4. Parsed(f) = [i \in DOMAIN items |-> KeePassItem(items[i])]
  BY <1>2 DEF Parsed
<1>5. KeePassItem(entry) = NormalizeItem(raw)
  BY DEF KeePassItem
<1>6. /\ s.Title = l.title /\ s.UserName = l.username /\ s.Password = l.password /\ s.URL = l.url
      /\ s.Notes = l.notes /\ OrElse(s.otp, s.TOTP) = l.totp
  BY DEF OrElse
<1>7. SplitUrls(l.url) = <<l.url>>
  BY FitLogin, OneUrl
<1> HIDE DEF s, items, entry
<1>8. /\ raw.title = l.title /\ raw.username = l.username /\ raw.password = l.password
      /\ raw.urls = <<l.url>> /\ raw.notes = l.notes /\ raw.totp_seed = l.totp
      /\ {"title", "username", "password", "urls", "notes", "totp_seed"} \subseteq DOMAIN raw
  BY <1>6, <1>7
<1> HIDE DEF raw
<1>9. Arrives(NormalizeItem(raw), l) /\ Titled(NormalizeItem(raw), l) /\ Noted(NormalizeItem(raw), l)
  BY <1>8, ArrivesRaw
<1> QED
  BY <1>3, <1>4, <1>5, <1>9 DEF f

LEMMA ProtonRead ==
  ASSUME NEW l \in LoginRow, FitsFile(l)
  PROVE  LET q == Parsed(ForeignFile("proton", l))
         IN DOMAIN q = 1 .. 1 /\ Arrives(q[1], l) /\ Titled(q[1], l) /\ Noted(q[1], l)
<1> DEFINE entry == [vault |-> l.folder, name |-> l.title, note |-> l.notes, itemUsername |-> <<>>,
                     itemEmail |-> l.username, password |-> l.password, urls |-> <<l.url>>, totpUri |-> l.totp]
           items == <<entry>>
           f == ForeignFile("proton", l)
           raw == [title |-> entry.name, urls |-> entry.urls, notes |-> entry.note, folder |-> entry.vault,
                   totp_seed |-> entry.totpUri, username |-> OrElse(entry.itemUsername, entry.itemEmail),
                   password |-> entry.password]
<1>1. f = File("proton-pass", <<>>, <<>>, items)
  <2>1. "proton" \notin DOMAIN Layout
    BY DEF Layout
  <2> QED
    BY <2>1, Zenon DEF ForeignFile
<1>2. f.format = "proton-pass" /\ f.items = items
  BY <1>1 DEF File
<1> HIDE DEF f
<1>3. DOMAIN items = 1 .. 1 /\ items[1] = entry
  OBVIOUS
<1>4. Parsed(f) = [i \in DOMAIN items |-> ProtonItem(items[i])]
  BY <1>2 DEF Parsed
<1>5. ProtonItem(entry) = NormalizeItem(raw)
  BY DEF ProtonItem
<1>6. /\ entry.name = l.title /\ entry.urls = <<l.url>> /\ entry.note = l.notes /\ entry.totpUri = l.totp
      /\ entry.password = l.password /\ OrElse(entry.itemUsername, entry.itemEmail) = l.username
  BY DEF OrElse
<1> HIDE DEF items, entry
<1>7. /\ raw.title = l.title /\ raw.username = l.username /\ raw.password = l.password
      /\ raw.urls = <<l.url>> /\ raw.notes = l.notes /\ raw.totp_seed = l.totp
      /\ {"title", "username", "password", "urls", "notes", "totp_seed"} \subseteq DOMAIN raw
  BY <1>6
<1> HIDE DEF raw
<1>8. Arrives(NormalizeItem(raw), l) /\ Titled(NormalizeItem(raw), l) /\ Noted(NormalizeItem(raw), l)
  BY <1>7, ArrivesRaw
<1> QED
  BY <1>3, <1>4, <1>5, <1>8 DEF f

\* What of a login a program's file brings.
LEMMA ProgramRead ==
  ASSUME NEW l \in LoginRow, FitsFile(l), NEW program \in Programs, program # "pux"
  PROVE  LET q == Parsed(ForeignFile(program, l))
         IN /\ 1 \in DOMAIN q /\ Arrives(q[1], l)
            /\ program # "firefox" => Titled(q[1], l)
            /\ program \in {"lastpass", "onepassword", "keepassxc", "keepass", "proton"} => Noted(q[1], l)
<1>1. program \in {"chrome", "firefox", "lastpass", "onepassword", "keepassxc", "keepass", "proton"}
  BY DEF Programs, Layout
<1>2. 1 \in 1 .. 1
  OBVIOUS
<1>3. CASE program = "chrome"
  BY <1>2, <1>3, ChromeRead
<1>4. CASE program = "firefox"
  BY <1>2, <1>4, FirefoxRead
<1>5. CASE program = "lastpass"
  BY <1>2, <1>5, LastPassRead
<1>6. CASE program = "onepassword"
  BY <1>2, <1>6, OnePasswordRead
<1>7. CASE program = "keepassxc"
  BY <1>2, <1>7, KeePassXCRead
<1>8. CASE program = "keepass"
  BY <1>2, <1>8, KeePassRead
<1>9. CASE program = "proton"
  BY <1>2, <1>9, ProtonRead
<1> QED
  BY <1>1, <1>3, <1>4, <1>5, <1>6, <1>7, <1>8, <1>9

\* A login is of the file of one of the programs, and the preview shows every
\* item of the file.
Foreign ==
  /\ logins # <<>> => \E program \in Programs, l \in Logins :
                         logins = <<[program |-> program, login |-> l]>> /\ file = ForeignFile(program, l)
  /\ step \in {"preview", "importing"} => DOMAIN pending = DOMAIN Opened

LEMMA NextForeign ==
  ASSUME ImportInvariant, FileInvariant, Foreign, [Next]_vars
  PROVE  Foreign'
<1>1. CASE Create \/ Export \/ Backup
  <2>1. logins' = <<>> /\ step' \notin {"preview", "importing"}
    BY <1>1 DEF Create, Export, Backup, FileInvariant, Origin
  <2> QED
    BY <2>1 DEF Foreign
<1>2. CASE Receive
  <2>1. step' = "file" /\ \E program \in Programs, l \in Logins :
           logins' = <<[program |-> program, login |-> l]>> /\ file' = ForeignFile(program, l)
    BY <1>2 DEF Receive
  <2> QED
    BY <2>1 DEF Foreign
<1>3. ASSUME UNCHANGED <<rows, logins, file>>, step' \in {"preview", "importing"} => DOMAIN pending' = DOMAIN Opened
      PROVE  Foreign'
  BY <1>3, OpenedStays DEF Foreign
<1>4. CASE Choose
  BY <1>3, <1>4 DEF Choose, Opened
<1>5. CASE Unlock
  <2>1. file.format = "teamvault-backup"
    BY <1>5 DEF Unlock, FileInvariant, Origin
  <2> QED
    BY <1>3, <1>5, <2>1 DEF Unlock, Opened
<1>6. CASE Run
  BY <1>3, <1>6 DEF Run, Foreign
<1>7. CASE Restore
  BY <1>3, <1>7 DEF Restore
<1>8. CASE Post
  <2>1. DOMAIN pending' = DOMAIN pending /\ UNCHANGED <<rows, logins, file, step>>
    BY <1>8 DEF Post
  <2> QED
    BY <1>3, <2>1 DEF Foreign
<1>9. CASE Finish
  BY <1>3, <1>9 DEF Finish
<1>10. CASE FinishFailed
  BY <1>3, <1>10 DEF FinishFailed, Foreign
<1>11. CASE UNCHANGED vars
  BY <1>3, <1>11 DEF vars, Foreign
<1> QED
  BY <1>1, <1>2, <1>4, <1>5, <1>6, <1>7, <1>8, <1>9, <1>10, <1>11 DEF Next

LEMMA LoginsShown ==
  ASSUME FileInvariant, Foreign
  PROVE  LoginsArrive
<1> SUFFICES ASSUME logins # <<>>, step = "preview", logins[1].program # "pux", FitsFile(logins[1].login)
             PROVE  LET l == logins[1].login
                        it == pending[1]
                    IN \/ it = Wiped(it)
                       \/ /\ it.username = l.username /\ it.password = l.password /\ it.urls = <<l.url>>
                          /\ l.title # <<>> /\ logins[1].program # "firefox" => it.title = l.title
                          /\ logins[1].program \in {"lastpass", "onepassword", "keepassxc", "keepass", "proton"} =>
                               it.totp_seed = l.totp /\ it.notes = l.notes
  BY DEF LoginsArrive
<1>1. PICK program \in Programs, l \in Logins :
        logins = <<[program |-> program, login |-> l]>> /\ file = ForeignFile(program, l)
  BY DEF Foreign
<1>2. logins[1].program = program /\ logins[1].login = l /\ l \in LoginRow
  BY <1>1, ImportExportAssumption
<1>3. Opened = Parsed(ForeignFile(program, l))
  <2>1. file.format # "teamvault-backup"
    BY DEF FileInvariant, Origin, Own
  <2> QED
    BY <1>1, <2>1 DEF Opened
<1>4. /\ 1 \in DOMAIN Opened /\ Arrives(Opened[1], l)
      /\ program # "firefox" => Titled(Opened[1], l)
      /\ program \in {"lastpass", "onepassword", "keepassxc", "keepass", "proton"} => Noted(Opened[1], l)
  BY <1>2, <1>3, ProgramRead
<1>5. pending[1] = Opened[1] \/ pending[1] = Wiped(Opened[1])
  BY <1>4 DEF FileInvariant, Foreign, Shown
<1>6. Wiped(Wiped(Opened[1])) = Wiped(Opened[1])
  BY DEF Wiped
<1>7. CASE pending[1] = Opened[1]
  BY <1>2, <1>4, <1>7 DEF Arrives, Titled, Noted
<1>8. CASE pending[1] = Wiped(Opened[1])
  BY <1>6, <1>8
<1> QED
  BY <1>5, <1>7, <1>8

\* For any logins: an item of the file of another program shows, until it is
\* posted, what that program held of the login - a user name, a password and an
\* address from every program, a title where there is a column of it, notes and
\* the seed from those that write them - when the login's texts are trimmed and
\* one line each (vault-io.js parseCSV, CSV_FIELD_MAP, parseKeePassXML,
\* parseProtonPass).
THEOREM LoginsComeIn == Spec => []LoginsArrive
<1>1. Init => Foreign
  BY DEF Init, Foreign
<1>2. (ImportInvariant /\ FileInvariant) /\ Foreign /\ [Next]_vars => Foreign'
  BY NextForeign
<1>3. FileInvariant /\ Foreign => LoginsArrive
  BY LoginsShown
<1> QED
  BY <1>1, <1>2, <1>3, FilesInvariant, PTL DEF Spec

============================================================================
