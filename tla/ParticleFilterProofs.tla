--------------------------- MODULE ParticleFilterProofs --------------------------
(***************************************************************************)
(* For every number of samples and of time steps, every list of filter     *)
(* time steps and whatever samples fail, weigh and are drawn: no file has  *)
(* a gap, losses are noticed, residual resampling keeps what a weight is   *)
(* worth, the graph is the ancestry of the states, and the filter is one   *)
(* of Population.                                                          *)
(*                                                                         *)
(* The copies of _cloneData are folds over the samples.  What a fold is    *)
(* follows from the functions that meet its recurrence, of which there is  *)
(* one by induction over sets of numbers (Climb).                          *)
(***************************************************************************)
EXTENDS ParticleFilter, Integers, FiniteSetTheorems, SequenceTheorems,
        WellFoundedInduction, TLAPS

-------------------------------------------------------------------------------
(* Folds *)

\* What holds of 0, and of each number after one that it holds of, holds of all.
LEMMA Climb ==
  ASSUME NEW n \in Nat
  PROVE  \A T : 0 \in T /\ (\A i \in 1..n : i - 1 \in T => i \in T) => \A i \in 0..n : i \in T
<1> SUFFICES ASSUME NEW T, 0 \in T, \A i \in 1..n : i - 1 \in T => i \in T,
                    NEW m \in 0..n, m \notin T
             PROVE  FALSE
  OBVIOUS
<1> DEFINE All == 0..n
           R == StrictSubsetOrdering(All)
           From == {0..i : i \in {j \in 0..n : j \notin T}}
<1>1. IsFiniteSet(All)
  BY FS_Interval
<1>2. FiniteSubsetsOf(All) = SUBSET All
  BY <1>1, FS_FiniteSubsetsOfFinite
<1>3. IsWellFoundedOn(R, SUBSET All)
  <2> HIDE DEF All
  <2>1. QED
    BY <1>1, <1>2, FS_StrictSubsetOrderingWellFounded
<1>4. From \subseteq SUBSET All /\ From # {}
  OBVIOUS
<1> HIDE DEF All, R, From
<1>5. PICK x \in From : \A y \in From : ~(<<y, x>> \in R)
  BY <1>3, <1>4, WFMin
<1>6. PICK i \in 0..n : i \notin T /\ x = 0..i
  BY DEF From
<1>7. i \in 1..n /\ i - 1 \in 0..n /\ i - 1 \notin T
  BY <1>6
<1>8. 0..(i - 1) \in From
  BY <1>7 DEF From
<1>9. 0..(i - 1) \subseteq x /\ 0..(i - 1) # x
  <2>1. i \in 0..i /\ i \notin 0..(i - 1)
    BY <1>7
  <2>2. QED
    BY <1>6, <1>7, <2>1
<1>10. <<0..(i - 1), x>> \in R
  BY <1>4, <1>8, <1>9 DEF R, StrictSubsetOrdering
<1>11. QED
  BY <1>5, <1>8, <1>10

\* The largest of the first numbers.
LEMMA MaxOfInitial ==
  \A i \in Nat \ {0} : Max(1..i) = i /\ (1..i) \ {i} = 1..(i - 1) /\ 1..i # {}
<1> SUFFICES ASSUME NEW i \in Nat \ {0}
             PROVE  Max(1..i) = i /\ (1..i) \ {i} = 1..(i - 1) /\ 1..i # {}
  OBVIOUS
<1>1. i \in 1..i /\ \A y \in 1..i : i >= y
  OBVIOUS
<1>2. \A x \in 1..i : (\A y \in 1..i : x >= y) => x = i
  OBVIOUS
<1>3. Max(1..i) = i
  BY <1>1, <1>2 DEF Max
<1>4. QED
  BY <1>1, <1>3

\* A set of the first numbers has a largest.
LEMMA MaxOfPlaces ==
  \A n \in Nat : \A S \in SUBSET (1..n) : S # {} => Max(S) \in S /\ Max(S) \in 1..n
<1> SUFFICES ASSUME NEW n \in Nat, NEW S \in SUBSET (1..n), S # {}
             PROVE  Max(S) \in S
  OBVIOUS
<1> DEFINE Has(i) == \A Q \in SUBSET (1..i) : Q # {} => \E x \in Q : \A y \in Q : x >= y
           T == {i \in 0..n : Has(i)}
<1>1. Has(0)
  <2>1. 1..0 = {}
    OBVIOUS
  <2>2. QED
    BY <2>1
<1>2. ASSUME NEW i \in 1..n, Has(i - 1) PROVE Has(i)
  <2> SUFFICES ASSUME NEW Q \in SUBSET (1..i), Q # {}
               PROVE  \E x \in Q : \A y \in Q : x >= y
    OBVIOUS
  <2>1. CASE i \in Q
    <3>1. \A y \in Q : i >= y
      OBVIOUS
    <3>2. QED
      BY <2>1, <3>1
  <2>2. CASE i \notin Q
    <3>1. Q \in SUBSET (1..(i - 1))
      BY <2>2
    <3>2. QED
      BY <3>1, <1>2
  <2>3. QED
    BY <2>1, <2>2
<1>3. 0 \in T /\ \A i \in 1..n : i - 1 \in T => i \in T
  <2> HIDE DEF Has
  <2>1. QED
    BY <1>1, <1>2
<1> HIDE DEF T
<1>4. n \in T
  BY <1>3, Climb
<1>5. QED
  BY <1>4 DEF T, Max

\* A recursive function of the sets of places, which takes the last place first.
Folding(n, D, base, h, f) ==
  /\ f \in [SUBSET (1..n) -> D]
  /\ \A S \in SUBSET (1..n) :
       f[S] = IF S = {} THEN base ELSE h[<<Max(S), f[S \ {Max(S)}]>>]

\* There is a function that meets the recurrence of a fold, and one only.
LEMMA FoldExists ==
  \A n \in Nat : \A D : \A base \in D, h \in [(1..n) \X D -> D] :
    \E f : Folding(n, D, base, h, f)
<1> SUFFICES ASSUME NEW n \in Nat, NEW D, NEW base \in D, NEW h \in [(1..n) \X D -> D]
             PROVE  \E f : Folding(n, D, base, h, f)
  OBVIOUS
<1> DEFINE Has(k) ==
      \E f \in [SUBSET (1..k) -> D] : \A S \in SUBSET (1..k) :
        f[S] = IF S = {} THEN base ELSE h[<<Max(S), f[S \ {Max(S)}]>>]
<1>1. Has(0)
  <2>1. 1..0 = {}
    OBVIOUS
  <2>2. [S \in SUBSET (1..0) |-> base] \in [SUBSET (1..0) -> D]
    OBVIOUS
  <2>3. QED
    BY <2>1, <2>2
<1>2. ASSUME NEW k \in 1..n, Has(k - 1) PROVE Has(k)
  <2>1. PICK f \in [SUBSET (1..(k - 1)) -> D] : \A S \in SUBSET (1..(k - 1)) :
          f[S] = IF S = {} THEN base ELSE h[<<Max(S), f[S \ {Max(S)}]>>]
    BY <1>2
  <2> DEFINE g == [S \in SUBSET (1..k) |->
                     IF k \in S THEN h[<<k, f[S \ {k}]>>] ELSE f[S]]
  <2>2. \A S \in SUBSET (1..k) : S \ {k} \in SUBSET (1..(k - 1))
    OBVIOUS
  <2>3. \A S \in SUBSET (1..k) : k \in S => Max(S) = k
    <3> SUFFICES ASSUME NEW S \in SUBSET (1..k), k \in S PROVE Max(S) = k
      OBVIOUS
    <3>1. \A y \in S : k >= y
      OBVIOUS
    <3>2. \A x \in S : (\A y \in S : x >= y) => x = k
      <4> SUFFICES ASSUME NEW x \in S, x >= k PROVE x = k
        OBVIOUS
      <4>1. x \in 1..k
        OBVIOUS
      <4>2. QED
        BY <4>1
    <3>3. QED
      BY <3>1, <3>2 DEF Max
  <2>4. \A S \in SUBSET (1..k) : k \notin S => S = S \ {k}
    OBVIOUS
  <2>5. g \in [SUBSET (1..k) -> D]
    <3>1. \A S \in SUBSET (1..k) : g[S] \in D
      BY <2>2, <2>4
    <3>2. QED
      BY <3>1
  <2>6. ASSUME NEW S \in SUBSET (1..k)
        PROVE  g[S] = IF S = {} THEN base ELSE h[<<Max(S), g[S \ {Max(S)}]>>]
    <3>1. CASE k \in S
      <4>1. g[S \ {k}] = f[S \ {k}] /\ g[S] = h[<<k, f[S \ {k}]>>]
        BY <3>1, <2>2
      <4>2. QED
        BY <4>1, <3>1, <2>3
    <3>2. CASE k \notin S
      <4>1. S \in SUBSET (1..(k - 1)) /\ g[S] = f[S]
        BY <3>2, <2>2, <2>4
      <4>2. f[S] = IF S = {} THEN base ELSE h[<<Max(S), f[S \ {Max(S)}]>>]
        BY <4>1, <2>1
      <4>3. k \notin S \ {Max(S)} /\ S \ {Max(S)} \in SUBSET (1..k)
        BY <3>2
      <4>4. g[S \ {Max(S)}] = f[S \ {Max(S)}]
        BY <4>3
      <4>5. QED
        BY <4>1, <4>2, <4>4
    <3>3. QED
      BY <3>1, <3>2
  <2>7. QED
    BY <2>5, <2>6
<1> DEFINE T == {k \in 0..n : Has(k)}
<1>3. 0 \in T /\ \A i \in 1..n : i - 1 \in T => i \in T
  <2> HIDE DEF Has
  <2>1. QED
    BY <1>1, <1>2
<1> HIDE DEF T
<1>4. n \in T
  BY <1>3, Climb
<1>5. QED
  BY <1>4 DEF T, Folding

IsTotal(w, f) ==
  f = [S \in SUBSET DOMAIN w |-> IF S = {} THEN 0 ELSE f[S \ {Max(S)}] + w[Max(S)]]

\* Total is a fold with addition.
LEMMA TotalIsFold == \A w : Total(w) = (CHOOSE f : IsTotal(w, f))[DOMAIN w]
BY Zenon DEF Total, FoldLeft, MapThenFoldSet, IsTotal

\* The total is reached one weight after the other.
LEMMA TotalMeaning ==
  ASSUME NEW n \in Nat, NEW w \in [1..n -> Int]
  PROVE  \E p \in [0..n -> Int] :
           p[0] = 0 /\ Total(w) = p[n] /\ \A i \in 1..n : p[i] = p[i - 1] + w[i]
<1> DEFINE D == Int
           base == 0
           h == [x \in (1..n) \X D |-> x[2] + w[x[1]]]
<1>1. h \in [(1..n) \X D -> D] /\ base \in D
  OBVIOUS
<1> HIDE DEF h, D, base
<1>2. PICK f : Folding(n, D, base, h, f)
  BY <1>1, FoldExists, Zenon
<1> USE DEF D, base
<1>3. \A S \in SUBSET (1..n) : S # {} => Max(S) \in 1..n
  BY MaxOfPlaces
<1>4. \A S \in SUBSET (1..n) :
        f[S] = IF S = {} THEN 0 ELSE f[S \ {Max(S)}] + w[Max(S)]
  BY <1>2, <1>3 DEF h, Folding
<1>5. IsTotal(w, f)
  BY <1>2, <1>4 DEF Folding, IsTotal
<1>6. PICK g : IsTotal(w, g) /\ Total(w) = g[1..n]
  <2>1. IsTotal(w, CHOOSE x : IsTotal(w, x))
    BY <1>5, Zenon
  <2>2. DOMAIN w = 1..n
    OBVIOUS
  <2>3. QED
    BY <2>1, <2>2, TotalIsFold, Zenon
<1>7. \A S \in SUBSET (1..n) :
        g[S] = IF S = {} THEN 0 ELSE g[S \ {Max(S)}] + w[Max(S)]
  BY <1>6 DEF IsTotal
<1>8. \A i \in 1..n : g[1..i] = g[1..(i - 1)] + w[i]
  <2> SUFFICES ASSUME NEW i \in 1..n PROVE g[1..i] = g[1..(i - 1)] + w[i]
    OBVIOUS
  <2> i \in Nat \ {0}
    OBVIOUS
  <2>1. Max(1..i) = i /\ (1..i) \ {i} = 1..(i - 1) /\ 1..i # {}
    BY MaxOfInitial
  <2>2. 1..i \in SUBSET (1..n)
    OBVIOUS
  <2>3. QED
    BY <1>7, <2>1, <2>2
<1>9. g[1..0] = 0
  <2>1. 1..0 = {}
    OBVIOUS
  <2>2. QED
    BY <1>7, <2>1
<1> DEFINE T == {i \in 0..n : g[1..i] \in Int}
<1>10. 0 \in T /\ \A i \in 1..n : i - 1 \in T => i \in T
  BY <1>8, <1>9
<1>11. \A i \in 0..n : i \in T
  <2> HIDE DEF T
  <2>1. QED
    BY <1>10, Climb
<1> DEFINE p == [i \in 0..n |-> g[1..i]]
<1>12. p \in [0..n -> Int] /\ p[0] = 0 /\ p[n] = g[1..n]
  BY <1>9, <1>11
<1>13. \A i \in 1..n : p[i] = p[i - 1] + w[i]
  BY <1>8
<1>14. QED
  BY <1>6, <1>12, <1>13

IsDead(c, f) ==
  f = [S \in SUBSET DOMAIN [i \in DOMAIN c |-> i] |->
         IF S = {} THEN <<>>
         ELSE IF c[[i \in DOMAIN c |-> i][Max(S)]] = 0
         THEN Append(f[S \ {Max(S)}], [i \in DOMAIN c |-> i][Max(S)])
         ELSE f[S \ {Max(S)}]]

\* Dead is a fold that appends the samples that are not drawn.
LEMMA DeadIsFold ==
  \A c : Dead(c) = (CHOOSE f : IsDead(c, f))[DOMAIN [i \in DOMAIN c |-> i]]
BY Zenon DEF Dead, FoldLeftDomain, FoldLeft, MapThenFoldSet, IsDead

IsCopied(c, f) ==
  f = [S \in SUBSET DOMAIN [i \in DOMAIN c |-> i] |->
         IF S = {} THEN <<>>
         ELSE f[S \ {Max(S)}] \o Copies(c, [i \in DOMAIN c |-> i][Max(S)])]

\* Copied is a fold that appends the copies of each sample.
LEMMA CopiedIsFold ==
  \A c : Copied(c) = (CHOOSE f : IsCopied(c, f))[DOMAIN [i \in DOMAIN c |-> i]]
BY Zenon DEF Copied, FoldLeftDomain, FoldLeft, MapThenFoldSet, IsCopied

\* The dead samples are found one after the other.
LEMMA DeadMeaning ==
  ASSUME NEW n \in Nat, NEW c \in [1..n -> Nat]
  PROVE  \E p \in [0..n -> Seq(1..n)] :
           p[0] = <<>> /\ Dead(c) = p[n] /\ \A i \in 1..n : p[i] = IF c[i] = 0 THEN Append(p[i - 1], i) ELSE p[i - 1]
<1> DEFINE D == Seq(1..n)
           base == <<>>
           id == [i \in DOMAIN c |-> i]
           h == [x \in (1..n) \X D |-> IF c[x[1]] = 0 THEN Append(x[2], x[1]) ELSE x[2]]
<1>1. h \in [(1..n) \X D -> D] /\ base \in D
  <2>1. \A x \in (1..n) \X D : h[x] \in D
    <3> SUFFICES ASSUME NEW i \in 1..n, NEW q \in D PROVE h[<<i, q>>] \in D
      OBVIOUS
    <3>1. h[<<i, q>>] = IF c[i] = 0 THEN Append(q, i) ELSE q
      OBVIOUS
    <3>2. QED
      <4>1. Append(q, i) \in Seq(1..n)
        OBVIOUS
      <4>2. QED
        BY <3>1, <4>1
  <2>2. QED
    BY <2>1
<1> HIDE DEF h, D, base
<1>2. PICK f : Folding(n, D, base, h, f)
  BY <1>1, FoldExists, Zenon
<1>3. \A S \in SUBSET (1..n) : S # {} => Max(S) \in 1..n
  BY MaxOfPlaces
<1>4. \A S \in SUBSET (1..n) :
        f[S] = IF S = {} THEN <<>> ELSE IF c[Max(S)] = 0 THEN Append(f[S \ {Max(S)}], Max(S)) ELSE f[S \ {Max(S)}]
  <2> SUFFICES ASSUME NEW S \in SUBSET (1..n)
               PROVE  f[S] = IF S = {} THEN <<>> ELSE IF c[Max(S)] = 0 THEN Append(f[S \ {Max(S)}], Max(S)) ELSE f[S \ {Max(S)}]
    OBVIOUS
  <2>1. f[S] = IF S = {} THEN base ELSE h[<<Max(S), f[S \ {Max(S)}]>>]
    BY <1>2 DEF Folding
  <2>2. S # {} => f[S \ {Max(S)}] \in D
    BY <1>2 DEF Folding
  <2>3. \A i \in 1..n, q \in D : h[<<i, q>>] = IF c[i] = 0 THEN Append(q, i) ELSE q
    BY DEF h
  <2>4. QED
    BY <1>3, <2>1, <2>2, <2>3 DEF base
<1>5. IsDead(c, f)
  <2>1. \A S \in SUBSET (1..n) :
          f[S] = IF S = {} THEN <<>> ELSE IF c[id[Max(S)]] = 0 THEN Append(f[S \ {Max(S)}], id[Max(S)]) ELSE f[S \ {Max(S)}]
    BY <1>3, <1>4
  <2>2. DOMAIN id = 1..n /\ f = [S \in SUBSET (1..n) |-> f[S]]
    BY <1>2 DEF Folding
  <2> HIDE DEF id
  <2>3. f = [S \in SUBSET DOMAIN id |->
               IF S = {} THEN <<>> ELSE IF c[id[Max(S)]] = 0 THEN Append(f[S \ {Max(S)}], id[Max(S)]) ELSE f[S \ {Max(S)}]]
    BY <2>1, <2>2
  <2>4. QED
    BY <2>3, Zenon DEF IsDead, id
<1>6. PICK g : IsDead(c, g) /\ Dead(c) = g[1..n]
  <2>1. IsDead(c, CHOOSE x : IsDead(c, x))
    BY <1>5, Zenon
  <2>2. DOMAIN id = 1..n
    OBVIOUS
  <2>3. QED
    BY <2>1, <2>2, DeadIsFold, Zenon
<1>7. \A S \in SUBSET (1..n) :
        g[S] = IF S = {} THEN <<>> ELSE IF c[Max(S)] = 0 THEN Append(g[S \ {Max(S)}], Max(S)) ELSE g[S \ {Max(S)}]
  <2>1. DOMAIN id = 1..n /\ \A i \in 1..n : id[i] = i
    OBVIOUS
  <2>2. g = [S \in SUBSET DOMAIN id |->
               IF S = {} THEN <<>> ELSE IF c[id[Max(S)]] = 0 THEN Append(g[S \ {Max(S)}], id[Max(S)]) ELSE g[S \ {Max(S)}]]
    BY <1>6, Zenon DEF IsDead
  <2> HIDE DEF id
  <2>3. \A S \in SUBSET (1..n) :
          g[S] = IF S = {} THEN <<>> ELSE IF c[id[Max(S)]] = 0 THEN Append(g[S \ {Max(S)}], id[Max(S)]) ELSE g[S \ {Max(S)}]
    BY <2>1, <2>2, Zenon
  <2>4. QED
    BY <1>3, <2>1, <2>3
<1>8. \A i \in 1..n : g[1..i] = IF c[i] = 0 THEN Append(g[1..(i - 1)], i) ELSE g[1..(i - 1)]
  <2> SUFFICES ASSUME NEW i \in 1..n PROVE g[1..i] = IF c[i] = 0 THEN Append(g[1..(i - 1)], i) ELSE g[1..(i - 1)]
    OBVIOUS
  <2> i \in Nat \ {0}
    OBVIOUS
  <2>1. Max(1..i) = i /\ (1..i) \ {i} = 1..(i - 1) /\ 1..i # {}
    BY MaxOfInitial
  <2>2. 1..i \in SUBSET (1..n)
    OBVIOUS
  <2>3. QED
    BY <1>7, <2>1, <2>2
<1>9. g[1..0] = <<>>
  <2>1. 1..0 = {}
    OBVIOUS
  <2>2. QED
    BY <1>7, <2>1
<1> DEFINE T == {i \in 0..n : g[1..i] \in D}
<1>10. 0 \in T /\ \A i \in 1..n : i - 1 \in T => i \in T
  <2>1. 0 \in T
    BY <1>1, <1>9 DEF base
  <2>2. ASSUME NEW i \in 1..n, i - 1 \in T PROVE i \in T
    <3>1. g[1..(i - 1)] \in D
      BY <2>2
    <3>2. h[<<i, g[1..(i - 1)]>>] = g[1..i] /\ h[<<i, g[1..(i - 1)]>>] \in D
      BY <1>1, <1>8, <3>1 DEF h
    <3>3. QED
      BY <3>2
  <2>3. QED
    BY <2>1, <2>2
<1>11. \A i \in 0..n : i \in T
  <2> HIDE DEF T
  <2>1. QED
    BY <1>10, Climb
<1> DEFINE p == [i \in 0..n |-> g[1..i]]
<1>12. p \in [0..n -> D] /\ p[0] = <<>> /\ p[n] = g[1..n]
  BY <1>9, <1>11
<1>13. \A i \in 1..n : p[i] = IF c[i] = 0 THEN Append(p[i - 1], i) ELSE p[i - 1]
  BY <1>8
<1>14. QED
  BY <1>6, <1>12, <1>13 DEF D

\* A sample is copied once less than it is drawn.
LEMMA CopiesMeaning ==
  \A n \in Nat : \A c \in [1..n -> Nat], i \in 1..n :
    /\ Copies(c, i) \in Seq({i}) /\ Copies(c, i) \in Seq(1..n)
    /\ Len(Copies(c, i)) = IF c[i] > 1 THEN c[i] - 1 ELSE 0
<1> SUFFICES ASSUME NEW n \in Nat, NEW c \in [1..n -> Nat], NEW i \in 1..n
             PROVE  /\ Copies(c, i) \in Seq({i}) /\ Copies(c, i) \in Seq(1..n)
                    /\ Len(Copies(c, i)) = IF c[i] > 1 THEN c[i] - 1 ELSE 0
  OBVIOUS
<1>1. PICK m \in Nat : m = IF c[i] > 1 THEN c[i] - 1 ELSE 0
  OBVIOUS
<1>2. Copies(c, i) = [j \in 1..m |-> i]
  BY <1>1, Zenon DEF Copies
<1>3. QED
  BY <1>1, <1>2

\* So are the samples that are copied, each as often as it is.
LEMMA CopiedMeaning ==
  ASSUME NEW n \in Nat, NEW c \in [1..n -> Nat]
  PROVE  \E p \in [0..n -> Seq(1..n)] :
           p[0] = <<>> /\ Copied(c) = p[n] /\ \A i \in 1..n : p[i] = p[i - 1] \o Copies(c, i)
<1> DEFINE D == Seq(1..n)
           base == <<>>
           id == [i \in DOMAIN c |-> i]
           h == [x \in (1..n) \X D |-> x[2] \o Copies(c, x[1])]
<1>1. h \in [(1..n) \X D -> D] /\ base \in D
  <2>1. \A x \in (1..n) \X D : h[x] \in D
    <3> SUFFICES ASSUME NEW i \in 1..n, NEW q \in D PROVE h[<<i, q>>] \in D
      OBVIOUS
    <3>1. h[<<i, q>>] = q \o Copies(c, i)
      OBVIOUS
    <3>2. QED
      <4>1. Copies(c, i) \in Seq(1..n)
        BY CopiesMeaning
      <4>2. q \o Copies(c, i) \in Seq(1..n)
        BY <4>1
      <4>3. QED
        BY <3>1, <4>2
  <2>2. QED
    BY <2>1
<1> HIDE DEF h, D, base
<1>2. PICK f : Folding(n, D, base, h, f)
  BY <1>1, FoldExists, Zenon
<1>3. \A S \in SUBSET (1..n) : S # {} => Max(S) \in 1..n
  BY MaxOfPlaces
<1>4. \A S \in SUBSET (1..n) :
        f[S] = IF S = {} THEN <<>> ELSE f[S \ {Max(S)}] \o Copies(c, Max(S))
  <2> SUFFICES ASSUME NEW S \in SUBSET (1..n)
               PROVE  f[S] = IF S = {} THEN <<>> ELSE f[S \ {Max(S)}] \o Copies(c, Max(S))
    OBVIOUS
  <2>1. f[S] = IF S = {} THEN base ELSE h[<<Max(S), f[S \ {Max(S)}]>>]
    BY <1>2 DEF Folding
  <2>2. S # {} => f[S \ {Max(S)}] \in D
    BY <1>2 DEF Folding
  <2>3. \A i \in 1..n, q \in D : h[<<i, q>>] = q \o Copies(c, i)
    BY DEF h
  <2>4. QED
    BY <1>3, <2>1, <2>2, <2>3 DEF base
<1>5. IsCopied(c, f)
  <2>1. \A S \in SUBSET (1..n) :
          f[S] = IF S = {} THEN <<>> ELSE f[S \ {Max(S)}] \o Copies(c, id[Max(S)])
    BY <1>3, <1>4
  <2>2. DOMAIN id = 1..n /\ f = [S \in SUBSET (1..n) |-> f[S]]
    BY <1>2 DEF Folding
  <2> HIDE DEF id
  <2>3. f = [S \in SUBSET DOMAIN id |->
               IF S = {} THEN <<>> ELSE f[S \ {Max(S)}] \o Copies(c, id[Max(S)])]
    BY <2>1, <2>2
  <2>4. QED
    BY <2>3, Zenon DEF IsCopied, id
<1>6. PICK g : IsCopied(c, g) /\ Copied(c) = g[1..n]
  <2>1. IsCopied(c, CHOOSE x : IsCopied(c, x))
    BY <1>5, Zenon
  <2>2. DOMAIN id = 1..n
    OBVIOUS
  <2>3. QED
    BY <2>1, <2>2, CopiedIsFold, Zenon
<1>7. \A S \in SUBSET (1..n) :
        g[S] = IF S = {} THEN <<>> ELSE g[S \ {Max(S)}] \o Copies(c, Max(S))
  <2>1. DOMAIN id = 1..n /\ \A i \in 1..n : id[i] = i
    OBVIOUS
  <2>2. g = [S \in SUBSET DOMAIN id |->
               IF S = {} THEN <<>> ELSE g[S \ {Max(S)}] \o Copies(c, id[Max(S)])]
    BY <1>6, Zenon DEF IsCopied
  <2> HIDE DEF id
  <2>3. \A S \in SUBSET (1..n) :
          g[S] = IF S = {} THEN <<>> ELSE g[S \ {Max(S)}] \o Copies(c, id[Max(S)])
    BY <2>1, <2>2, Zenon
  <2>4. QED
    BY <1>3, <2>1, <2>3
<1>8. \A i \in 1..n : g[1..i] = g[1..(i - 1)] \o Copies(c, i)
  <2> SUFFICES ASSUME NEW i \in 1..n PROVE g[1..i] = g[1..(i - 1)] \o Copies(c, i)
    OBVIOUS
  <2> i \in Nat \ {0}
    OBVIOUS
  <2>1. Max(1..i) = i /\ (1..i) \ {i} = 1..(i - 1) /\ 1..i # {}
    BY MaxOfInitial
  <2>2. 1..i \in SUBSET (1..n)
    OBVIOUS
  <2>3. QED
    BY <1>7, <2>1, <2>2
<1>9. g[1..0] = <<>>
  <2>1. 1..0 = {}
    OBVIOUS
  <2>2. QED
    BY <1>7, <2>1
<1> DEFINE T == {i \in 0..n : g[1..i] \in D}
<1>10. 0 \in T /\ \A i \in 1..n : i - 1 \in T => i \in T
  <2>1. 0 \in T
    BY <1>1, <1>9 DEF base
  <2>2. ASSUME NEW i \in 1..n, i - 1 \in T PROVE i \in T
    <3>1. g[1..(i - 1)] \in D
      BY <2>2
    <3>2. h[<<i, g[1..(i - 1)]>>] = g[1..i] /\ h[<<i, g[1..(i - 1)]>>] \in D
      BY <1>1, <1>8, <3>1 DEF h
    <3>3. QED
      BY <3>2
  <2>3. QED
    BY <2>1, <2>2
<1>11. \A i \in 0..n : i \in T
  <2> HIDE DEF T
  <2>1. QED
    BY <1>10, Climb
<1> DEFINE p == [i \in 0..n |-> g[1..i]]
<1>12. p \in [0..n -> D] /\ p[0] = <<>> /\ p[n] = g[1..n]
  BY <1>9, <1>11
<1>13. \A i \in 1..n : p[i] = p[i - 1] \o Copies(c, i)
  <2>1. \A i \in 1..n : p[i] = g[1..i] /\ p[i - 1] = g[1..(i - 1)]
    OBVIOUS
  <2>2. QED
    BY <1>8, <2>1, Zenon
<1>14. QED
  BY <1>6, <1>12, <1>13 DEF D

-------------------------------------------------------------------------------
(* Choosing and copying samples *)

\* When as many samples are chosen as there are, each gets the state of one that
\* was: as many are copied as are dead.
LEMMA SourceMeaning ==
  ASSUME NEW c \in [Samples -> Nat], Total(c) = NrSamples
  PROVE  \A s \in Samples :
           Source(c, s) \in Samples /\ c[Source(c, s)] > 0 /\ (c[s] > 0 => Source(c, s) = s)
<1> DEFINE n == NrSamples
<1>1. n \in Nat /\ Samples = 1..n /\ c \in [1..n -> Nat] /\ c \in [1..n -> Int]
  BY NrAssumption DEF Samples
<1> HIDE DEF n
<1>2. PICK p \in [0..n -> Int] :
        p[0] = 0 /\ Total(c) = p[n] /\ \A i \in 1..n : p[i] = p[i - 1] + c[i]
  BY <1>1, TotalMeaning
<1>3. PICK d \in [0..n -> Seq(1..n)] :
        /\ d[0] = <<>> /\ Dead(c) = d[n]
        /\ \A i \in 1..n : d[i] = IF c[i] = 0 THEN Append(d[i - 1], i) ELSE d[i - 1]
  BY <1>1, DeadMeaning
<1>4. PICK q \in [0..n -> Seq(1..n)] :
        /\ q[0] = <<>> /\ Copied(c) = q[n]
        /\ \A i \in 1..n : q[i] = q[i - 1] \o Copies(c, i)
  BY <1>1, CopiedMeaning
<1> DEFINE Even(i) == p[i] + Len(d[i]) = i + Len(q[i])
           Found(i) == \A s \in 1..i : c[s] = 0 => \E k \in 1..Len(d[i]) : d[i][k] = s
           Alive(i) == \A k \in 1..Len(q[i]) : c[q[i][k]] > 0
           T == {i \in 0..n : Even(i) /\ Found(i) /\ Alive(i)}
<1>5. Even(0) /\ Found(0) /\ Alive(0)
  BY <1>2, <1>3, <1>4
<1>6. ASSUME NEW i \in 1..n, Even(i - 1), Found(i - 1), Alive(i - 1)
      PROVE  Even(i) /\ Found(i) /\ Alive(i)
  <2>1. /\ i - 1 \in 0..n /\ i \in 0..n /\ c[i] \in Nat
        /\ d[i - 1] \in Seq(1..n) /\ q[i - 1] \in Seq(1..n)
        /\ p[i - 1] \in Int
    BY <1>1
  <2>2. d[i] = IF c[i] = 0 THEN Append(d[i - 1], i) ELSE d[i - 1]
    BY <1>3
  <2>3. q[i] = q[i - 1] \o Copies(c, i)
    BY <1>4
  <2>4. /\ Copies(c, i) \in Seq({i}) /\ Copies(c, i) \in Seq(1..n)
        /\ Len(Copies(c, i)) = IF c[i] > 1 THEN c[i] - 1 ELSE 0
    BY <1>1, CopiesMeaning
  <2>5. p[i] = p[i - 1] + c[i]
    BY <1>2
  <2>6. Even(i)
    <3>1. Len(q[i]) = Len(q[i - 1]) + Len(Copies(c, i))
      <4>1. Len(q[i - 1] \o Copies(c, i)) = Len(q[i - 1]) + Len(Copies(c, i))
        <5> HIDE DEF Even, Found, Alive, T
        <5>1. QED
          BY <2>1, <2>4, ConcatProperties
      <4>2. QED
        BY <2>3, <4>1
    <3>2. Len(d[i]) = Len(d[i - 1]) + IF c[i] = 0 THEN 1 ELSE 0
      BY <2>1, <2>2
    <3>3. Len(d[i - 1]) \in Nat /\ Len(q[i - 1]) \in Nat
      BY <2>1
    <3>4. p[i - 1] + Len(d[i - 1]) = (i - 1) + Len(q[i - 1])
      BY <1>6
    <3>5. PICK x \in Int : x = p[i - 1]
      BY <2>1
    <3>6. PICK y \in Nat, z \in Nat : y = Len(d[i - 1]) /\ z = Len(q[i - 1])
      BY <3>3
    <3>7. PICK m \in Nat : m = c[i]
      BY <2>1
    <3>8. p[i] = x + m /\ x + y = (i - 1) + z /\ i \in Int
      BY <1>1, <2>5, <3>4, <3>5, <3>6, <3>7
    <3>9. Len(d[i]) = y + IF m = 0 THEN 1 ELSE 0
      BY <3>2, <3>6, <3>7
    <3>10. Len(q[i]) = z + IF m > 1 THEN m - 1 ELSE 0
      BY <2>4, <3>1, <3>6, <3>7
    <3>11. x + m + (y + IF m = 0 THEN 1 ELSE 0) = i + (z + IF m > 1 THEN m - 1 ELSE 0)
      BY <3>8
    <3>12. QED
      BY <3>8, <3>9, <3>10, <3>11
  <2>7. Found(i)
    <3> SUFFICES ASSUME NEW s \in 1..i, c[s] = 0
                 PROVE  \E k \in 1..Len(d[i]) : d[i][k] = s
      OBVIOUS
    <3>1. CASE s = i
      <4>1. d[i] = Append(d[i - 1], i)
        BY <2>2, <3>1
      <4>2. Len(d[i]) \in 1..Len(d[i]) /\ d[i][Len(d[i])] = i
        BY <2>1, <4>1
      <4>3. QED
        BY <3>1, <4>2
    <3>2. CASE s # i
      <4>1. s \in 1..(i - 1)
        BY <3>2
      <4>2. PICK k \in 1..Len(d[i - 1]) : d[i - 1][k] = s
        BY <1>6, <4>1
      <4>3. k \in 1..Len(d[i]) /\ d[i][k] = s
        BY <2>1, <2>2, <4>2
      <4>4. QED
        BY <4>3
    <3>3. QED
      BY <3>1, <3>2
  <2>8. Alive(i)
    <3> HIDE DEF Even, Found, T
    <3>1. PICK a \in Seq(1..n), b \in Seq({i}) : a = q[i - 1] /\ b = Copies(c, i)
      BY <2>1, <2>4
    <3>2. PICK z \in Nat, m \in Nat : z = Len(a) /\ m = Len(b) /\ (m > 0 => c[i] > 1)
      <4>1. Len(a) \in Nat /\ Len(b) \in Nat
        BY LenProperties
      <4>2. QED
        BY <2>4, <3>1, <4>1
    <3>3. /\ Len(a \o b) = z + m
          /\ \A k \in 1..(z + m) : (a \o b)[k] = IF k <= z THEN a[k] ELSE b[k - z]
      <4>1. a \in Seq(1..n) /\ b \in Seq(1..n)
        BY <2>4, <3>1
      <4>2. QED
        BY <3>2, <4>1, ConcatProperties
    <3>4. \A k \in 1..m : b[k] = i
      BY <3>2, ElementOfSeq
    <3>5. q[i] = a \o b
      BY <2>3, <3>1
    <3>6. \A k \in 1..z : c[a[k]] > 0
      BY <1>6, <3>1, <3>2
    <3> HIDE DEF Alive
    <3>7. ASSUME NEW k \in 1..(z + m) PROVE c[(a \o b)[k]] > 0
      <4>1. CASE k <= z
        <5>1. k \in 1..z
          BY <4>1
        <5>2. QED
          BY <3>3, <3>6, <4>1, <5>1
      <4>2. CASE ~(k <= z)
        <5>1. k - z \in 1..m /\ m > 0
          BY <4>2
        <5>2. (a \o b)[k] = i
          BY <3>3, <3>4, <4>2, <5>1
        <5>3. QED
          BY <2>1, <3>2, <5>1, <5>2
      <4>3. QED
        BY <4>1, <4>2
    <3>8. QED
      BY <3>3, <3>5, <3>7 DEF Alive
  <2>9. QED
    BY <2>6, <2>7, <2>8
<1>7. 0 \in T /\ \A i \in 1..n : i - 1 \in T => i \in T
  <2> HIDE DEF Even, Found, Alive
  <2>1. 0 \in T
    BY <1>1, <1>5
  <2>2. \A i \in 1..n : i - 1 \in T => i \in T
    <3> SUFFICES ASSUME NEW i \in 1..n, i - 1 \in T PROVE i \in T
      OBVIOUS
    <3>1. Even(i) /\ Found(i) /\ Alive(i)
      BY <1>6
    <3>2. i \in 0..n
      BY <1>1
    <3>3. QED
      BY <3>1, <3>2
  <2>3. QED
    BY <2>1, <2>2
<1>8. Even(n) /\ Found(n) /\ Alive(n)
  <2> HIDE DEF Even, Found, Alive
  <2>1. n \in T
    <3> HIDE DEF T
    <3>1. \A i \in 0..n : i \in T
      BY <1>1, <1>7, Climb, Zenon
    <3>2. QED
      BY <1>1, <3>1
  <2>2. QED
    BY <2>1
<1>9. d[n] \in Seq(1..n) /\ q[n] \in Seq(1..n) /\ Len(d[n]) = Len(q[n])
  <2>1. d[n] \in Seq(1..n) /\ q[n] \in Seq(1..n) /\ n \in 0..n
    BY <1>1
  <2>2. Len(d[n]) \in Nat /\ Len(q[n]) \in Nat /\ p[n] = n
    BY <1>2, <2>1 DEF n
  <2>3. QED
    BY <1>1, <1>8, <2>1, <2>2
<1> SUFFICES ASSUME NEW s \in Samples
             PROVE  /\ Source(c, s) \in Samples /\ c[Source(c, s)] > 0
                    /\ c[s] > 0 => Source(c, s) = s
  OBVIOUS
<1>10. CASE c[s] > 0
  BY <1>10 DEF Source
<1>11. CASE ~(c[s] > 0)
  <2> DEFINE k == CHOOSE x \in DOMAIN d[n] : d[n][x] = s
  <2>1. c[s] = 0 /\ s \in 1..n
    BY <1>1, <1>11
  <2>2. k \in DOMAIN d[n]
    <3>1. PICK x \in 1..Len(d[n]) : d[n][x] = s
      BY <1>8, <2>1
    <3>2. x \in DOMAIN d[n]
      BY <1>9, LenProperties
    <3>3. QED
      BY <3>1, <3>2
  <2>3. Source(c, s) = q[n][Len(d[n]) + 1 - k]
    BY <1>3, <1>4, <1>11, Zenon DEF Source
  <2> HIDE DEF k
  <2>4. Len(d[n]) + 1 - k \in 1..Len(q[n])
    <3>1. Len(d[n]) \in Nat /\ k \in 1..Len(d[n])
      <4> HIDE DEF Even, Found, Alive, T
      <4>1. QED
        BY <1>9, <2>2, LenProperties
    <3>2. \A m \in Nat : \A x \in 1..m : m + 1 - x \in 1..m
      OBVIOUS
    <3>3. QED
      BY <1>9, <3>1, <3>2
  <2>5. q[n][Len(d[n]) + 1 - k] \in 1..n /\ c[q[n][Len(d[n]) + 1 - k]] > 0
    <3>1. \A m \in 1..Len(q[n]) : q[n][m] \in 1..n
      <4> HIDE DEF Even, Found, Alive, T
      <4>1. QED
        BY <1>9, ElementOfSeq
    <3>2. \A m \in 1..Len(q[n]) : c[q[n][m]] > 0
      BY <1>8
    <3>3. QED
      BY <2>4, <3>1, <3>2, Zenon
  <2>6. QED
    BY <1>1, <1>11, <2>3, <2>5
<1>12. QED
  BY <1>10, <1>11

\* The weights are natural numbers, of which the total is at least as large.
LEMMA TotalBounds ==
  \A n \in Nat : \A w \in [1..n -> Nat] :
    Total(w) \in Nat /\ \A i \in 1..n : w[i] <= Total(w)
<1> SUFFICES ASSUME NEW n \in Nat, NEW w \in [1..n -> Nat]
             PROVE  Total(w) \in Nat /\ \A i \in 1..n : w[i] <= Total(w)
  OBVIOUS
<1>1. w \in [1..n -> Int]
  OBVIOUS
<1>2. PICK p \in [0..n -> Int] :
        p[0] = 0 /\ Total(w) = p[n] /\ \A i \in 1..n : p[i] = p[i - 1] + w[i]
  BY <1>1, TotalMeaning
<1> DEFINE Above(i) == p[i] >= 0 /\ \A j \in 1..i : w[j] <= p[i]
           T == {i \in 0..n : Above(i)}
<1>3. Above(0)
  BY <1>2
<1>4. ASSUME NEW i \in 1..n, Above(i - 1) PROVE Above(i)
  <2>1. PICK x \in Int : x = p[i - 1]
    OBVIOUS
  <2>2. PICK y \in Nat : y = w[i]
    OBVIOUS
  <2>3. p[i] = x + y /\ x >= 0
    BY <1>2, <1>4, <2>1, <2>2
  <2>4. ASSUME NEW j \in 1..i PROVE w[j] <= p[i]
    <3>1. CASE j = i
      BY <2>2, <2>3, <3>1
    <3>2. CASE j # i
      <4>1. j \in 1..(i - 1) /\ w[j] \in Nat
        BY <3>2
      <4>2. w[j] <= x
        BY <1>4, <2>1, <4>1
      <4>3. QED
        BY <2>3, <4>1, <4>2
    <3>3. QED
      BY <3>1, <3>2
  <2>5. QED
    BY <2>3, <2>4
<1>5. 0 \in T /\ \A i \in 1..n : i - 1 \in T => i \in T
  <2> HIDE DEF Above
  <2>1. QED
    BY <1>3, <1>4
<1>6. Above(n)
  <2> HIDE DEF T
  <2>1. \A i \in 0..n : i \in T
    BY <1>5, Climb
  <2>2. n \in T
    BY <2>1
  <2>3. QED
    BY <2>2 DEF T
<1>7. QED
  BY <1>2, <1>6

\* The cumulative weights rise by the weight of each sample.
LEMMA CumulativeMeaning ==
  ASSUME NEW n \in Nat, NEW w \in [1..n -> Int]
  PROVE  /\ CumulativeWeights(w) \in [1..n -> Int]
         /\ \A j \in 1..n :
              w[j] = CumulativeWeights(w)[j]
                       - (IF j = 1 THEN 0 ELSE CumulativeWeights(w)[j - 1])
<1> DEFINE sums == CumulativeWeights(w)
<1>1. PICK p \in [0..n -> Int] :
        p[0] = 0 /\ Total(w) = p[n] /\ \A i \in 1..n : p[i] = p[i - 1] + w[i]
  BY TotalMeaning
<1>2. ASSUME NEW s \in 1..n PROVE Total(SubSeq(w, 1, s)) = p[s]
  <2> DEFINE v == [i \in 1..s |-> w[i]]
  <2>1. s \in Nat /\ v \in [1..s -> Int] /\ \A i \in 1..s : v[i] = w[i]
    OBVIOUS
  <2>2. SubSeq(w, 1, s) = v
    <3>1. w \in Seq(Int) /\ Len(w) = n
      OBVIOUS
    <3>2. QED
      BY <3>1
  <2> HIDE DEF v
  <2>3. PICK q \in [0..s -> Int] :
          q[0] = 0 /\ Total(v) = q[s] /\ \A i \in 1..s : q[i] = q[i - 1] + v[i]
    BY <2>1, TotalMeaning
  <2> DEFINE T == {i \in 0..s : q[i] = p[i]}
  <2>4. 0 \in T
    BY <1>1, <2>3
  <2>5. ASSUME NEW i \in 1..s, i - 1 \in T PROVE i \in T
    <3>1. i \in 1..n /\ q[i - 1] = p[i - 1]
      BY <2>5
    <3>2. QED
      BY <1>1, <2>1, <2>3, <3>1
  <2>6. s \in T
    <3> HIDE DEF T
    <3>1. \A i \in 0..s : i \in T
      BY <2>1, <2>4, <2>5, Climb
    <3>2. QED
      BY <2>1, <3>1
  <2>7. QED
    BY <2>2, <2>3, <2>6
<1>3. sums = [s \in 1..n |-> p[s]]
  <2>1. DOMAIN w = 1..n
    OBVIOUS
  <2>2. CumulativeWeights(w) = [s \in 1..n |-> Total(SubSeq(w, 1, s))]
    BY <2>1, Zenon DEF CumulativeWeights
  <2>3. QED
    BY <1>2, <2>2
<1>4. \A s \in 1..n : p[s] \in Int /\ p[s - 1] \in Int
  OBVIOUS
<1>5. ASSUME NEW j \in 1..n PROVE w[j] = p[j] - (IF j = 1 THEN 0 ELSE p[j - 1])
  <2>1. PICK x \in Int, y \in Int, z \in Int : x = p[j] /\ y = p[j - 1] /\ z = w[j]
    BY <1>4
  <2>2. x = y + z
    BY <1>1, <2>1
  <2>3. j = 1 => y = 0
    BY <1>1, <2>1
  <2>4. QED
    BY <2>1, <2>2, <2>3
<1>6. \A j \in 1..n : j # 1 => j - 1 \in 1..n
  OBVIOUS
<1>7. \A j \in 1..n : sums[j] = p[j] /\ (j # 1 => sums[j - 1] = p[j - 1])
  BY <1>3, <1>6
<1> HIDE DEF sums
<1>8. sums \in [1..n -> Int]
  BY <1>3, <1>4
<1>9. QED
  BY <1>5, <1>7, <1>8 DEF sums

\* There is a sample.
LEMMA SamplesAreNumbers ==
  NrSamples \in Nat \ {0} /\ Samples = 1..NrSamples /\ Samples # {} /\ 1 \in Samples
BY NrAssumption DEF Samples

\* A positive number that is divided without rest is worth one at least.
LEMMA Quotients ==
  \A a \in Nat, b \in Nat \ {0} :
    /\ a \div b \in Nat /\ (a = 0 => a \div b = 0)
    /\ a % b = 0 /\ a > 0 => a \div b >= 1
<1> SUFFICES ASSUME NEW a \in Nat, NEW b \in Nat \ {0}
             PROVE  /\ a \div b \in Nat /\ (a = 0 => a \div b = 0)
                    /\ a % b = 0 /\ a > 0 => a \div b >= 1
  OBVIOUS
<1>1. a \div b \in Nat
  OBVIOUS
<1>2. a = 0 => a \div b = 0
  OBVIOUS
<1>3. a % b = 0 /\ a > 0 => a \div b >= 1
  OBVIOUS
<1>4. QED
  BY <1>1, <1>2, <1>3

\* A product is zero where a factor is.
LEMMA Products ==
  \A a \in Nat \ {0}, b \in Nat : a * b \in Nat /\ (b = 0 <=> a * b = 0)
OBVIOUS

\* Normalised weights are never all zero, and no sample gets one that had none,
\* unless none had.
LEMMA NormalisedMeaning ==
  \A w \in [Samples -> Nat] :
    /\ NormaliseWeights(w) \in [Samples -> Nat]
    /\ Total(NormaliseWeights(w)) \in Nat \ {0}
    /\ \A s \in Samples : NormaliseWeights(w)[s] > 0 => w[s] > 0 \/ \A r \in Samples : w[r] = 0
<1> SUFFICES ASSUME NEW w \in [Samples -> Nat]
             PROVE  /\ NormaliseWeights(w) \in [Samples -> Nat]
                    /\ Total(NormaliseWeights(w)) \in Nat \ {0}
                    /\ \A s \in Samples :
                         NormaliseWeights(w)[s] > 0 => w[s] > 0 \/ \A r \in Samples : w[r] = 0
  OBVIOUS
<1>1. Total(w) \in Nat /\ \A s \in Samples : w[s] <= Total(w)
  BY SamplesAreNumbers, TotalBounds
<1>2. CASE Total(w) = 0
  <2> DEFINE e == [s \in Samples |-> 1]
  <2>1. DOMAIN w = Samples /\ e \in [Samples -> Nat]
    OBVIOUS
  <2>2. NormaliseWeights(w) = e
    BY <1>2, <2>1, Zenon DEF NormaliseWeights
  <2>3. Total(e) \in Nat /\ e[1] <= Total(e) /\ e[1] = 1
    <3>1. e[1] = 1
      BY SamplesAreNumbers
    <3> HIDE DEF e
    <3>2. QED
      BY <2>1, <3>1, SamplesAreNumbers, TotalBounds
  <2>4. \A r \in Samples : w[r] = 0
    BY <1>1, <1>2
  <2> HIDE DEF e
  <2>5. QED
    BY <2>1, <2>2, <2>3, <2>4
<1>3. CASE Total(w) # 0
  <2>1. NormaliseWeights(w) = w
    BY <1>3, Zenon DEF NormaliseWeights
  <2>2. QED
    BY <1>1, <1>3, <2>1
<1>4. QED
  BY <1>2, <1>3

\* The whole copies of a sample are worth its weight, but for one copy.
LEMMA FloorsMeaning ==
  \A w \in [Samples -> Nat] : Total(w) \in Nat \ {0} =>
    \A k \in Floors(w) :
      /\ k \in [Samples -> Nat]
      /\ \A s \in Samples :
           /\ Floor(w, s) \in Nat
           /\ k[s] >= Floor(w, s) - (IF IsWhole(w, s) THEN 1 ELSE 0)
           /\ k[s] > 0 => w[s] > 0
      /\ ResidualWeights(w, k) \in [Samples -> Int]
      /\ \A s \in Samples : ResidualWeights(w, k)[s] > 0 => w[s] > 0
<1> SUFFICES ASSUME NEW w \in [Samples -> Nat], Total(w) \in Nat \ {0}, NEW k \in Floors(w)
             PROVE  /\ k \in [Samples -> Nat]
                    /\ \A s \in Samples :
                         /\ Floor(w, s) \in Nat
                         /\ k[s] >= Floor(w, s) - (IF IsWhole(w, s) THEN 1 ELSE 0)
                         /\ k[s] > 0 => w[s] > 0
                    /\ ResidualWeights(w, k) \in [Samples -> Int]
                    /\ \A s \in Samples : ResidualWeights(w, k)[s] > 0 => w[s] > 0
  OBVIOUS
<1>1. DOMAIN w = Samples /\ Len(w) = NrSamples
  BY SamplesAreNumbers
<1>2. PICK low \in SUBSET {s \in Samples : IsWhole(w, s)} :
        k = [s \in Samples |-> IF s \in low THEN Floor(w, s) - 1 ELSE Floor(w, s)]
  BY <1>1, Zenon DEF Floors
<1>3. \A s \in Samples :
        /\ Floor(w, s) \in Nat /\ (w[s] = 0 => Floor(w, s) = 0)
        /\ IsWhole(w, s) => Floor(w, s) >= 1 /\ w[s] > 0
        /\ Len(w) * w[s] \in Nat /\ (w[s] = 0 => Len(w) * w[s] = 0)
  <2> SUFFICES ASSUME NEW s \in Samples
               PROVE  /\ Floor(w, s) \in Nat /\ (w[s] = 0 => Floor(w, s) = 0)
                      /\ IsWhole(w, s) => Floor(w, s) >= 1 /\ w[s] > 0
                      /\ Len(w) * w[s] \in Nat /\ (w[s] = 0 => Len(w) * w[s] = 0)
    OBVIOUS
  <2>1. w[s] \in Nat /\ Len(w) \in Nat \ {0}
    BY <1>1, SamplesAreNumbers
  <2>2. PICK a : a = Len(w) * w[s]
    OBVIOUS
  <2>3. a \in Nat /\ (w[s] = 0 <=> a = 0)
    BY <2>1, <2>2, Products
  <2>4. PICK b \in Nat \ {0} : b = Total(w)
    OBVIOUS
  <2>5. Floor(w, s) = a \div b /\ (IsWhole(w, s) <=> a % b = 0 /\ w[s] > 0)
    BY <2>2, <2>4, Zenon DEF Floor, IsWhole
  <2>6. /\ a \div b \in Nat /\ (a = 0 => a \div b = 0)
        /\ a % b = 0 /\ a > 0 => a \div b >= 1
    BY <2>3, Quotients
  <2>7. w[s] > 0 => a > 0
    BY <2>1, <2>3
  <2>8. QED
    BY <2>2, <2>3, <2>5, <2>6, <2>7
<1>4. \A s \in Samples :
        /\ k[s] \in Nat /\ (w[s] = 0 => k[s] = 0)
        /\ k[s] >= Floor(w, s) - (IF IsWhole(w, s) THEN 1 ELSE 0)
  <2> SUFFICES ASSUME NEW s \in Samples
               PROVE  /\ k[s] \in Nat /\ (w[s] = 0 => k[s] = 0)
                      /\ k[s] >= Floor(w, s) - (IF IsWhole(w, s) THEN 1 ELSE 0)
    OBVIOUS
  <2>1. k[s] = IF s \in low THEN Floor(w, s) - 1 ELSE Floor(w, s)
    BY <1>2
  <2>2. PICK f \in Nat : f = Floor(w, s)
    BY <1>3
  <2>3. CASE s \in low
    <3>1. IsWhole(w, s) /\ k[s] = f - 1
      BY <1>2, <2>1, <2>2, <2>3
    <3>2. f >= 1 /\ w[s] > 0
      BY <1>3, <2>2, <3>1
    <3>3. QED
      BY <2>2, <3>1, <3>2
  <2>4. CASE s \notin low
    <3>1. k[s] = f
      BY <2>1, <2>2, <2>4
    <3>2. f >= f - (IF IsWhole(w, s) THEN 1 ELSE 0)
      OBVIOUS
    <3>3. QED
      BY <1>3, <2>2, <3>1, <3>2
  <2>5. QED
    BY <2>3, <2>4
<1>5. k \in [Samples -> Nat]
  BY <1>2, <1>4
<1>6. ResidualWeights(w, k) = [s \in Samples |-> Len(w) * w[s] - k[s] * Total(w)]
  BY <1>1, Zenon DEF ResidualWeights
<1>7. ASSUME NEW s \in Samples
      PROVE  /\ ResidualWeights(w, k)[s] \in Int
             /\ ResidualWeights(w, k)[s] > 0 => w[s] > 0
  <2>1. PICK a \in Nat : a = Len(w) * w[s] /\ (w[s] = 0 => a = 0)
    BY <1>3
  <2>2. PICK b \in Nat : b = k[s] * Total(w) /\ (w[s] = 0 => b = 0)
    <3>1. k[s] \in Nat /\ Total(w) \in Nat
      BY <1>4
    <3>2. k[s] * Total(w) \in Nat /\ (k[s] = 0 => k[s] * Total(w) = 0)
      BY <3>1
    <3>3. QED
      BY <1>4, <3>2
  <2>3. ResidualWeights(w, k)[s] = a - b
    BY <1>6, <2>1, <2>2
  <2>4. w[s] \in Nat
    OBVIOUS
  <2>5. QED
    BY <2>1, <2>2, <2>3, <2>4
<1>8. QED
  BY <1>3, <1>4, <1>5, <1>6, <1>7

Stages == {"samples", "weights", "resample", "draw", "clone"}

TypeOK ==
  /\ filterSteps \in Seq(1..NrTimeSteps) /\ filterSteps # <<>>
  /\ scheme \in Schemes /\ forked \in Forking /\ failing \in Failing
  /\ suspendBy \in SuspendBy /\ resumeBy \in ResumeBy
  /\ pc \in Stages \cup {"premc", "period", "postmc", "done", "aborted"}
  /\ period \in 0..LastPeriod
  /\ first \in 1..NrTimeSteps /\ last \in 1..NrTimeSteps
  /\ ended \in SUBSET Samples
  /\ weights \in [Samples -> Nat]
  /\ cdf \in [Samples -> Int] \cup {<<>>}
  /\ todo \in Int
  /\ clones \in [Samples -> Nat] \cup {<<>>}
  /\ report \in [Samples -> [Times -> Seq(Samples) \cup {None}]]
  /\ state \in [Samples -> [Times -> Seq(Samples) \cup {None}]]
  /\ track \in [(0..LastPeriod) \X Samples -> SUBSET ((1..LastPeriod) \X Samples)]

\* The periods that were entered end at increasing filter time steps.
Entered == IF pc \in Stages /\ period < LastPeriod THEN period + 1 ELSE period

InPeriod ==
  /\ pc = "premc" => period = 0
  /\ pc \in Stages => first = StartOfPeriod /\ last = EndOfPeriod /\ first <= last
  /\ pc \in Stages \ {"samples"} => period < LastPeriod /\ ended = Samples
  /\ pc \in {"postmc", "done"} => period = LastPeriod
  /\ pc = "period" /\ period > 0 => last = filterSteps[period]
  /\ \A j, k \in 1..Entered : j < k => filterSteps[j] < filterSteps[k]

\* The copies that are chosen are as many as the samples before they are made.
Choosing ==
  /\ pc = "draw" => cdf \in [Samples -> Int]
  /\ pc \in {"draw", "clone"} => clones \in [Samples -> Nat]
  /\ pc = "clone" => Total(clones) = NrSamples

\* Each sample reported at the filter time steps at which it was weighed.
Weighings == IF pc \in {"resample", "draw", "clone"} THEN period + 1 ELSE period

Weighed ==
  \A s \in Samples, k \in 1..Weighings : report[s][filterSteps[k]] # None

\* While copies are drawn, none is taken back.
Kept ==
  pc \in {"draw", "clone"} /\ scheme = "RR" =>
    \A s \in Samples :
      /\ Floor(NormaliseWeights(weights), s) \in Nat
      /\ clones[s] >= Floor(NormaliseWeights(weights), s)
                        - (IF IsWhole(NormaliseWeights(weights), s) THEN 1 ELSE 0)

Control == TypeOK /\ InPeriod /\ Choosing
Inv == Control /\ NoGaps /\ Weighed /\ Kept

-------------------------------------------------------------------------------
(* What a step makes of the files *)

\* The time step in the name of each file.
LEMMA Names ==
  \A t, u : /\ ReportName("dynamic", t) = t /\ ReportName("updateWeight", t) = t
            /\ ReportName("suspend", t) = NoName /\ ReadName("resume", u, t) = t - 1
            /\ ReportStateName(t) = t /\ ReadStateName(t) = t - 1
BY Zenon DEF ReportName, ReadName, NoName, ReportStateName, ReadStateName

\* A sample changes its own files only: what it reports from the first time step
\* of the period, and the state of the last.
RunOf(s, upto, suspended) ==
  /\ \A r \in Samples, t \in Times :
       report'[r][t] = IF r = s /\ Resumed(s) # None /\ t \in first..upto
                       THEN History(s, t) ELSE report[r][t]
  /\ \A r \in Samples, t \in Times :
       state'[r][t] = IF suspended /\ r = s /\ t = last
                      THEN History(s, last) ELSE state[r][t]
  /\ report' = [r \in Samples |-> [t \in Times |-> report'[r][t]]]
  /\ state' = [r \in Samples |-> [t \in Times |-> state'[r][t]]]

\* The places of joined histories.
LEMMA Joined ==
  \A a, b \in Seq(Samples) :
    /\ a \o b \in Seq(Samples) /\ Len(a \o b) = Len(a) + Len(b)
    /\ \A i \in 1..(Len(a) + Len(b)) :
         (a \o b)[i] = IF i <= Len(a) THEN a[i] ELSE b[i - Len(a)]
BY ConcatProperties

\* What the two EXCEPTs of a run are, file by file.
LEMMA RunMeaning ==
  ASSUME TypeOK, NEW s \in Samples, NEW upto, NEW suspended \in BOOLEAN,
         Runs(s, upto, suspended)
  PROVE  RunOf(s, upto, suspended)
<1>1. \A r \in Samples, t \in Times :
        report'[r][t] = IF r = s /\ Resumed(s) # None /\ t \in first..upto
                        THEN History(s, t) ELSE report[r][t]
  <2>1. report' =
          [report EXCEPT ![s] =
             [t \in Times |-> IF Resumed(s) # None /\ t \in first..upto
                              THEN History(s, t) ELSE report[s][t]]]
    <3>1. \A t : ReportName("dynamic", t) = t
      BY Names
    <3>2. QED
      BY <3>1 DEF Runs
  <2>2. DOMAIN report = Samples
    BY DEF TypeOK
  <2>3. QED
    BY <2>1, <2>2
<1>2. \A r \in Samples, t \in Times :
        state'[r][t] = IF suspended /\ r = s /\ t = last
                       THEN History(s, last) ELSE state[r][t]
  <2>1. state' = IF suspended THEN [state EXCEPT ![s][last] = History(s, last)] ELSE state
    BY Names, Zenon DEF Runs, ReportStateName
  <2>2. DOMAIN state = Samples /\ \A r \in Samples : DOMAIN state[r] = Times
    BY DEF TypeOK
  <2>3. QED
    BY <2>1, <2>2
<1>3. report' = [r \in Samples |-> [t \in Times |-> report'[r][t]]]
  <2>1. /\ report = [r \in Samples |-> report[r]]
        /\ \A r \in Samples : report[r] = [t \in Times |-> report[r][t]]
    BY DEF TypeOK
  <2> DEFINE own == [t \in Times |-> IF Resumed(s) # None /\ t \in first..upto
                                    THEN History(s, ReportName("dynamic", t)) ELSE report[s][t]]
  <2>2. report' = [report EXCEPT ![s] = own]
    BY DEF Runs
  <2>3. own = [t \in Times |-> own[t]]
    OBVIOUS
  <2> HIDE DEF own
  <2>4. QED
    BY <2>1, <2>2, <2>3
<1>4. state' = [r \in Samples |-> [t \in Times |-> state'[r][t]]]
  <2>1. state' = IF suspended THEN [state EXCEPT ![s][last] = History(s, last)] ELSE state
    BY Names, Zenon DEF Runs, ReportStateName
  <2>2. /\ state = [r \in Samples |-> state[r]]
        /\ \A r \in Samples : state[r] = [t \in Times |-> state[r][t]]
    BY DEF TypeOK
  <2>3. QED
    BY <2>1, <2>2
<1>5. QED
  BY <1>1, <1>2, <1>3, <1>4 DEF RunOf

\* A sample resumes from the time step before the first.
LEMMA ResumedMeaning ==
  ASSUME TypeOK
  PROVE  \A s \in Samples :
           \/ first = 1 /\ Resumed(s) = <<>>
           \/ first > 1 /\ first - 1 \in Times
              /\ Resumed(s) \in {state[s][first - 1], report[s][first - 1]}
              /\ (resumeBy = "readState" => Resumed(s) = state[s][first - 1])
<1>1. first \in Nat /\ first >= 1 /\ (first > 1 => first - 1 \in Times)
  BY NrAssumption DEF TypeOK, Times
<1>2. \A t, u : ReadStateName(t) = t - 1 /\ ReadName("resume", u, t) = t - 1
  BY Names
<1>3. QED
  BY <1>1, <1>2 DEF Resumed

\* The history after time step t is what the sample resumed and itself since.
LEMMA HistoryMeaning ==
  ASSUME TypeOK, NoGaps, NEW s \in Samples, Resumed(s) # None
  PROVE  /\ Resumed(s) \in Seq(Samples) /\ Len(Resumed(s)) = first - 1
         /\ \A t \in Times : t >= first - 1 =>
              /\ History(s, t) \in Seq(Samples) /\ Len(History(s, t)) = t
              /\ \A u \in 1..t :
                   History(s, t)[u] = IF u < first THEN Resumed(s)[u] ELSE s
<1>1. Resumed(s) \in Seq(Samples) /\ Len(Resumed(s)) = first - 1
  <2>1. CASE first = 1 /\ Resumed(s) = <<>>
    BY <2>1
  <2>2. CASE first > 1 /\ first - 1 \in Times
             /\ Resumed(s) \in {state[s][first - 1], report[s][first - 1]}
    <3>1. /\ state[s][first - 1] \in Seq(Samples) \cup {None}
          /\ report[s][first - 1] \in Seq(Samples) \cup {None}
      BY <2>2 DEF TypeOK
    <3>2. /\ state[s][first - 1] # None => Len(state[s][first - 1]) = first - 1
          /\ report[s][first - 1] # None => Len(report[s][first - 1]) = first - 1
      BY <2>2 DEF NoGaps
    <3>3. QED
      BY <2>2, <3>1, <3>2
  <2>3. QED
    BY <2>1, <2>2, ResumedMeaning
<1>2. PICK q \in Seq(Samples) : q = Resumed(s) /\ Len(q) = first - 1
  BY <1>1
<1>3. ASSUME NEW t \in Times, t >= first - 1
      PROVE  /\ History(s, t) \in Seq(Samples) /\ Len(History(s, t)) = t
             /\ \A u \in 1..t : History(s, t)[u] = IF u < first THEN q[u] ELSE s
  <2>1. first \in Nat /\ first >= 1 /\ t \in Nat
    BY NrAssumption DEF TypeOK, Times
  <2>2. PICK m \in Nat : m = t + 1 - first
    BY <1>3, <2>1
  <2> DEFINE own == [k \in 1..m |-> s]
  <2>3. own \in Seq(Samples) /\ Len(own) = m /\ \A k \in 1..m : own[k] = s
    OBVIOUS
  <2>4. History(s, t) = q \o own
    BY <1>2, <2>2, Zenon DEF History
  <2> HIDE DEF own
  <2>5. /\ q \o own \in Seq(Samples) /\ Len(q \o own) = (first - 1) + m
        /\ \A i \in 1..((first - 1) + m) :
             (q \o own)[i] = IF i <= first - 1 THEN q[i] ELSE own[i - (first - 1)]
    <3>1. Len(q) + Len(own) = (first - 1) + m
      BY <1>2, <2>3
    <3>2. /\ q \o own \in Seq(Samples) /\ Len(q \o own) = Len(q) + Len(own)
          /\ \A i \in 1..(Len(q) + Len(own)) :
               (q \o own)[i] = IF i <= Len(q) THEN q[i] ELSE own[i - Len(q)]
      BY <2>3, Joined
    <3>3. QED
      BY <1>2, <3>1, <3>2, Zenon
  <2>6. (first - 1) + m = t
    BY <2>1, <2>2
  <2>7. ASSUME NEW u \in 1..t PROVE (q \o own)[u] = IF u < first THEN q[u] ELSE s
    <3>1. (q \o own)[u] = IF u <= first - 1 THEN q[u] ELSE own[u - (first - 1)]
      BY <2>5, <2>6
    <3>2. u < first <=> u <= first - 1
      BY <2>1
    <3>3. ~(u < first) => u - (first - 1) \in 1..m
      BY <2>1, <2>6
    <3>4. QED
      BY <2>3, <3>1, <3>2, <3>3
  <2>8. QED
    BY <2>4, <2>5, <2>6, <2>7
<1>4. QED
  BY <1>1, <1>2, <1>3

-------------------------------------------------------------------------------
(* Types and control *)

\* There are filter time steps, and they are time steps of the model.
LEMMA Steps ==
  TypeOK => /\ LastPeriod \in Nat \ {0}
            /\ \A k \in 1..LastPeriod : filterSteps[k] \in 1..NrTimeSteps
<1> SUFFICES ASSUME TypeOK
             PROVE  /\ LastPeriod \in Nat \ {0}
                    /\ \A k \in 1..LastPeriod : filterSteps[k] \in 1..NrTimeSteps
  OBVIOUS
<1>1. filterSteps \in Seq(1..NrTimeSteps) /\ filterSteps # <<>>
  BY DEF TypeOK
<1>2. Len(filterSteps) \in Nat \ {0}
  BY <1>1, EmptySeq, LenProperties
<1>3. \A k \in 1..Len(filterSteps) : filterSteps[k] \in 1..NrTimeSteps
  BY <1>1, ElementOfSeq
<1>4. QED
  BY <1>2, <1>3, Zenon DEF LastPeriod

\* Only the steps of a sample and the cloning change files.
LEMMA FilesStay ==
  [Next]_vars =>
    \/ UNCHANGED <<report, state, track>>
    \/ \E s \in Samples : RunSample(s)
    \/ CloneData
BY DEF Next, vars, RunPremcloop, StartPeriod, PeriodIsEmpty, EndPeriod, UpdateWeights,
       ResampleAll, ResampleResidual, Draw, AllDrawn, RunPostmcloop

\* No step changes how the run was set up.
LEMMA SetupStays == [Next]_vars => UNCHANGED setup
BY DEF Next, vars, RunPremcloop, StartPeriod, PeriodIsEmpty, EndPeriod, UpdateWeights,
       ResampleAll, ResampleResidual, Draw, AllDrawn, RunPostmcloop, RunSample, CloneData

\* A run starts in the invariant.
LEMMA InitInv == Init => Inv
<1> SUFFICES ASSUME Init PROVE Inv
  OBVIOUS
<1>1. filterSteps \in Seq(1..NrTimeSteps) /\ filterSteps # <<>>
  BY FilterAssumption DEF Init
<1>2. LastPeriod \in Nat \ {0}
  BY <1>1 DEF LastPeriod
<1>3. TypeOK
  <2>1. weights \in [Samples -> Nat]
    BY DEF Init, Equal
  <2>2. /\ report \in [Samples -> [Times -> Seq(Samples) \cup {None}]]
        /\ state \in [Samples -> [Times -> Seq(Samples) \cup {None}]]
    BY DEF Init, NoFiles
  <2>3. track \in [(0..LastPeriod) \X Samples -> SUBSET ((1..LastPeriod) \X Samples)]
    BY DEF Init
  <2>4. QED
    BY <1>1, <1>2, <2>1, <2>2, <2>3, NrAssumption DEF Init, TypeOK, setup
<1>4. InPeriod
  <2>1. Entered = 0
    BY DEF Init, Entered, Stages
  <2>2. QED
    BY <2>1 DEF Init, InPeriod, Stages
<1>5. Choosing
  BY DEF Init, Choosing
<1>6. NoGaps
  BY DEF Init, NoGaps, NoFiles
<1>7. Weighed
  BY DEF Init, Weighed, Weighings
<1>8. Kept
  BY DEF Init, Kept
<1>9. QED
  BY <1>3, <1>4, <1>5, <1>6, <1>7, <1>8 DEF Inv, Control

\* The copies that are sure, and what the others are drawn by: only a sample
\* with a weight can be drawn or copied.
LEMMA ResampleMeaning ==
  TypeOK /\ (ResampleAll \/ ResampleResidual) =>
    /\ cdf' \in [Samples -> Int] /\ clones' \in [Samples -> Nat] /\ todo' \in Int
    /\ \A s \in Samples :
         cdf'[s] > (IF s = 1 THEN 0 ELSE cdf'[s - 1]) => NormaliseWeights(weights)[s] > 0
    /\ \A s \in Samples : clones'[s] > 0 => NormaliseWeights(weights)[s] > 0
    /\ ResampleResidual =>
         \A s \in Samples :
           /\ Floor(NormaliseWeights(weights), s) \in Nat
           /\ clones'[s] >= Floor(NormaliseWeights(weights), s)
                              - (IF IsWhole(NormaliseWeights(weights), s) THEN 1 ELSE 0)
<1> SUFFICES ASSUME TypeOK, ResampleAll \/ ResampleResidual
             PROVE  /\ cdf' \in [Samples -> Int] /\ clones' \in [Samples -> Nat] /\ todo' \in Int
                    /\ \A s \in Samples :
                         cdf'[s] > (IF s = 1 THEN 0 ELSE cdf'[s - 1])
                           => NormaliseWeights(weights)[s] > 0
                    /\ \A s \in Samples : clones'[s] > 0 => NormaliseWeights(weights)[s] > 0
                    /\ ResampleResidual =>
                         \A s \in Samples :
                           /\ Floor(NormaliseWeights(weights), s) \in Nat
                           /\ clones'[s] >=
                                Floor(NormaliseWeights(weights), s)
                                  - (IF IsWhole(NormaliseWeights(weights), s) THEN 1 ELSE 0)
  OBVIOUS
<1>1. PICK w : w = NormaliseWeights(weights)
  OBVIOUS
<1>2. w \in [Samples -> Nat] /\ Total(w) \in Nat \ {0}
  BY <1>1, NormalisedMeaning DEF TypeOK
<1>3. ASSUME NEW v \in [Samples -> Int], cdf' = CumulativeWeights(v),
             \A s \in Samples : v[s] > 0 => w[s] > 0
      PROVE  /\ cdf' \in [Samples -> Int]
             /\ \A s \in Samples : cdf'[s] > (IF s = 1 THEN 0 ELSE cdf'[s - 1]) => w[s] > 0
  <2>1. /\ CumulativeWeights(v) \in [Samples -> Int]
        /\ \A s \in Samples :
             v[s] = CumulativeWeights(v)[s] - (IF s = 1 THEN 0 ELSE CumulativeWeights(v)[s - 1])
    BY SamplesAreNumbers, CumulativeMeaning
  <2>2. ASSUME NEW s \in Samples, cdf'[s] > (IF s = 1 THEN 0 ELSE cdf'[s - 1])
        PROVE  w[s] > 0
    <3>1. cdf'[s] \in Int
      BY <1>3, <2>1
    <3>2. (IF s = 1 THEN 0 ELSE cdf'[s - 1]) \in Int
      <4>1. s # 1 => s - 1 \in Samples
        BY SamplesAreNumbers
      <4>2. QED
        BY <1>3, <2>1, <4>1
    <3>3. v[s] = cdf'[s] - (IF s = 1 THEN 0 ELSE cdf'[s - 1])
      BY <1>3, <2>1
    <3>4. QED
      BY <1>3, <2>2, <3>1, <3>2, <3>3
  <2>3. QED
    BY <1>3, <2>1, <2>2
<1>4. CASE ResampleAll
  <2>1. w \in [Samples -> Int] /\ cdf' = CumulativeWeights(w)
    BY <1>1, <1>2, <1>4 DEF ResampleAll
  <2>2. clones' = [s \in Samples |-> 0] /\ todo' \in Int /\ ~ResampleResidual
    BY <1>4, SamplesAreNumbers DEF ResampleAll, ResampleResidual
  <2>3. QED
    BY <1>1, <1>3, <2>1, <2>2
<1>5. CASE ResampleResidual
  <2>1. PICK k \in Floors(w) :
          /\ clones' = k /\ todo' = NrSamples - Total(k)
          /\ cdf' = CumulativeWeights(ResidualWeights(w, k))
    BY <1>1, <1>5 DEF ResampleResidual
  <2>2. /\ k \in [Samples -> Nat]
        /\ \A s \in Samples :
             /\ Floor(w, s) \in Nat /\ (k[s] > 0 => w[s] > 0)
             /\ k[s] >= Floor(w, s) - (IF IsWhole(w, s) THEN 1 ELSE 0)
        /\ ResidualWeights(w, k) \in [Samples -> Int]
        /\ \A s \in Samples : ResidualWeights(w, k)[s] > 0 => w[s] > 0
    BY <1>2, FloorsMeaning
  <2>3. todo' \in Int
    BY <2>1, <2>2, SamplesAreNumbers, TotalBounds
  <2>4. /\ cdf' \in [Samples -> Int]
        /\ \A s \in Samples : cdf'[s] > (IF s = 1 THEN 0 ELSE cdf'[s - 1]) => w[s] > 0
    BY <1>3, <2>1, <2>2
  <2>5. QED
    BY <1>1, <2>1, <2>2, <2>3, <2>4
<1>6. QED
  BY <1>4, <1>5

\* Every step leaves the state well typed.
LEMMA TypeKept == Inv /\ [Next]_vars => TypeOK'
<1> SUFFICES ASSUME Inv, [Next]_vars PROVE TypeOK'
  OBVIOUS
<1>1. /\ filterSteps' \in Seq(1..NrTimeSteps) /\ filterSteps' # <<>>
      /\ scheme' \in Schemes /\ forked' \in Forking /\ failing' \in Failing
      /\ suspendBy' \in SuspendBy /\ resumeBy' \in ResumeBy
      /\ LastPeriod' = LastPeriod
  BY SetupStays DEF Inv, Control, TypeOK, setup, LastPeriod
<1>2. ASSUME UNCHANGED <<report, state, track>>
      PROVE  /\ report' \in [Samples -> [Times -> Seq(Samples) \cup {None}]]
             /\ state' \in [Samples -> [Times -> Seq(Samples) \cup {None}]]
             /\ track' \in [(0..LastPeriod') \X Samples -> SUBSET ((1..LastPeriod') \X Samples)]
  BY <1>1, <1>2 DEF Inv, Control, TypeOK
<1>3. CASE UNCHANGED vars
  BY <1>3 DEF vars, setup, Inv, Control, TypeOK, LastPeriod
<1>4. CASE RunPremcloop \/ PeriodIsEmpty \/ EndPeriod \/ AllDrawn \/ RunPostmcloop
  BY <1>1, <1>2, <1>4 DEF RunPremcloop, PeriodIsEmpty, EndPeriod, AllDrawn, RunPostmcloop,
                          Inv, Control, TypeOK, Stages
<1>5. CASE StartPeriod
  <2>1. StartOfPeriod \in Nat \ {0} /\ EndOfPeriod \in 1..NrTimeSteps
    <3>1. period \in 0..LastPeriod
      BY DEF Inv, Control, TypeOK
    <3>2. period # 0 => period \in 1..LastPeriod
      BY <3>1, Steps DEF Inv, Control
    <3>3. period # LastPeriod => period + 1 \in 1..LastPeriod
      BY <3>1, Steps DEF Inv, Control
    <3>4. QED
      BY <3>2, <3>3, Steps, NrAssumption DEF StartOfPeriod, EndOfPeriod, Inv, Control
  <2>2. StartOfPeriod <= EndOfPeriod /\ first' = StartOfPeriod /\ last' = EndOfPeriod
    BY <1>5 DEF StartPeriod
  <2>3. first' \in 1..NrTimeSteps /\ last' \in 1..NrTimeSteps
    BY <2>1, <2>2, NrAssumption
  <2>4. QED
    BY <1>1, <1>2, <1>5, <2>3 DEF StartPeriod, Inv, Control, TypeOK, Stages
<1>6. CASE UpdateWeights
  <2>1. weights' \in [Samples -> Nat]
    BY <1>6, WeightsAssumption DEF UpdateWeights, Inv, Control, TypeOK
  <2>2. QED
    BY <1>1, <1>2, <1>6, <2>1 DEF UpdateWeights, Inv, Control, TypeOK, Stages
<1>7. CASE ResampleAll \/ ResampleResidual
  <2>1. cdf' \in [Samples -> Int] /\ clones' \in [Samples -> Nat] /\ todo' \in Int
    BY <1>7, ResampleMeaning DEF Inv, Control
  <2>2. QED
    BY <1>1, <1>2, <1>7, <2>1 DEF ResampleAll, ResampleResidual, Inv, Control, TypeOK, Stages
<1>9. CASE Draw
  <2>1. clones \in [Samples -> Nat]
    BY <1>9 DEF Draw, Inv, Control, Choosing
  <2>2. clones' \in [Samples -> Nat]
    BY <1>9, <2>1 DEF Draw
  <2>3. todo' \in Int
    BY <1>9 DEF Draw, Inv, Control, TypeOK
  <2>4. QED
    BY <1>1, <1>2, <1>9, <2>2, <2>3 DEF Draw, Inv, Control, TypeOK, Stages
<1>10. CASE CloneData
  <2>1. \A s \in Samples : Source(clones, s) \in Samples
    BY <1>10, SourceMeaning DEF CloneData, Inv, Control, Choosing
  <2>2. state' \in [Samples -> [Times -> Seq(Samples) \cup {None}]]
    BY <1>10, <2>1 DEF CloneData, Inv, Control, TypeOK
  <2>3. period < LastPeriod /\ LastPeriod \in Nat /\ period \in 0..LastPeriod
    BY <1>10, Steps DEF CloneData, Inv, Control, InPeriod, Stages, TypeOK
  <2>4. period' \in 0..LastPeriod
    BY <1>10, <2>3 DEF CloneData
  <2>5. track' \in [(0..LastPeriod) \X Samples -> SUBSET ((1..LastPeriod) \X Samples)]
    <3>1. \A s \in Samples : Tracked(s) \in SUBSET ((1..LastPeriod) \X Samples)
      BY <2>3 DEF Tracked
    <3>2. \A n \in (0..LastPeriod) \X Samples : n[2] \in Samples
      OBVIOUS
    <3>3. DOMAIN track = (0..LastPeriod) \X Samples
      BY DEF Inv, Control, TypeOK
    <3>4. \A n \in (0..LastPeriod) \X Samples :
            track[n] \in SUBSET ((1..LastPeriod) \X Samples)
      BY DEF Inv, Control, TypeOK
    <3>5. track' = [n \in (0..LastPeriod) \X Samples |->
                      IF n[1] = period THEN Tracked(n[2]) ELSE track[n]]
      BY <1>10, <3>3, Zenon DEF CloneData
    <3>6. QED
      BY <3>1, <3>2, <3>4, <3>5
  <2>6. weights' \in [Samples -> Nat]
    BY <1>10 DEF CloneData, Equal
  <2>7. QED
    BY <1>1, <1>10, <2>2, <2>4, <2>5, <2>6 DEF CloneData, Inv, Control, TypeOK, Stages
<1>11. ASSUME NEW s \in Samples, RunSample(s) PROVE TypeOK'
  <2>1. PICK upto \in IF failing THEN (first - 1)..last ELSE {last}, suspended \in BOOLEAN :
          /\ suspended => Complete(s, upto)
          /\ Runs(s, upto, suspended)
    BY <1>11 DEF RunSample
  <2>2. Resumed(s) # None => \A t \in Times : t >= first - 1 => History(s, t) \in Seq(Samples)
    BY HistoryMeaning DEF Inv, Control
  <2>3. RunOf(s, upto, suspended)
    BY <2>1, RunMeaning DEF Inv, Control
  <2>4. \A r \in Samples, t \in Times : report[r][t] \in Seq(Samples) \cup {None}
                                        /\ state[r][t] \in Seq(Samples) \cup {None}
    BY DEF Inv, Control, TypeOK
  <2>5. first \in Nat /\ last \in Times /\ last >= first - 1
    BY <1>11, NrAssumption DEF RunSample, Inv, Control, TypeOK, InPeriod, Stages, Times
  <2>6. \A r \in Samples, t \in Times : report'[r][t] \in Seq(Samples) \cup {None}
    <3> SUFFICES ASSUME NEW r \in Samples, NEW t \in Times
                 PROVE  report'[r][t] \in Seq(Samples) \cup {None}
      OBVIOUS
    <3>1. t \in first..upto => t >= first - 1
      BY <2>5 DEF Times
    <3>2. QED
      BY <2>2, <2>3, <2>4, <3>1 DEF RunOf
  <2>7. \A r \in Samples, t \in Times : state'[r][t] \in Seq(Samples) \cup {None}
    <3>1. suspended => History(s, last) \in Seq(Samples)
      BY <2>1, <2>2, <2>5 DEF Complete
    <3>2. QED
      BY <2>3, <2>4, <3>1 DEF RunOf
  <2>8. /\ report' = [r \in Samples |-> [t \in Times |-> report'[r][t]]]
        /\ state' = [r \in Samples |-> [t \in Times |-> state'[r][t]]]
    BY <2>3 DEF RunOf
  <2>9. /\ report' \in [Samples -> [Times -> Seq(Samples) \cup {None}]]
        /\ state' \in [Samples -> [Times -> Seq(Samples) \cup {None}]]
    BY <2>6, <2>7, <2>8
  <2>10. QED
    BY <1>1, <1>11, <2>9 DEF RunSample, Inv, Control, TypeOK, Stages
<1>12. QED
  BY <1>3, <1>4, <1>5, <1>6, <1>7, <1>9, <1>10, <1>11 DEF Next

\* The filter time steps before the period are before its first time step.
LEMMA Before ==
  TypeOK /\ InPeriod /\ pc \in Stages \cup {"period"} =>
    /\ \A k \in 1..period : filterSteps[k] < StartOfPeriod
    /\ period < LastPeriod => EndOfPeriod = filterSteps[period + 1]
    /\ period = LastPeriod => EndOfPeriod = NrTimeSteps
<1> SUFFICES ASSUME TypeOK, InPeriod
             PROVE  /\ \A k \in 1..period : filterSteps[k] < StartOfPeriod
                    /\ period < LastPeriod => EndOfPeriod = filterSteps[period + 1]
                    /\ period = LastPeriod => EndOfPeriod = NrTimeSteps
  OBVIOUS
<1>1. period \in 0..LastPeriod /\ LastPeriod \in Nat
  BY Steps DEF TypeOK
<1>2. Entered \in {period, period + 1}
  BY DEF Entered
<1>3. ASSUME NEW k \in 1..period PROVE filterSteps[k] < StartOfPeriod
  <2>1. k \in 1..LastPeriod /\ period \in 1..LastPeriod /\ k \in 1..Entered /\ period \in 1..Entered
    BY <1>1, <1>2
  <2>2. filterSteps[k] \in Nat /\ filterSteps[period] \in Nat
    BY <2>1, Steps
  <2>3. k < period => filterSteps[k] < filterSteps[period]
    BY <2>1 DEF InPeriod
  <2>4. filterSteps[k] <= filterSteps[period]
    <3>1. k = period \/ k < period
      BY <1>1
    <3>2. QED
      BY <2>2, <2>3, <3>1
  <2>5. StartOfPeriod = filterSteps[period] + 1
    BY <2>1 DEF StartOfPeriod
  <2>6. QED
    BY <2>2, <2>4, <2>5
<1>4. QED
  BY <1>1, <1>3 DEF EndOfPeriod

\* A step within a period changes the stage only, or ends a sample.
StageChanges ==
  /\ UNCHANGED <<period, first, last>>
  /\ \/ pc' = pc /\ ended' = ended
     \/ pc = "premc" /\ pc' = "period"
     \/ pc' = "aborted"
     \/ pc = "samples" /\ pc' = "samples"
     \/ /\ pc = "samples" /\ ended = Samples /\ ended' = ended
        /\ pc' = IF period = LastPeriod THEN "postmc" ELSE "weights"
     \/ pc \in Stages \ {"samples"} /\ pc' \in Stages \ {"samples"} /\ ended' = ended
     \/ pc = "postmc" /\ pc' = "done"

\* Every step leaves the time steps of the period as _startEndOfPeriod set them.
LEMMA InPeriodKept == Inv /\ [Next]_vars => InPeriod'
<1> SUFFICES ASSUME Inv, [Next]_vars PROVE InPeriod'
  OBVIOUS
<1> USE DEF Inv, Control
<1>1. filterSteps' = filterSteps /\ LastPeriod' = LastPeriod
  BY SetupStays DEF setup, LastPeriod
<1>2. period \in 0..LastPeriod /\ LastPeriod \in Nat \ {0}
  BY Steps DEF TypeOK
<1>3. CASE StageChanges
  <2>1. StartOfPeriod' = StartOfPeriod /\ EndOfPeriod' = EndOfPeriod
    BY <1>1, <1>3 DEF StageChanges, StartOfPeriod, EndOfPeriod
  <2>2. Entered' \in {Entered, period}
    BY <1>1, <1>3 DEF StageChanges, Entered, Stages
  <2>3. 1..Entered' \subseteq 1..Entered
    BY <1>2, <2>2 DEF Entered
  <2>4. \A j, k \in 1..Entered' : j < k => filterSteps'[j] < filterSteps'[k]
    BY <1>1, <2>3 DEF InPeriod
  <2>5. /\ pc' = "premc" => period' = 0
        /\ pc' \in Stages => first' = StartOfPeriod' /\ last' = EndOfPeriod' /\ first' <= last'
    BY <1>3, <2>1 DEF StageChanges, InPeriod, Stages
  <2>6. /\ pc' \in Stages \ {"samples"} => period' < LastPeriod' /\ ended' = Samples
        /\ pc' \in {"postmc", "done"} => period' = LastPeriod'
        /\ pc' = "period" /\ period' > 0 => last' = filterSteps'[period']
    BY <1>1, <1>2, <1>3 DEF StageChanges, InPeriod, Stages
  <2>7. QED
    BY <2>4, <2>5, <2>6 DEF InPeriod
<1>4. CASE StartPeriod
  <2>1. /\ pc = "period" /\ pc' = "samples" /\ period' = period /\ StartOfPeriod <= EndOfPeriod
        /\ first' = StartOfPeriod /\ last' = EndOfPeriod
    BY <1>4 DEF StartPeriod
  <2>2. StartOfPeriod' = StartOfPeriod /\ EndOfPeriod' = EndOfPeriod
    BY <1>1, <2>1 DEF StartOfPeriod, EndOfPeriod
  <2>3. Entered = period /\ Entered' = IF period < LastPeriod THEN period + 1 ELSE period
    BY <1>1, <2>1 DEF Entered, Stages
  <2>4. ASSUME NEW j \in 1..Entered', NEW k \in 1..Entered', j < k
        PROVE  filterSteps[j] < filterSteps[k]
    <3>1. CASE k \in 1..period
      <4>1. j \in 1..period
        BY <1>2, <2>4, <3>1
      <4>2. QED
        BY <2>3, <2>4, <3>1, <4>1 DEF InPeriod
    <3>2. CASE k \notin 1..period
      <4>1. k = period + 1 /\ j \in 1..period /\ period < LastPeriod
        BY <1>2, <2>3, <2>4, <3>2
      <4>2. filterSteps[j] < StartOfPeriod /\ EndOfPeriod = filterSteps[k]
        BY <2>1, <4>1, Before
      <4>3. j \in 1..LastPeriod /\ k \in 1..LastPeriod /\ period \in 1..LastPeriod
        BY <1>2, <4>1
      <4>4. filterSteps[j] \in Nat /\ filterSteps[k] \in Nat /\ StartOfPeriod \in Nat
        BY <4>3, Steps DEF StartOfPeriod
      <4>5. QED
        BY <2>1, <4>2, <4>4
    <3>3. QED
      BY <3>1, <3>2
  <2>5. QED
    BY <1>1, <2>1, <2>2, <2>4 DEF InPeriod, Stages
<1>5. CASE CloneData
  <2>1. /\ pc = "clone" /\ pc' = "period" /\ period' = period + 1 /\ last' = last
        /\ period < LastPeriod /\ last = EndOfPeriod
    BY <1>5 DEF CloneData, InPeriod, Stages
  <2>2. last = filterSteps[period + 1]
    BY <2>1, Before DEF Stages
  <2>3. Entered = period + 1 /\ Entered' = period + 1
    BY <1>1, <2>1 DEF Entered, Stages
  <2>4. QED
    BY <1>1, <1>2, <2>1, <2>2, <2>3 DEF InPeriod, Stages
<1>6. CASE UNCHANGED vars
  <2>1. StageChanges
    BY <1>6 DEF vars, StageChanges
  <2>2. QED
    BY <1>3, <2>1
<1>7. CASE RunPremcloop \/ PeriodIsEmpty \/ EndPeriod \/ RunPostmcloop
  <2>1. StageChanges
    BY <1>7 DEF RunPremcloop, PeriodIsEmpty, EndPeriod, RunPostmcloop, StageChanges
  <2>2. QED
    BY <1>3, <2>1
<1>8. CASE UpdateWeights \/ ResampleAll \/ ResampleResidual \/ Draw \/ AllDrawn
  <2>1. StageChanges
    BY <1>8 DEF UpdateWeights, ResampleAll, ResampleResidual, Draw, AllDrawn, Stages, StageChanges
  <2>2. QED
    BY <1>3, <2>1
<1>9. CASE \E s \in Samples : RunSample(s)
  <2>1. StageChanges
    BY <1>9 DEF RunSample, StageChanges
  <2>2. QED
    BY <1>3, <2>1
<1>10. QED
  BY <1>4, <1>5, <1>6, <1>7, <1>8, <1>9 DEF Next

\* Every step leaves the number of copies right.
LEMMA ChoosingKept == Inv /\ [Next]_vars => Choosing'
<1> SUFFICES ASSUME Inv, [Next]_vars PROVE Choosing'
  OBVIOUS
<1> USE DEF Inv, Control
<1>1. CASE ResampleAll \/ ResampleResidual
  <2>1. pc' = "draw" /\ cdf' \in [Samples -> Int] /\ clones' \in [Samples -> Nat]
    BY <1>1, ResampleMeaning DEF ResampleAll, ResampleResidual
  <2>2. QED
    BY <2>1 DEF Choosing
<1>2. CASE Draw
  <2>1. pc = "draw" /\ pc' = "draw" /\ clones \in [Samples -> Nat] /\ cdf' \in [Samples -> Int]
    BY <1>2 DEF Draw, Choosing
  <2>2. clones' \in [Samples -> Nat]
    BY <1>2, <2>1 DEF Draw
  <2>3. QED
    BY <2>1, <2>2 DEF Choosing
<1>3. CASE AllDrawn
  BY <1>3 DEF AllDrawn, Choosing
<1>4. CASE pc' \notin {"draw", "clone"}
  BY <1>4 DEF Choosing
<1>5. CASE UNCHANGED <<pc, cdf, clones>>
  BY <1>5 DEF Choosing
<1>6. ASSUME NEW s \in Samples, RunSample(s) PROVE pc' \notin {"draw", "clone"}
  BY <1>6 DEF RunSample
<1>7. QED
  BY <1>1, <1>2, <1>3, <1>4, <1>5, <1>6
     DEF Next, vars, RunPremcloop, StartPeriod, PeriodIsEmpty, EndPeriod, UpdateWeights,
         RunPostmcloop, CloneData

-------------------------------------------------------------------------------
(* Files *)

\* Every step leaves files without gaps.
LEMMA NoGapsKept == Inv /\ [Next]_vars => NoGaps'
<1> SUFFICES ASSUME Inv, [Next]_vars PROVE NoGaps'
  OBVIOUS
<1> USE DEF Inv, Control
<1>1. CASE UNCHANGED <<report, state, track>>
  BY <1>1 DEF NoGaps
<1>2. CASE CloneData
  <2>1. \A s \in Samples : Source(clones, s) \in Samples /\ state'[s] = state[Source(clones, s)]
    BY <1>2, SourceMeaning DEF CloneData, Choosing
  <2>2. report' = report
    BY <1>2 DEF CloneData
  <2>3. QED
    BY <2>1, <2>2 DEF NoGaps
<1>3. ASSUME NEW s \in Samples, RunSample(s) PROVE NoGaps'
  <2>1. PICK upto \in IF failing THEN (first - 1)..last ELSE {last}, suspended \in BOOLEAN :
          /\ suspended => Complete(s, upto)
          /\ Runs(s, upto, suspended)
    BY <1>3 DEF RunSample
  <2>2. RunOf(s, upto, suspended)
    BY <2>1, RunMeaning
  <2>3. Resumed(s) # None => \A t \in Times : t >= first - 1 => Len(History(s, t)) = t
    BY HistoryMeaning
  <2>4. first \in Nat /\ last \in Times /\ last >= first - 1
    BY <1>3, NrAssumption DEF RunSample, TypeOK, InPeriod, Stages, Times
  <2>5. ASSUME NEW r \in Samples, NEW t \in Times
        PROVE  /\ report'[r][t] # None => Len(report'[r][t]) = t
               /\ state'[r][t] # None => Len(state'[r][t]) = t
    <3>1. t \in first..upto => t >= first - 1
      BY <2>4 DEF Times
    <3>2. suspended => Resumed(s) # None
      BY <2>1 DEF Complete
    <3>3. /\ report[r][t] # None => Len(report[r][t]) = t
          /\ state[r][t] # None => Len(state[r][t]) = t
      BY DEF NoGaps
    <3>4. QED
      BY <2>2, <2>3, <2>4, <3>1, <3>2, <3>3 DEF RunOf
  <2>6. QED
    BY <2>5 DEF NoGaps
<1>4. QED
  BY <1>1, <1>2, <1>3, FilesStay

\* A sample reports in the time steps of its period, after those at which it was
\* weighed.
LEMMA ReportsStay ==
  ASSUME Inv, NEW s \in Samples, RunSample(s)
  PROVE  \A r \in Samples, k \in 1..period :
           report'[r][filterSteps[k]] = report[r][filterSteps[k]]
<1> USE DEF Inv, Control
<1>1. PICK upto \in IF failing THEN (first - 1)..last ELSE {last}, suspended \in BOOLEAN :
        Runs(s, upto, suspended)
  BY DEF RunSample
<1>2. RunOf(s, upto, suspended)
  BY <1>1, RunMeaning
<1>3. pc \in Stages /\ first = StartOfPeriod /\ first \in Nat
  BY DEF RunSample, Stages, InPeriod, TypeOK
<1> SUFFICES ASSUME NEW r \in Samples, NEW k \in 1..period
             PROVE  report'[r][filterSteps[k]] = report[r][filterSteps[k]]
  OBVIOUS
<1>4. k \in 1..LastPeriod
  BY Steps DEF TypeOK
<1>5. filterSteps[k] \in Times /\ filterSteps[k] \in Nat
  BY <1>4, Steps, NrAssumption DEF Times
<1>6. filterSteps[k] < first
  BY <1>3, Before
<1>7. filterSteps[k] \notin first..upto
  BY <1>3, <1>5, <1>6
<1>8. QED
  BY <1>2, <1>5, <1>7 DEF RunOf

\* A sample that was weighed keeps what it reported then.
LEMMA WeighedKept == Inv /\ [Next]_vars => Weighed'
<1> SUFFICES ASSUME Inv, [Next]_vars PROVE Weighed'
  OBVIOUS
<1> USE DEF Inv, Control
<1>1. filterSteps' = filterSteps
  BY SetupStays DEF setup
<1>2. period \in 0..LastPeriod /\ LastPeriod \in Nat
  BY Steps DEF TypeOK
<1>3. CASE report' = report /\ 1..Weighings' \subseteq 1..Weighings
  BY <1>1, <1>3 DEF Weighed
<1>4. CASE UpdateWeights
  <2>1. CASE \A s \in Samples : Reported(s)
    <3>1. pc = "weights" /\ pc' = "resample" /\ period' = period /\ report' = report
      BY <1>4, <2>1 DEF UpdateWeights
    <3>2. last = filterSteps[period + 1]
      BY <3>1, Before DEF InPeriod, Stages
    <3>3. Weighings = period /\ Weighings' = period + 1
      BY <3>1 DEF Weighings
    <3>4. \A s \in Samples : report[s][filterSteps[period + 1]] # None
      BY <2>1, <3>2, Names DEF Reported
    <3>5. \A k \in 1..(period + 1) : k \in 1..period \/ k = period + 1
      BY <1>2
    <3>6. QED
      BY <1>1, <3>1, <3>3, <3>4, <3>5 DEF Weighed
  <2>2. CASE ~ \A s \in Samples : Reported(s)
    <3>1. pc = "weights" /\ pc' = "aborted" /\ period' = period /\ report' = report
      BY <1>4, <2>2 DEF UpdateWeights
    <3>2. QED
      BY <1>3, <3>1 DEF Weighings
  <2>3. QED
    BY <2>1, <2>2
<1>5. CASE CloneData
  <2>1. report' = report /\ Weighings' = Weighings
    BY <1>5 DEF CloneData, Weighings
  <2>2. QED
    BY <1>3, <2>1
<1>6. CASE UNCHANGED vars
  <2>1. report' = report /\ Weighings' = Weighings
    BY <1>6 DEF vars, Weighings
  <2>2. QED
    BY <1>3, <2>1
<1>7. CASE RunPremcloop \/ StartPeriod \/ PeriodIsEmpty \/ EndPeriod \/ RunPostmcloop
           \/ ResampleAll \/ ResampleResidual \/ Draw
  <2>1. report' = report /\ Weighings' = Weighings
    BY <1>7 DEF RunPremcloop, StartPeriod, PeriodIsEmpty, EndPeriod, RunPostmcloop,
                ResampleAll, ResampleResidual, Draw, Weighings
  <2>2. QED
    BY <1>3, <2>1
<1>8. CASE AllDrawn
  <2>1. report' = report /\ Weighings = period + 1 /\ Weighings' \in {period, period + 1}
    BY <1>8 DEF AllDrawn, Weighings
  <2>2. QED
    BY <1>2, <1>3, <2>1
<1>9. ASSUME NEW s \in Samples, RunSample(s) PROVE Weighed'
  <2>1. Weighings = period /\ Weighings' = period
    BY <1>9 DEF RunSample, Weighings
  <2>2. QED
    BY <1>1, <1>9, <2>1, ReportsStay DEF Weighed
<1>10. QED
  BY <1>4, <1>5, <1>6, <1>7, <1>8, <1>9 DEF Next

\* A draw takes no copy back.
LEMMA KeptKept == Inv /\ [Next]_vars => Kept'
<1> SUFFICES ASSUME Inv, [Next]_vars PROVE Kept'
  OBVIOUS
<1> USE DEF Inv, Control
<1>1. scheme' = scheme
  BY SetupStays DEF setup
<1>2. CASE pc' \notin {"draw", "clone"}
  BY <1>2 DEF Kept
<1>3. CASE UNCHANGED <<pc, weights, clones>>
  BY <1>1, <1>3 DEF Kept
<1>4. CASE ResampleAll
  BY <1>1, <1>4 DEF ResampleAll, Kept
<1>5. CASE ResampleResidual
  <2>1. \A s \in Samples :
          /\ Floor(NormaliseWeights(weights), s) \in Nat
          /\ clones'[s] >= Floor(NormaliseWeights(weights), s)
                            - (IF IsWhole(NormaliseWeights(weights), s) THEN 1 ELSE 0)
    BY <1>5, ResampleMeaning
  <2>2. weights' = weights
    BY <1>5 DEF ResampleResidual
  <2>3. QED
    BY <2>1, <2>2 DEF Kept
<1>6. CASE Draw
  <2>1. pc = "draw" /\ weights' = weights /\ clones \in [Samples -> Nat]
    BY <1>6 DEF Draw, Choosing
  <2>2. \A s \in Samples : clones'[s] \in {clones[s], clones[s] + 1}
    BY <1>6 DEF Draw
  <2>3. ASSUME scheme = "RR", NEW s \in Samples
        PROVE  /\ Floor(NormaliseWeights(weights), s) \in Nat
               /\ clones'[s] >= Floor(NormaliseWeights(weights), s)
                                 - (IF IsWhole(NormaliseWeights(weights), s) THEN 1 ELSE 0)
    <3>1. PICK f \in Nat : f = Floor(NormaliseWeights(weights), s)
      BY <2>1, <2>3 DEF Kept
    <3>2. PICK d \in {0, 1} : d = IF IsWhole(NormaliseWeights(weights), s) THEN 1 ELSE 0
      OBVIOUS
    <3>3. clones[s] >= f - d
      BY <2>1, <2>3, <3>1, <3>2 DEF Kept
    <3>4. clones'[s] >= f - d
      <4>1. PICK x \in Nat : x = clones[s]
        BY <2>1
      <4>2. QED
        BY <2>2, <3>3, <4>1
    <3>5. QED
      BY <3>1, <3>2, <3>4
  <2>4. QED
    BY <1>1, <2>1, <2>3 DEF Kept
<1>7. CASE AllDrawn
  <2>1. pc = "draw" /\ weights' = weights /\ clones' = clones
    BY <1>7 DEF AllDrawn
  <2>2. QED
    BY <1>1, <2>1 DEF Kept
<1>8. ASSUME NEW s \in Samples, RunSample(s) PROVE pc' \notin {"draw", "clone"}
  BY <1>8 DEF RunSample
<1>9. QED
  BY <1>2, <1>3, <1>4, <1>5, <1>6, <1>7, <1>8
     DEF Next, vars, RunPremcloop, StartPeriod, PeriodIsEmpty, EndPeriod, UpdateWeights,
         RunPostmcloop, CloneData

\* The invariant is inductive.
LEMMA Inductive == Inv /\ [Next]_vars => Inv'
BY TypeKept, InPeriodKept, ChoosingKept, NoGapsKept, WeighedKept, KeptKept, Zenon DEF Inv, Control

-------------------------------------------------------------------------------
\* What the framework keeps is well typed throughout: the period is one of the
\* filter time steps, a file is a history or missing, and the copies, where they
\* are chosen, are natural numbers (run, _setSamplesToClone, _cloneData).
THEOREM TypeCorrect == Spec => []TypeOK
<1>1. Inv => TypeOK
  BY DEF Inv, Control
<1>2. QED
  BY <1>1, InitInv, Inductive, PTL DEF Spec

\* No file that a sample reports or stores was computed from a state of another
\* time: resume takes the state of the time step before the first or none, and
\* _cloneData replaces the files of a sample by those of one time step.
THEOREM NoGapsCorrect == Spec => []NoGaps
<1>1. Inv => NoGaps
  BY DEF Inv
<1>2. QED
  BY <1>1, InitInv, Inductive, PTL DEF Spec

\* A run that gets to the postmcloop has weighed every sample at every filter time
\* step: a sample that failed before the last period made updateWeight fail.
THEOREM LossesCorrect == Spec => []LossesAreNoticed
<1>1. Inv => LossesAreNoticed
  BY DEF Inv, Control, InPeriod, Weighed, Weighings, LossesAreNoticed
<1>2. QED
  BY <1>1, InitInv, Inductive, PTL DEF Spec

\* When the copies are made, residual resampling has kept each sample as often as
\* nrSamples times its weight is worth, but for one copy less where that number is
\* whole and may have been rounded down: no draw takes a copy back.
THEOREM ResidualCorrect == Spec => []ResidualKeeps
<1>1. Inv => ResidualKeeps
  BY DEF Inv, Kept, ResidualKeeps
<1>2. QED
  BY <1>1, InitInv, Inductive, PTL DEF Spec

-------------------------------------------------------------------------------
(* The graph of ancestors *)

\* The least of a set of numbers.
LEMMA MinIs ==
  \A m : \A S \in SUBSET Int : m \in S /\ (\A y \in S : m <= y) => Min(S) = m
<1> SUFFICES ASSUME NEW S \in SUBSET Int, NEW m \in S, \A y \in S : m <= y
             PROVE  Min(S) = m
  OBVIOUS
<1>1. \A x \in S : (\A y \in S : x <= y) => x = m
  OBVIOUS
<1>2. QED
  BY <1>1 DEF Min

\* The time steps of a period, and the last before them.
LEMMA PeriodMeaning ==
  TypeOK /\ InPeriod /\ pc \in Stages =>
    /\ \A t \in first..last : PeriodOf(t) = period
    /\ first > 1 => /\ period \in 1..LastPeriod /\ first - 1 = filterSteps[period]
                    /\ PeriodOf(first - 1) = period - 1
<1> SUFFICES ASSUME TypeOK, InPeriod, pc \in Stages
             PROVE  /\ \A t \in first..last : PeriodOf(t) = period
                    /\ first > 1 => /\ period \in 1..LastPeriod /\ first - 1 = filterSteps[period]
                                    /\ PeriodOf(first - 1) = period - 1
  OBVIOUS
<1>1. /\ period \in 0..LastPeriod /\ LastPeriod \in Nat \ {0}
      /\ first \in Nat /\ last \in Nat /\ first = StartOfPeriod /\ last = EndOfPeriod
  BY Steps DEF TypeOK, InPeriod
<1>2. \A k \in 1..LastPeriod : filterSteps[k] \in Nat
  BY Steps
<1>3. \A k \in 1..period : filterSteps[k] < first
  BY <1>1, Before
<1>4. ASSUME NEW t \in first..last PROVE PeriodOf(t) = period
  <2> DEFINE S == {k - 1 : k \in {n \in 1..LastPeriod : t <= filterSteps[n]}} \cup {LastPeriod}
  <2>1. S \in SUBSET Int
    BY <1>1
  <2>2. period \in S
    <3>1. CASE period = LastPeriod
      BY <3>1
    <3>2. CASE period < LastPeriod
      <4>1. last = filterSteps[period + 1] /\ period + 1 \in 1..LastPeriod
        BY <1>1, <3>2, Before
      <4>2. t <= filterSteps[period + 1]
        BY <1>1, <4>1
      <4>3. (period + 1) - 1 = period
        BY <1>1
      <4>4. QED
        BY <4>1, <4>2, <4>3
    <3>3. QED
      BY <1>1, <3>1, <3>2
  <2>3. \A y \in S : period <= y
    <3> SUFFICES ASSUME NEW k \in 1..LastPeriod, t <= filterSteps[k], ~(period <= k - 1)
                 PROVE  FALSE
      BY <1>1
    <3>1. k \in 1..period
      BY <1>1
    <3>2. filterSteps[k] < first /\ filterSteps[k] \in Nat
      BY <1>2, <1>3, <3>1
    <3>3. QED
      BY <1>1, <3>2
  <2>4. QED
    BY <2>1, <2>2, <2>3, MinIs DEF PeriodOf
<1>5. ASSUME first > 1
      PROVE  /\ period \in 1..LastPeriod /\ first - 1 = filterSteps[period]
             /\ PeriodOf(first - 1) = period - 1
  <2>1. period \in 1..LastPeriod /\ first - 1 = filterSteps[period]
    <3>1. period # 0
      BY <1>1, <1>5 DEF StartOfPeriod
    <3>2. period \in 1..LastPeriod
      BY <1>1, <3>1
    <3>3. first = filterSteps[period] + 1 /\ filterSteps[period] \in Nat
      BY <1>1, <1>2, <3>1, <3>2 DEF StartOfPeriod
    <3>4. QED
      BY <3>2, <3>3
  <2> DEFINE t == first - 1
             S == {k - 1 : k \in {n \in 1..LastPeriod : t <= filterSteps[n]}} \cup {LastPeriod}
  <2>2. S \in SUBSET Int
    BY <1>1
  <2>3. period - 1 \in S
    BY <1>1, <2>1
  <2>4. \A y \in S : period - 1 <= y
    <3> SUFFICES ASSUME NEW k \in 1..LastPeriod, t <= filterSteps[k], ~(period - 1 <= k - 1)
                 PROVE  FALSE
      BY <1>1
    <3>1. k \in 1..period /\ k < period
      BY <1>1
    <3>2. k \in 1..Entered /\ period \in 1..Entered
      BY <1>1, <2>1, <3>1 DEF Entered
    <3>3. filterSteps[k] < filterSteps[period]
      BY <3>1, <3>2 DEF InPeriod
    <3>4. filterSteps[k] \in Nat /\ filterSteps[period] \in Nat
      BY <1>2, <2>1
    <3>5. QED
      BY <2>1, <3>3, <3>4
  <2>5. QED
    BY <2>1, <2>2, <2>3, <2>4, MinIs DEF PeriodOf
<1>6. QED
  BY <1>4, <1>5

\* Where a history goes from one period to the next there is an edge.
Ancestral(h) ==
  \A u \in 1..(Len(h) - 1) : PeriodOf(u) # PeriodOf(u + 1) =>
    /\ PeriodOf(u) \in 0..LastPeriod
    /\ <<PeriodOf(u + 1), h[u + 1]>> \in track[<<PeriodOf(u), h[u]>>]

Lineage ==
  \A s \in Samples, t \in Times :
    /\ report[s][t] # None => Ancestral(report[s][t])
    /\ state[s][t] # None => Ancestral(state[s][t])

\* A state that was stored for this period has an edge to it.
Stored ==
  pc \in {"period", "samples"} /\ period > 0 =>
    \A s \in Samples :
      state[s][filterSteps[period]] # None =>
        <<period, s>> \in
          track[<<period - 1, state[s][filterSteps[period]][filterSteps[period]]>>]

\* The only states of this period are those that its samples left.
Ahead ==
  pc \in Stages \cup {"premc", "period"} =>
    \A s \in Samples, t \in Times :
      t >= StartOfPeriod /\ state[s][t] # None =>
        pc \in Stages /\ t = last /\ s \in ended /\ state[s][t][t] = s

\* A sample has one parent in the period before; this period has no children yet.
OneParent ==
  /\ \A n \in (0..LastPeriod) \X Samples : n[1] >= period => track[n] = {}
  /\ \A p \in 1..period, s \in Samples :
       \E r \in Samples : \A q \in Samples : <<p, s>> \in track[<<p - 1, q>>] <=> q = r

GInv == Inv /\ (resumeBy = "readState" => Lineage) /\ Stored /\ Ahead /\ OneParent

\* A run starts without edges.
LEMMA InitGraph == Init => GInv
<1> SUFFICES ASSUME Init PROVE GInv
  OBVIOUS
<1>1. Lineage /\ Stored /\ Ahead
  BY DEF Init, NoFiles, Lineage, Stored, Ahead, Stages
<1>2. OneParent
  BY DEF Init, OneParent
<1>3. QED
  BY <1>1, <1>2, InitInv DEF GInv

\* What a sample reports has the ancestry of what it resumed from, and an edge
\* from there to itself.
LEMMA HistoryAncestral ==
  ASSUME GInv, resumeBy = "readState",
         pc = "samples", NEW s \in Samples, Resumed(s) # None
  PROVE  \A t \in first..last : Ancestral(History(s, t))
<1> USE DEF GInv, Inv, Control
<1> SUFFICES ASSUME NEW t \in first..last, NEW u \in 1..(Len(History(s, t)) - 1),
                    PeriodOf(u) # PeriodOf(u + 1)
             PROVE  /\ PeriodOf(u) \in 0..LastPeriod
                    /\ <<PeriodOf(u + 1), History(s, t)[u + 1]>> \in
                         track[<<PeriodOf(u), History(s, t)[u]>>]
  BY DEF Ancestral
<1>1. /\ pc \in Stages /\ period \in 0..LastPeriod /\ LastPeriod \in Nat \ {0}
      /\ first \in Nat /\ first >= 1 /\ last \in 1..NrTimeSteps /\ NrTimeSteps \in Nat
  BY Steps, NrAssumption DEF Stages, TypeOK
<1>2. t \in Times /\ t >= first - 1
  BY <1>1 DEF Times
<1>3. /\ Len(History(s, t)) = t
      /\ \A i \in 1..t : History(s, t)[i] = IF i < first THEN Resumed(s)[i] ELSE s
  BY <1>2, HistoryMeaning
<1>4. u \in 1..(t - 1) /\ u \in 1..t /\ u + 1 \in 1..t
  BY <1>1, <1>2, <1>3
<1>5. CASE u + 1 < first
  <2>1. first > 1 /\ Resumed(s) = state[s][first - 1] /\ first - 1 \in Times
    <3>1. first > 1 /\ first # 1
      BY <1>1, <1>4, <1>5
    <3>2. QED
      BY <3>1, ResumedMeaning
  <2>2. Ancestral(Resumed(s)) /\ Len(Resumed(s)) = first - 1
    BY <2>1, HistoryMeaning DEF Lineage
  <2>3. u \in 1..(Len(Resumed(s)) - 1)
    BY <1>1, <1>4, <1>5, <2>2
  <2>4. /\ PeriodOf(u) \in 0..LastPeriod
        /\ <<PeriodOf(u + 1), Resumed(s)[u + 1]>> \in track[<<PeriodOf(u), Resumed(s)[u]>>]
    BY <2>2, <2>3 DEF Ancestral
  <2>5. History(s, t)[u] = Resumed(s)[u] /\ History(s, t)[u + 1] = Resumed(s)[u + 1]
    BY <1>1, <1>3, <1>4, <1>5
  <2>6. QED
    BY <2>4, <2>5
<1>6. CASE u + 1 = first
  <2>1. first > 1 /\ Resumed(s) = state[s][first - 1] /\ u = first - 1
    <3>1. first > 1 /\ first # 1 /\ u = first - 1
      BY <1>1, <1>4, <1>6
    <3>2. QED
      BY <3>1, ResumedMeaning
  <2>2. /\ period \in 1..LastPeriod /\ first - 1 = filterSteps[period]
        /\ PeriodOf(u) = period - 1 /\ PeriodOf(u + 1) = period
    <3>1. first \in first..last
      BY <1>1, <1>2
    <3>2. QED
      BY <1>1, <1>6, <2>1, <3>1, PeriodMeaning
  <2>3. <<period, s>> \in track[<<period - 1, Resumed(s)[u]>>]
    BY <1>1, <2>1, <2>2 DEF Stored
  <2>4. History(s, t)[u] = Resumed(s)[u] /\ History(s, t)[u + 1] = s
    BY <1>1, <1>3, <1>4, <1>6
  <2>5. QED
    BY <1>1, <2>2, <2>3, <2>4
<1>7. CASE u + 1 > first
  <2>1. u \in first..last /\ u + 1 \in first..last
    BY <1>1, <1>4, <1>7
  <2>2. PeriodOf(u) = period /\ PeriodOf(u + 1) = period
    BY <1>1, <2>1, PeriodMeaning
  <2>3. QED
    BY <2>2
<1>8. QED
  BY <1>1, <1>4, <1>5, <1>6, <1>7

\* No step moves a time step to another period.
LEMMA PeriodsStay ==
  [Next]_vars => /\ filterSteps' = filterSteps /\ LastPeriod' = LastPeriod
                 /\ \A t : PeriodOf(t)' = PeriodOf(t)
<1> SUFFICES ASSUME [Next]_vars
             PROVE  /\ filterSteps' = filterSteps /\ LastPeriod' = LastPeriod
                    /\ \A t : PeriodOf(t)' = PeriodOf(t)
  OBVIOUS
<1>1. filterSteps' = filterSteps
  BY SetupStays DEF setup
<1>2. QED
  BY <1>1 DEF PeriodOf, LastPeriod

\* The edges that a cloning adds are from this period to the next.
LEMMA CloneTracks ==
  ASSUME GInv, CloneData
  PROVE  /\ \A q \in Samples : track[<<period, q>>] = {}
         /\ \A p \in 0..LastPeriod, q \in Samples :
              track'[<<p, q>>] = IF p = period THEN Tracked(q) ELSE track[<<p, q>>]
<1>1. DOMAIN track = (0..LastPeriod) \X Samples
  BY DEF GInv, Inv, Control, TypeOK
<1>2. period \in 0..LastPeriod /\ LastPeriod \in Nat
  BY Steps DEF GInv, Inv, Control, TypeOK
<1>3. \A q \in Samples : track[<<period, q>>] = {}
  BY <1>2 DEF GInv, OneParent
<1>4. \A p \in 0..LastPeriod, q \in Samples :
        track'[<<p, q>>] = IF p = period THEN Tracked(q) ELSE track[<<p, q>>]
  BY <1>1 DEF CloneData
<1>5. QED
  BY <1>3, <1>4

\* No step takes an edge away.
LEMMA EdgesStay ==
  ASSUME GInv, [Next]_vars
  PROVE  \A p \in 0..LastPeriod, q \in Samples : track[<<p, q>>] \subseteq track'[<<p, q>>]
<1>1. CASE CloneData
  BY <1>1, CloneTracks
<1>2. CASE track' = track
  BY <1>2
<1>3. ASSUME NEW s \in Samples, RunSample(s) PROVE track' = track
  BY <1>3 DEF RunSample
<1>4. QED
  BY <1>1, <1>2, <1>3, FilesStay

\* Ancestral, after a step.
AncestralNext(h) ==
  \A u \in 1..(Len(h) - 1) : PeriodOf(u) # PeriodOf(u + 1) =>
    /\ PeriodOf(u) \in 0..LastPeriod
    /\ <<PeriodOf(u + 1), h[u + 1]>> \in track'[<<PeriodOf(u), h[u]>>]

\* A history stays in the graph.
LEMMA AncestralStays ==
  ASSUME GInv, [Next]_vars
  PROVE  \A h \in Seq(Samples) : Ancestral(h) => AncestralNext(h)
<1> SUFFICES ASSUME NEW h \in Seq(Samples), Ancestral(h),
                    NEW u \in 1..(Len(h) - 1), PeriodOf(u) # PeriodOf(u + 1)
             PROVE  /\ PeriodOf(u) \in 0..LastPeriod
                    /\ <<PeriodOf(u + 1), h[u + 1]>> \in track'[<<PeriodOf(u), h[u]>>]
  BY DEF AncestralNext
<1>1. h[u] \in Samples
  BY ElementOfSeq, LenProperties
<1>2. /\ PeriodOf(u) \in 0..LastPeriod
      /\ <<PeriodOf(u + 1), h[u + 1]>> \in track[<<PeriodOf(u), h[u]>>]
  BY DEF Ancestral
<1>3. QED
  BY <1>1, <1>2, EdgesStay

\* The invariant on histories, file by file.
LEMMA LineageFollows ==
  ASSUME [Next]_vars,
         \A s \in Samples, t \in Times :
           /\ report'[s][t] # None => AncestralNext(report'[s][t])
           /\ state'[s][t] # None => AncestralNext(state'[s][t])
  PROVE  Lineage'
<1>1. /\ LastPeriod' = LastPeriod
      /\ \A t : PeriodOf(t)' = PeriodOf(t)
  BY PeriodsStay
<1>2. ASSUME NEW s \in Samples, NEW t \in Times, report'[s][t] # None
      PROVE  Ancestral(report[s][t])'
  <2>1. AncestralNext(report'[s][t])
    BY <1>2
  <2>2. QED
    BY <1>1, <2>1 DEF AncestralNext, Ancestral
<1>3. ASSUME NEW s \in Samples, NEW t \in Times, state'[s][t] # None
      PROVE  Ancestral(state[s][t])'
  <2>1. AncestralNext(state'[s][t])
    BY <1>3
  <2>2. QED
    BY <1>1, <2>1 DEF AncestralNext, Ancestral
<1>4. QED
  BY <1>2, <1>3 DEF Lineage

\* Every step leaves all histories in the graph.
LEMMA LineageKept ==
  ASSUME GInv, resumeBy = "readState", [Next]_vars
  PROVE  Lineage'
<1> USE DEF GInv, Inv, Control
<1>1. ASSUME NEW s \in Samples, NEW t \in Times
      PROVE  /\ report[s][t] # None => AncestralNext(report[s][t])
             /\ state[s][t] # None => AncestralNext(state[s][t])
  <2>1. report[s][t] \in Seq(Samples) \cup {None} /\ state[s][t] \in Seq(Samples) \cup {None}
    BY DEF TypeOK
  <2>2. QED
    BY <2>1, AncestralStays DEF Lineage
<1>2. CASE UNCHANGED <<report, state, track>>
  BY <1>1, <1>2, LineageFollows
<1>3. CASE CloneData
  <2>1. \A s \in Samples : Source(clones, s) \in Samples /\ state'[s] = state[Source(clones, s)]
    BY <1>3, SourceMeaning DEF CloneData, Choosing
  <2>2. report' = report
    BY <1>3 DEF CloneData
  <2>3. QED
    BY <1>1, <2>1, <2>2, LineageFollows
<1>4. ASSUME NEW s \in Samples, RunSample(s) PROVE Lineage'
  <2>1. PICK upto \in IF failing THEN (first - 1)..last ELSE {last}, suspended \in BOOLEAN :
          /\ suspended => Complete(s, upto)
          /\ Runs(s, upto, suspended)
    BY <1>4 DEF RunSample
  <2>2. RunOf(s, upto, suspended)
    BY <2>1, RunMeaning
  <2>3. pc = "samples" /\ first \in Nat /\ last \in Times /\ first <= last /\ first >= 1
    BY <1>4, NrAssumption DEF RunSample, TypeOK, InPeriod, Stages, Times
  <2>4. upto <= last /\ last \in Nat /\ (upto \in Int)
    BY <2>1, <2>3 DEF Times
  <2>5. ASSUME Resumed(s) # None, NEW t \in first..last
        PROVE  AncestralNext(History(s, t))
    <3>1. Ancestral(History(s, t))
      BY <2>3, <2>5, HistoryAncestral
    <3>2. t \in Times /\ t >= first - 1
      BY <2>3, <2>4, <2>5, NrAssumption DEF Times
    <3>3. History(s, t) \in Seq(Samples)
      BY <2>5, <3>2, HistoryMeaning
    <3>4. QED
      BY <3>1, <3>3, AncestralStays
  <2>6. ASSUME NEW r \in Samples, NEW t \in Times
        PROVE  /\ report'[r][t] # None => AncestralNext(report'[r][t])
               /\ state'[r][t] # None => AncestralNext(state'[r][t])
    <3>1. t \in first..upto => t \in first..last
      BY <2>3, <2>4
    <3>2. suspended => Resumed(s) # None
      BY <2>1 DEF Complete
    <3>3. last \in first..last
      BY <2>3, <2>4
    <3>4. report'[r][t] # None => AncestralNext(report'[r][t])
      BY <1>1, <2>2, <2>5, <3>1 DEF RunOf
    <3>5. state'[r][t] # None => AncestralNext(state'[r][t])
      BY <1>1, <2>2, <2>5, <3>2, <3>3 DEF RunOf
    <3>6. QED
      BY <3>4, <3>5
  <2>7. QED
    BY <2>6, LineageFollows
<1>5. QED
  BY <1>2, <1>3, <1>4, FilesStay

\* Every step leaves each sample one parent: the one that _cloneData copied.
LEMMA OneParentKept == GInv /\ [Next]_vars => OneParent'
<1> SUFFICES ASSUME GInv, [Next]_vars PROVE OneParent'
  OBVIOUS
<1> USE DEF GInv, Inv, Control
<1>1. LastPeriod' = LastPeriod /\ LastPeriod \in Nat /\ period \in 0..LastPeriod
  BY PeriodsStay, Steps DEF TypeOK
<1>2. CASE UNCHANGED <<period, track>>
  BY <1>1, <1>2 DEF OneParent
<1>3. CASE CloneData
  <2>1. /\ period' = period + 1 /\ period < LastPeriod
        /\ clones \in [Samples -> Nat] /\ Total(clones) = NrSamples
    BY <1>3 DEF CloneData, Choosing, InPeriod, Stages
  <2>2. ASSUME NEW n \in (0..LastPeriod) \X Samples, n[1] >= period + 1
        PROVE  track'[n] = {}
    <3>1. PICK p \in 0..LastPeriod, q \in Samples : n = <<p, q>>
      OBVIOUS
    <3>2. p >= period + 1 /\ p # period /\ p >= period
      BY <1>1, <2>2, <3>1
    <3>3. track[n] = {}
      BY <3>1, <3>2 DEF OneParent
    <3>4. QED
      BY <1>3, <3>1, <3>2, <3>3, CloneTracks
  <2>3. ASSUME NEW p \in 1..period, NEW s \in Samples
        PROVE  \E r \in Samples : \A q \in Samples : <<p, s>> \in track'[<<p - 1, q>>] <=> q = r
    <3>1. p - 1 \in 0..LastPeriod /\ p - 1 # period
      BY <1>1
    <3>2. \A q \in Samples : track'[<<p - 1, q>>] = track[<<p - 1, q>>]
      BY <1>3, <3>1, CloneTracks
    <3>3. QED
      BY <3>2 DEF OneParent
  <2>4. ASSUME NEW s \in Samples
        PROVE  \A q \in Samples :
                 <<period + 1, s>> \in track'[<<period, q>>] <=> q = Source(clones, s)
    <3>1. \A q \in Samples : track'[<<period, q>>] = Tracked(q)
      BY <1>1, <1>3, CloneTracks
    <3>2. \A q \in Samples :
            <<period + 1, s>> \in Tracked(q) <=> clones[q] > 0 /\ (s = q \/ Source(clones, s) = q)
      BY DEF Tracked
    <3>3. /\ Source(clones, s) \in Samples /\ clones[Source(clones, s)] > 0
          /\ clones[s] > 0 => Source(clones, s) = s
      BY <2>1, SourceMeaning
    <3>4. QED
      BY <3>1, <3>2, <3>3
  <2>5. ASSUME NEW p \in 1..(period + 1), NEW s \in Samples
        PROVE  \E r \in Samples : \A q \in Samples : <<p, s>> \in track'[<<p - 1, q>>] <=> q = r
    <3>1. CASE p \in 1..period
      BY <2>3, <3>1
    <3>2. CASE p = period + 1
      <4>1. p - 1 = period
        BY <1>1, <3>2
      <4>2. Source(clones, s) \in Samples
        BY <2>1, SourceMeaning
      <4>3. QED
        BY <2>4, <3>2, <4>1, <4>2
    <3>3. QED
      BY <1>1, <3>1, <3>2
  <2>6. QED
    BY <1>1, <2>1, <2>2, <2>5 DEF OneParent
<1>4. QED
  BY <1>2, <1>3
     DEF Next, vars, RunPremcloop, StartPeriod, PeriodIsEmpty, EndPeriod, UpdateWeights,
         ResampleAll, ResampleResidual, Draw, AllDrawn, RunPostmcloop, RunSample

\* Every step leaves what was stored with an edge to the sample that resumes it.
LEMMA StoredKept == GInv /\ [Next]_vars => Stored'
<1> SUFFICES ASSUME GInv, [Next]_vars PROVE Stored'
  OBVIOUS
<1> USE DEF GInv, Inv, Control
<1>1. /\ LastPeriod' = LastPeriod /\ LastPeriod \in Nat /\ period \in 0..LastPeriod
      /\ filterSteps' = filterSteps
  BY PeriodsStay, Steps DEF TypeOK
<1>2. CASE pc' \notin {"period", "samples"}
  BY <1>2 DEF Stored
<1>3. CASE UNCHANGED vars \/ StartPeriod
  BY <1>1, <1>3 DEF Stored, vars, StartPeriod
<1>4. CASE RunPremcloop
  BY <1>4 DEF Stored, RunPremcloop, InPeriod
<1>5. CASE CloneData
  <2>1. /\ period' = period + 1 /\ period < LastPeriod
        /\ clones \in [Samples -> Nat] /\ Total(clones) = NrSamples
        /\ pc = "clone" /\ pc \in Stages
    BY <1>5 DEF CloneData, Choosing, InPeriod, Stages
  <2>2. last = filterSteps[period + 1] /\ last = EndOfPeriod /\ last >= StartOfPeriod
    BY <2>1, Before DEF InPeriod
  <2>3. (period + 1) - 1 = period /\ last \in Times
    BY <1>1, NrAssumption DEF TypeOK, Times
  <2>4. ASSUME NEW s \in Samples, state'[s][last] # None
        PROVE  <<period + 1, s>> \in track'[<<period, state'[s][last][last]>>]
    <3> DEFINE q == Source(clones, s)
    <3>1. q \in Samples /\ clones[q] > 0 /\ state'[s] = state[q]
      BY <1>5, <2>1, SourceMeaning DEF CloneData
    <3>2. state[q][last][last] = q
      BY <2>1, <2>2, <2>3, <2>4, <3>1 DEF Ahead
    <3>3. track'[<<period, q>>] = Tracked(q)
      BY <1>1, <1>5, <3>1, CloneTracks
    <3>4. <<period + 1, s>> \in Tracked(q)
      BY <3>1 DEF Tracked
    <3>5. QED
      BY <3>1, <3>2, <3>3, <3>4
  <2>5. QED
    BY <1>1, <2>1, <2>2, <2>3, <2>4 DEF Stored
<1>6. ASSUME NEW s \in Samples, RunSample(s) PROVE Stored'
  <2>1. PICK upto \in IF failing THEN (first - 1)..last ELSE {last}, suspended \in BOOLEAN :
          Runs(s, upto, suspended)
    BY <1>6 DEF RunSample
  <2>2. RunOf(s, upto, suspended)
    BY <2>1, RunMeaning
  <2>3. /\ pc = "samples" /\ pc \in Stages /\ period' = period /\ track' = track
        /\ first = StartOfPeriod /\ first <= last /\ first \in Nat /\ last \in Nat
    BY <1>6 DEF RunSample, Stages, InPeriod, TypeOK
  <2>4. ASSUME period > 0, NEW r \in Samples
        PROVE  state'[r][filterSteps[period]] = state[r][filterSteps[period]]
    <3>1. period \in 1..period /\ period \in 1..LastPeriod
      BY <1>1, <2>4
    <3>2. filterSteps[period] < first
      BY <2>3, <3>1, Before
    <3>3. filterSteps[period] \in Nat /\ filterSteps[period] \in Times
      BY <3>1, Steps, NrAssumption DEF Times
    <3>4. filterSteps[period] # last
      BY <2>3, <3>2, <3>3
    <3>5. QED
      BY <2>2, <3>3, <3>4 DEF RunOf
  <2>5. QED
    BY <1>1, <2>3, <2>4 DEF Stored
<1>7. QED
  BY <1>2, <1>3, <1>4, <1>5, <1>6
     DEF Next, PeriodIsEmpty, EndPeriod, UpdateWeights, ResampleAll, ResampleResidual, Draw,
         AllDrawn, RunPostmcloop

\* What the steps other than those of a sample and the cloning leave alone.
Staying ==
  /\ UNCHANGED <<period, state>>
  /\ \/ pc' \notin Stages \cup {"premc", "period"}
     \/ pc \in {"premc", "period"} /\ pc' \in Stages \cup {"premc", "period"}
     \/ pc \in Stages /\ pc' \in Stages /\ UNCHANGED <<last, ended>>

\* Every step leaves nothing stored ahead of the samples.
LEMMA AheadKept ==
  ASSUME GInv, [Next]_vars
  PROVE  Ahead'
<1> USE DEF GInv, Inv, Control
<1>1. /\ LastPeriod' = LastPeriod /\ LastPeriod \in Nat /\ period \in 0..LastPeriod
      /\ filterSteps' = filterSteps
  BY PeriodsStay, Steps DEF TypeOK
<1>2. CASE Staying
  <2>1. StartOfPeriod' = StartOfPeriod
    BY <1>1, <1>2 DEF Staying, StartOfPeriod
  <2>2. CASE pc \in {"premc", "period"} /\ pc' \in Stages \cup {"premc", "period"}
    <3>1. pc \notin Stages
      BY <2>2 DEF Stages
    <3>2. \A s \in Samples, t \in Times : ~(t >= StartOfPeriod /\ state[s][t] # None)
      BY <2>2, <3>1 DEF Ahead
    <3>3. QED
      BY <1>2, <2>1, <3>2 DEF Staying, Ahead
  <2>3. CASE pc' \notin Stages \cup {"premc", "period"}
    BY <2>3 DEF Ahead
  <2>4. CASE pc \in Stages /\ pc' \in Stages /\ UNCHANGED <<last, ended>>
    BY <1>2, <2>1, <2>4 DEF Ahead, Staying
  <2>5. QED
    BY <1>2, <2>2, <2>3, <2>4 DEF Staying
<1>3. CASE CloneData
  <2>1. /\ period' = period + 1 /\ period < LastPeriod
        /\ clones \in [Samples -> Nat] /\ Total(clones) = NrSamples
        /\ pc = "clone" /\ pc \in Stages
    BY <1>3 DEF CloneData, Choosing, InPeriod, Stages
  <2>2. last = filterSteps[period + 1] /\ last = EndOfPeriod /\ last >= StartOfPeriod
    BY <2>1, Before DEF InPeriod
  <2>3. StartOfPeriod' = last + 1
    BY <1>1, <2>1, <2>2 DEF StartOfPeriod
  <2>4. ASSUME NEW s \in Samples, NEW t \in Times, t >= last + 1, state'[s][t] # None
        PROVE  FALSE
    <3> DEFINE q == Source(clones, s)
    <3>1. q \in Samples /\ state'[s] = state[q]
      BY <1>3, <2>1, SourceMeaning DEF CloneData
    <3>2. t \in Nat /\ last \in Nat /\ StartOfPeriod \in Nat
      BY <2>1, NrAssumption DEF Times, TypeOK, InPeriod
    <3>3. t >= StartOfPeriod /\ t # last
      BY <2>2, <2>4, <3>2
    <3>4. QED
      BY <2>1, <2>4, <3>1, <3>3 DEF Ahead
  <2>5. QED
    BY <2>3, <2>4 DEF Ahead
<1>4. ASSUME NEW s \in Samples, RunSample(s) PROVE Ahead'
  <2>1. PICK upto \in IF failing THEN (first - 1)..last ELSE {last}, suspended \in BOOLEAN :
          /\ suspended => Complete(s, upto)
          /\ Runs(s, upto, suspended)
    BY <1>4 DEF RunSample
  <2>2. RunOf(s, upto, suspended)
    BY <2>1, RunMeaning
  <2>3. /\ pc = "samples" /\ pc \in Stages /\ period' = period /\ ended' = ended \cup {s}
        /\ first = StartOfPeriod /\ first <= last /\ first \in Nat /\ last \in Times
        /\ first >= 1 /\ last \in 1..last /\ last' = last
    BY <1>4, NrAssumption DEF RunSample, Stages, InPeriod, TypeOK, Times
  <2>4. CASE pc' \notin Stages
    BY <1>4, <2>3, <2>4 DEF RunSample, Ahead, Stages
  <2>5. CASE pc' \in Stages
    <3>1. suspended => History(s, last)[last] = s
      <4>1. last >= first - 1 /\ ~(last < first)
        BY <2>3 DEF Times
      <4>2. QED
        BY <2>1, <2>3, <4>1, HistoryMeaning DEF Complete
    <3>2. StartOfPeriod' = StartOfPeriod
      BY <1>1, <2>3 DEF StartOfPeriod
    <3>3. ASSUME NEW r \in Samples, NEW t \in Times, t >= StartOfPeriod, state'[r][t] # None
          PROVE  t = last /\ r \in ended' /\ state'[r][t][t] = r
      <4>1. CASE suspended /\ r = s /\ t = last
        BY <2>2, <2>3, <3>1, <4>1 DEF RunOf
      <4>2. CASE ~(suspended /\ r = s /\ t = last)
        <5>1. state'[r][t] = state[r][t]
          BY <2>2, <4>2 DEF RunOf
        <5>2. QED
          BY <2>3, <3>3, <5>1 DEF Ahead
      <4>3. QED
        BY <4>1, <4>2
    <3>4. QED
      BY <2>3, <2>5, <3>2, <3>3 DEF Ahead
  <2>6. QED
    BY <2>4, <2>5
<1>5. CASE RunPremcloop \/ StartPeriod \/ PeriodIsEmpty \/ EndPeriod \/ RunPostmcloop
  <2>1. Staying
    BY <1>5 DEF RunPremcloop, StartPeriod, PeriodIsEmpty, EndPeriod, RunPostmcloop, Staying, Stages
  <2>2. QED
    BY <1>2, <2>1
<1>6. CASE UpdateWeights \/ ResampleAll \/ ResampleResidual \/ Draw \/ AllDrawn
  <2>1. Staying
    BY <1>6 DEF UpdateWeights, ResampleAll, ResampleResidual, Draw, AllDrawn, Staying, Stages
  <2>2. QED
    BY <1>2, <2>1
<1>7. CASE UNCHANGED vars
  BY <1>1, <1>7 DEF vars, Ahead, StartOfPeriod
<1>8. QED
  BY <1>3, <1>4, <1>5, <1>6, <1>7 DEF Next

\* The invariant of the graph is inductive.
LEMMA InductiveGraph == GInv /\ [Next]_vars => GInv'
<1> SUFFICES ASSUME GInv, [Next]_vars PROVE GInv'
  OBVIOUS
<1>1. resumeBy' = resumeBy
  BY SetupStays DEF setup
<1>2. Inv'
  BY Inductive DEF GInv
<1>3. Stored' /\ Ahead' /\ OneParent'
  BY StoredKept, AheadKept, OneParentKept
<1>4. resumeBy = "readState" => Lineage'
  BY LineageKept
<1>5. QED
  BY <1>1, <1>2, <1>3, <1>4 DEF GInv

\* Where models resume with readState (with readmap they read files that were not
\* cloned), the graph that _createGraph draws is the ancestry of the states,
\* whichever samples fail: each transition of a history from one period to the
\* next is an edge, and a sample has one parent.
THEOREM GraphCorrect == Spec => []GraphIsAncestry
<1>1. GInv => GraphIsAncestry
  <2> SUFFICES ASSUME GInv, resumeBy = "readState" PROVE GraphIsAncestry
    BY DEF GraphIsAncestry
  <2> USE DEF GInv, Inv, Control
  <2>1. ASSUME NEW s \in Samples, NEW t \in Times, report[s][t] # None,
               NEW u \in 1..(t - 1), PeriodOf(u) # PeriodOf(u + 1)
        PROVE  <<PeriodOf(u + 1), report[s][t][u + 1]>> \in track[<<PeriodOf(u), report[s][t][u]>>]
    <3>1. Ancestral(report[s][t]) /\ Len(report[s][t]) = t
      BY <2>1 DEF Lineage, NoGaps
    <3>2. QED
      BY <2>1, <3>1 DEF Ancestral
  <2>2. ASSUME pc = "period", period > 0, NEW s \in Samples,
               state[s][filterSteps[period]] # None
        PROVE  <<period, s>> \in track[<<period - 1, state[s][filterSteps[period]]
                                           [Len(state[s][filterSteps[period]])]>>]
    <3>1. period \in 1..LastPeriod
      BY <2>2, Steps DEF TypeOK
    <3>2. filterSteps[period] \in Times
      BY <3>1, Steps, NrAssumption DEF Times
    <3>3. Len(state[s][filterSteps[period]]) = filterSteps[period]
      BY <2>2, <3>2 DEF NoGaps
    <3>4. QED
      BY <2>2, <3>3 DEF Stored
  <2>3. ASSUME NEW p \in 1..period, NEW s \in Samples
        PROVE  Cardinality({r \in Samples : <<p, s>> \in track[<<p - 1, r>>]}) = 1
    <3>1. PICK r \in Samples : \A q \in Samples : <<p, s>> \in track[<<p - 1, q>>] <=> q = r
      BY DEF OneParent
    <3>2. {q \in Samples : <<p, s>> \in track[<<p - 1, q>>]} = {r}
      BY <3>1
    <3>3. QED
      BY <3>2, FS_Singleton
  <2>4. QED
    BY <2>1, <2>2, <2>3 DEF GraphIsAncestry
<1>2. QED
  BY <1>1, InitGraph, InductiveGraph, PTL DEF Spec

-------------------------------------------------------------------------------
(* The population *)

\* Copies are chosen at a filter time step only.
Cleared ==
  /\ pc \notin {"draw", "clone", "aborted"} => clones = <<>>
  /\ pc \in {"draw", "clone"} => clones # <<>>

\* No sample fails: each is stored at the end of the last period, and in this one
\* when it ended.
Succeeding ==
  /\ pc = "premc" \/ (pc = "period" /\ period = 0) => ended = {} /\ first = 1
  /\ pc = "period" /\ period > 0 =>
       ended = Samples /\ \A s \in Samples : state[s][last] # None
  /\ pc \in Stages =>
       /\ first > 1 => \A s \in Samples : state[s][first - 1] # None
       /\ \A s \in ended : state[s][last] # None

\* Only samples with a weight are drawn and copied.
Weighted ==
  /\ pc = "draw" =>
       \A s \in Samples :
         cdf[s] > (IF s = 1 THEN 0 ELSE cdf[s - 1]) => NormaliseWeights(weights)[s] > 0
  /\ pc \in {"draw", "clone"} =>
       \A s \in Samples : clones[s] > 0 => NormaliseWeights(weights)[s] > 0

PInv == Inv /\ Cleared /\ Succeeding /\ Weighted

\* The invariant of all runs.
Filtering == Inv /\ Cleared /\ Weighted /\ (Intact => Succeeding)

\* A run starts with empty particles.
LEMMA InitPopulation == Init => Filtering
BY InitInv DEF Init, Filtering, Cleared, Succeeding, Weighted, Stages

\* Every step leaves no copies chosen outside a filter time step.
LEMMA ClearedKept == Filtering /\ [Next]_vars => Cleared'
<1> SUFFICES ASSUME Filtering, [Next]_vars PROVE Cleared'
  OBVIOUS
<1> USE DEF Filtering, Inv, Control
<1>1. CASE ResampleAll \/ ResampleResidual \/ Draw
  <2>1. pc' = "draw" /\ clones' \in [Samples -> Nat]
    <3>1. CASE ResampleAll \/ ResampleResidual
      BY <3>1, ResampleMeaning DEF ResampleAll, ResampleResidual
    <3>2. CASE Draw
      BY <3>2 DEF Draw, Choosing
    <3>3. QED
      BY <1>1, <3>1, <3>2
  <2>2. clones' # <<>>
    BY <2>1, SamplesAreNumbers
  <2>3. QED
    BY <2>1, <2>2 DEF Cleared
<1>2. CASE CloneData
  BY <1>2 DEF CloneData, Cleared
<1>3. CASE UNCHANGED vars
  BY <1>3 DEF vars, Cleared
<1>4. CASE RunPremcloop \/ StartPeriod \/ PeriodIsEmpty \/ EndPeriod \/ UpdateWeights
           \/ AllDrawn \/ RunPostmcloop \/ \E s \in Samples : RunSample(s)
  BY <1>4 DEF RunPremcloop, StartPeriod, PeriodIsEmpty, EndPeriod, UpdateWeights, AllDrawn,
              RunPostmcloop, RunSample, Cleared
<1>5. QED
  BY <1>1, <1>2, <1>3, <1>4 DEF Next

\* A draw hits a sample with a weight.
LEMMA WeightedKept == Filtering /\ [Next]_vars => Weighted'
<1> SUFFICES ASSUME Filtering, [Next]_vars PROVE Weighted'
  OBVIOUS
<1> USE DEF Filtering, Inv, Control
<1>1. CASE ResampleAll \/ ResampleResidual
  <2>1. /\ \A s \in Samples :
             cdf'[s] > (IF s = 1 THEN 0 ELSE cdf'[s - 1]) => NormaliseWeights(weights)[s] > 0
        /\ \A s \in Samples : clones'[s] > 0 => NormaliseWeights(weights)[s] > 0
    BY <1>1, ResampleMeaning
  <2>2. weights' = weights
    BY <1>1 DEF ResampleAll, ResampleResidual
  <2>3. QED
    BY <2>1, <2>2 DEF Weighted
<1>2. CASE Draw
  <2>1. pc = "draw" /\ pc' = "draw" /\ weights' = weights /\ cdf' = cdf
    BY <1>2 DEF Draw
  <2>2. PICK hit \in Draws(cdf) :
          clones' = [s \in Samples |-> IF s \in hit THEN clones[s] + 1 ELSE clones[s]]
    BY <1>2 DEF Draw
  <2>3. PICK u \in 0..(cdf[Len(cdf)] + 1) : hit = Drawn(cdf, u)
    BY DEF Draws
  <2>4. cdf \in [Samples -> Int] /\ \A s \in Samples : s # 1 => s - 1 \in Samples
    BY <2>1, SamplesAreNumbers DEF Choosing
  <2>5. ASSUME NEW s \in Samples, s \in hit PROVE NormaliseWeights(weights)[s] > 0
    <3>1. u > (IF s = 1 THEN 0 ELSE cdf[s - 1]) /\ u <= cdf[s]
      BY <2>3, <2>5 DEF Drawn
    <3>2. PICK x \in Int : x = cdf[s]
      BY <2>4
    <3>3. PICK y \in Int : y = IF s = 1 THEN 0 ELSE cdf[s - 1]
      BY <2>4
    <3>4. x > y
      BY <3>1, <3>2, <3>3
    <3>5. QED
      BY <2>1, <3>2, <3>3, <3>4 DEF Weighted
  <2>6. ASSUME NEW s \in Samples, clones'[s] > 0 PROVE NormaliseWeights(weights)[s] > 0
    <3>1. CASE s \in hit
      BY <2>5, <3>1
    <3>2. CASE s \notin hit
      <4>1. clones'[s] = clones[s]
        BY <2>2, <3>2
      <4>2. QED
        BY <2>1, <2>6, <4>1 DEF Weighted
    <3>3. QED
      BY <3>1, <3>2
  <2>7. QED
    BY <2>1, <2>6 DEF Weighted
<1>3. CASE AllDrawn
  BY <1>3 DEF AllDrawn, Weighted
<1>4. CASE UNCHANGED vars
  BY <1>4 DEF vars, Weighted
<1>5. CASE RunPremcloop \/ StartPeriod \/ PeriodIsEmpty \/ EndPeriod \/ UpdateWeights
           \/ CloneData \/ RunPostmcloop \/ \E s \in Samples : RunSample(s)
  BY <1>5 DEF RunPremcloop, StartPeriod, PeriodIsEmpty, EndPeriod, UpdateWeights, CloneData,
              RunPostmcloop, RunSample, Weighted
<1>6. QED
  BY <1>1, <1>2, <1>3, <1>4, <1>5 DEF Next

\* A history is a file.
LEMMA HistoriesAreFiles ==
  ASSUME Inv
  PROVE  \A s \in Samples, t \in Times :
           Resumed(s) # None /\ t >= first - 1 => History(s, t) # None
<1> USE DEF Inv, Control
<1> SUFFICES ASSUME NEW s \in Samples, NEW t \in Times, Resumed(s) # None, t >= first - 1
             PROVE  History(s, t) # None
  OBVIOUS
<1>1. History(s, t) \in Seq(Samples) /\ Len(History(s, t)) = t
  BY HistoryMeaning
<1>2. History(s, t) \in [1..t -> Samples]
  BY <1>1
<1>3. QED
  BY <1>2, NoneAssumption

\* When no sample fails, each is run to the end and stored.
LEMMA SampleSucceeds ==
  ASSUME PInv, Intact, NEW s \in Samples, RunSample(s)
  PROVE  /\ Resumed(s) # None /\ pc' = pc
         /\ Resumed(s) = IF first = 1 THEN <<>> ELSE state[s][first - 1]
         /\ RunOf(s, last, TRUE)
<1> USE DEF PInv, Inv, Control
<1>1. ~failing /\ suspendBy = "reportState" /\ resumeBy = "readState"
  BY DEF Intact
<1>2. pc = "samples" /\ pc \in Stages
  BY DEF RunSample, Stages
<1>3. Resumed(s) = IF first = 1 THEN <<>> ELSE state[s][first - 1]
  BY <1>1, Names DEF Resumed, TypeOK
<1>4. Resumed(s) # None
  <2>1. CASE first = 1
    <3>1. 0 \in Times /\ <<>> \in [1..0 -> Samples]
      BY NrAssumption DEF Times
    <3>2. QED
      BY <1>3, <2>1, <3>1, NoneAssumption
  <2>2. CASE first # 1
    BY <1>2, <1>3, <2>2 DEF Succeeding, TypeOK
  <2>3. QED
    BY <2>1, <2>2
<1>5. PICK suspended \in BOOLEAN :
        /\ suspended <=> Complete(s, last)
        /\ Runs(s, last, suspended)
        /\ pc' = IF forked \/ suspended THEN pc ELSE "aborted"
  BY <1>1 DEF RunSample
<1>6. suspended = TRUE
  BY <1>1, <1>4, <1>5 DEF Complete
<1>7. QED
  BY <1>3, <1>4, <1>5, <1>6, RunMeaning

\* Without failures every sample has a state to resume from.
LEMMA SucceedingKept ==
  ASSUME PInv, Intact, [Next]_vars
  PROVE  Succeeding'
<1> USE DEF PInv, Inv, Control
<1>1. /\ LastPeriod' = LastPeriod /\ LastPeriod \in Nat /\ period \in 0..LastPeriod
      /\ filterSteps' = filterSteps
  BY PeriodsStay, Steps DEF TypeOK
<1>2. CASE UNCHANGED <<period, first, last, ended, state>> /\ pc' # "period"
            /\ (pc \in Stages \/ pc' \notin Stages) /\ pc' # "premc"
  BY <1>2 DEF Succeeding
<1>3. CASE UNCHANGED vars
  BY <1>3 DEF vars, Succeeding
<1>4. CASE PeriodIsEmpty \/ EndPeriod \/ RunPostmcloop \/ UpdateWeights \/ ResampleAll
           \/ ResampleResidual \/ Draw \/ AllDrawn
  BY <1>2, <1>4 DEF PeriodIsEmpty, EndPeriod, RunPostmcloop, UpdateWeights, ResampleAll,
                    ResampleResidual, Draw, AllDrawn, Stages
<1>5. CASE RunPremcloop
  BY <1>5 DEF RunPremcloop, Succeeding, Stages, InPeriod
<1>6. CASE StartPeriod
  <2>1. /\ pc = "period" /\ pc' = "samples" /\ pc' \in Stages /\ ended' = {}
        /\ state' = state /\ first' = StartOfPeriod /\ period' = period
    BY <1>6 DEF StartPeriod, Stages
  <2>2. ASSUME first' > 1, NEW s \in Samples PROVE state[s][first' - 1] # None
    <3>1. period # 0 /\ period > 0 /\ first' = filterSteps[period] + 1 /\ period \in 1..LastPeriod
      BY <1>1, <2>1, <2>2 DEF StartOfPeriod
    <3>2. filterSteps[period] \in Nat
      BY <3>1, Steps
    <3>3. first' - 1 = last
      BY <2>1, <3>1, <3>2 DEF InPeriod
    <3>4. QED
      BY <2>1, <3>1, <3>3 DEF Succeeding
  <2>3. QED
    BY <2>1, <2>2 DEF Succeeding
<1>7. CASE CloneData
  <2>1. /\ period' = period + 1 /\ pc' = "period" /\ ended' = ended /\ last' = last
        /\ pc = "clone" /\ pc \in Stages
        /\ clones \in [Samples -> Nat] /\ Total(clones) = NrSamples
    BY <1>7 DEF CloneData, Choosing, Stages
  <2>2. \A s \in Samples : Source(clones, s) \in Samples /\ state'[s] = state[Source(clones, s)]
    BY <1>7, <2>1, SourceMeaning DEF CloneData
  <2>3. ended = Samples
    BY <2>1 DEF InPeriod, Stages
  <2>4. \A s \in Samples : state'[s][last] # None
    BY <2>1, <2>2, <2>3 DEF Succeeding
  <2>5. QED
    BY <1>1, <2>1, <2>3, <2>4 DEF Succeeding, Stages
<1>8. ASSUME NEW s \in Samples, RunSample(s) PROVE Succeeding'
  <2>1. /\ Resumed(s) # None /\ pc' = pc /\ RunOf(s, last, TRUE)
        /\ pc = "samples" /\ pc \in Stages /\ ended' = ended \cup {s}
        /\ UNCHANGED <<period, first, last>>
    BY <1>8, SampleSucceeds DEF RunSample, Stages
  <2>2. /\ last \in Times /\ first \in Nat /\ last \in Nat /\ first <= last
        /\ first > 1 => first - 1 \in Times /\ first - 1 # last
    BY <2>1, NrAssumption DEF TypeOK, Times, InPeriod
  <2>3. last >= first - 1
    BY <2>2
  <2>4. History(s, last) # None
    BY <2>1, <2>2, <2>3, HistoriesAreFiles
  <2>5. \A r \in ended' : state'[r][last] # None
    <3>1. \A r \in ended : r \in Samples
      BY DEF TypeOK
    <3>2. QED
      BY <2>1, <2>2, <2>4, <3>1 DEF RunOf, Succeeding
  <2>6. first > 1 => \A r \in Samples : state'[r][first - 1] # None
    BY <2>1, <2>2 DEF RunOf, Succeeding
  <2>7. QED
    BY <2>1, <2>5, <2>6 DEF Succeeding
<1>9. QED
  BY <1>3, <1>4, <1>5, <1>6, <1>7, <1>8 DEF Next

\* The invariant of the population is inductive.
LEMMA InductivePopulation == Filtering /\ [Next]_vars => Filtering' /\ (Intact' <=> Intact)
<1> SUFFICES ASSUME Filtering, [Next]_vars PROVE Filtering' /\ (Intact' <=> Intact)
  OBVIOUS
<1>1. Intact' <=> Intact
  BY SetupStays DEF Intact, setup
<1>2. Inv'
  BY Inductive DEF Filtering
<1>3. Cleared' /\ Weighted'
  BY ClearedKept, WeightedKept
<1>4. Intact => PInv
  BY DEF Filtering, PInv
<1>5. Intact => Succeeding'
  BY <1>4, SucceedingKept
<1>6. QED
  BY <1>1, <1>2, <1>3, <1>5 DEF Filtering

\* What the state is for the population.
Bars ==
  /\ pc = "premc" \/ (pc = "period" /\ period = 0) =>
       particleBar = [s \in Samples |-> <<>>] /\ untilBar = 0
  /\ pc = "period" /\ period > 0 =>
       /\ particleBar = [s \in Samples |-> state[s][last]] /\ untilBar = last
       /\ \A s \in Samples : state[s][last] \in Seq(Samples) /\ Len(state[s][last]) = last
  /\ pc \in {"weights", "clone"} =>
       /\ particleBar = [s \in Samples |-> state[s][last]] /\ untilBar = last
       /\ \A s \in Samples : state[s][last] \in Seq(Samples) /\ Len(state[s][last]) = last
  /\ pc = "samples" =>
       /\ untilBar = last
       /\ particleBar =
            [s \in Samples |->
               IF s \in ended THEN state[s][last]
               ELSE IF first = 1 THEN <<>> ELSE state[s][first - 1]]
  /\ pc \notin {"resample", "draw", "clone", "aborted"} => weightBar = <<>>
  /\ pc \in {"resample", "draw", "clone"} => weightBar = weights

\* The refinement mapping, stage by stage.
LEMMA BarsMeaning == PInv => Bars
<1> SUFFICES ASSUME PInv PROVE Bars
  OBVIOUS
<1> USE DEF PInv, Inv, Control, Bars
<1>1. last \in Times /\ last # 0
  BY NrAssumption DEF TypeOK, Times
<1>2. \A s \in Samples :
        state[s][last] # None =>
          state[s][last] \in Seq(Samples) /\ Len(state[s][last]) = last
  BY <1>1 DEF TypeOK, NoGaps
<1>3. CASE pc = "premc" \/ (pc = "period" /\ period = 0)
  <2>1. ended = {} /\ first = 1 /\ clones = <<>>
    BY <1>3 DEF Succeeding, Cleared
  <2>2. QED
    BY <1>3, <2>1 DEF particleBar, untilBar, weightBar
<1>4. CASE pc = "period" /\ period > 0
  <2>1. ended = Samples /\ clones = <<>> /\ \A s \in Samples : state[s][last] # None
    BY <1>4 DEF Succeeding, Cleared
  <2>2. QED
    BY <1>2, <1>4, <2>1 DEF particleBar, untilBar, weightBar
<1>5. CASE pc \in {"weights", "resample", "draw", "clone"}
  <2>1. ended = Samples /\ \A s \in Samples : state[s][last] # None
    BY <1>5 DEF Succeeding, InPeriod, Stages
  <2>2. weightBar = IF pc = "weights" THEN <<>> ELSE weights
    BY <1>5 DEF weightBar, Cleared
  <2>3. QED
    BY <1>2, <1>5, <2>1, <2>2 DEF particleBar, untilBar
<1>6. CASE pc = "samples"
  BY <1>6 DEF particleBar, untilBar, weightBar, Cleared
<1>7. CASE pc \in {"postmc", "done", "aborted"}
  BY <1>7 DEF weightBar, Cleared
<1>8. period = 0 \/ period > 0
  BY DEF TypeOK
<1>9. QED
  BY <1>3, <1>4, <1>5, <1>6, <1>7, <1>8 DEF TypeOK, Stages

\* The same after a step.
LEMMA BarsNext == PInv' => Bars'
BY BarsMeaning, PTL

\* The initial states are those of a population.
LEMMA InitImplements == Init => P!Init
BY DEF Init, P!Init, particleBar, untilBar, weightBar

\* The start of a period is a new target.
LEMMA TargetStep == PInv /\ PInv' /\ StartPeriod => P!Target
<1> SUFFICES ASSUME PInv, PInv', StartPeriod PROVE P!Target
  OBVIOUS
<1> USE DEF PInv, Inv, Control
<1>1. /\ pc = "period" /\ pc' = "samples" /\ ended' = {} /\ state' = state /\ period' = period
      /\ first' = StartOfPeriod /\ last' = EndOfPeriod /\ StartOfPeriod <= EndOfPeriod
  BY DEF StartPeriod
<1>2. /\ untilBar' = last' /\ weightBar' = <<>> /\ weightBar = <<>>
      /\ particleBar' =
           [s \in Samples |-> IF first' = 1 THEN <<>> ELSE state[s][first' - 1]]
  BY <1>1, BarsMeaning, BarsNext DEF Bars
<1>3. /\ last' \in 1..NrTimeSteps /\ first' \in Nat /\ NrTimeSteps \in Nat /\ first' <= last'
  BY <1>1, NrAssumption DEF TypeOK
<1>4. CASE period = 0
  <2>1. first' = 1
    BY <1>1, <1>4 DEF StartOfPeriod
  <2>2. untilBar = 0 /\ particleBar = [s \in Samples |-> <<>>]
    BY <1>1, <1>4, BarsMeaning, BarsNext DEF Bars
  <2>3. \A s \in Samples : P!Carried(s)
    BY <2>2 DEF P!Carried
  <2>4. particleBar' = particleBar
    BY <1>2, <2>1, <2>2
  <2>5. QED
    BY <1>2, <1>3, <2>2, <2>3, <2>4 DEF P!Target
<1>5. CASE period > 0
  <2>1. /\ untilBar = last /\ particleBar = [s \in Samples |-> state[s][last]]
        /\ \A s \in Samples : Len(state[s][last]) = last
    BY <1>1, <1>5, BarsMeaning, BarsNext DEF Bars
  <2>2. period \in 1..LastPeriod /\ last = filterSteps[period] /\ last \in 1..NrTimeSteps
    BY <1>1, <1>5, Steps DEF InPeriod, TypeOK
  <2>3. first' = last + 1
    BY <1>1, <1>5, <2>2 DEF StartOfPeriod
  <2>4. first' # 1 /\ first' - 1 = last /\ last' \in (last + 1)..NrTimeSteps
    BY <1>3, <2>2, <2>3
  <2>5. \A s \in Samples : P!Carried(s)
    BY <2>1 DEF P!Carried
  <2>6. particleBar' = particleBar
    BY <1>2, <2>1, <2>4
  <2>7. QED
    BY <1>2, <2>1, <2>4, <2>5, <2>6 DEF P!Target
<1>6. period = 0 \/ period > 0
  BY DEF TypeOK
<1>7. QED
  BY <1>4, <1>5, <1>6

\* A sample that ends is a particle that was carried on.
LEMMA CarryStep ==
  ASSUME PInv, Intact, PInv', NEW s \in Samples, RunSample(s)
  PROVE  P!Carry(s)
<1> USE DEF PInv, Inv, Control
<1>1. /\ pc = "samples" /\ pc \in Stages /\ pc' = "samples" /\ s \notin ended
      /\ ended' = ended \cup {s} /\ first' = first /\ last' = last
      /\ Resumed(s) # None /\ RunOf(s, last, TRUE)
      /\ Resumed(s) = IF first = 1 THEN <<>> ELSE state[s][first - 1]
  BY SampleSucceeds DEF RunSample, Stages
<1>2. /\ first \in Nat /\ last \in Nat /\ last \in Times /\ 1 <= first /\ first <= last
      /\ first # 1 => first - 1 \in Times /\ first - 1 # last
  <2>1. first <= last
    BY <1>1 DEF InPeriod
  <2>2. first \in 1..NrTimeSteps /\ last \in 1..NrTimeSteps
    BY DEF TypeOK
  <2>3. QED
    BY <2>1, <2>2, NrAssumption DEF Times
<1>3. /\ untilBar = last /\ untilBar' = last /\ weightBar = <<>> /\ weightBar' = <<>>
      /\ particleBar =
           [r \in Samples |-> IF r \in ended THEN state[r][last]
                              ELSE IF first = 1 THEN <<>> ELSE state[r][first - 1]]
      /\ particleBar' =
           [r \in Samples |-> IF r \in ended' THEN state'[r][last]
                              ELSE IF first = 1 THEN <<>> ELSE state'[r][first - 1]]
  BY <1>1, BarsMeaning, BarsNext DEF Bars
<1>4. particleBar[s] = Resumed(s) /\ Len(Resumed(s)) = first - 1
  BY <1>1, <1>3, HistoryMeaning
<1>5. ~P!Carried(s)
  BY <1>2, <1>3, <1>4 DEF P!Carried
<1>6. particleBar'[s] = Resumed(s) \o [k \in 1..(last - (first - 1)) |-> s]
  <2>1. state'[s][last] = History(s, last)
    BY <1>1, <1>2 DEF RunOf
  <2>2. last + 1 - first = last - (first - 1)
    BY <1>2
  <2>3. QED
    BY <1>1, <1>3, <2>1, <2>2 DEF History
<1>7. \A r \in Samples : r # s => particleBar'[r] = particleBar[r]
  BY <1>1, <1>2, <1>3 DEF RunOf
<1>8. particleBar' = [particleBar EXCEPT ![s] = Resumed(s) \o [k \in 1..(last - (first - 1)) |-> s]]
  BY <1>3, <1>6, <1>7
<1>9. QED
  BY <1>3, <1>4, <1>5, <1>8 DEF P!Carry

\* The weights of the samples are those of the particles.
LEMMA WeighStep == PInv /\ PInv' /\ UpdateWeights => P!Weigh \/ UNCHANGED P!vars
<1> SUFFICES ASSUME PInv, PInv', UpdateWeights PROVE P!Weigh \/ UNCHANGED P!vars
  OBVIOUS
<1> USE DEF PInv, Inv, Control
<1>1. pc = "weights" /\ UNCHANGED <<period, first, last, ended, clones, state>>
  BY DEF UpdateWeights
<1>2. particleBar' = particleBar /\ untilBar' = untilBar
  BY <1>1 DEF UpdateWeights, particleBar, untilBar
<1>3. CASE pc' = "resample"
  <2>1. weights' \in [Samples -> Nat]
    BY DEF TypeOK
  <2>2. weightBar = <<>> /\ weightBar' = weights'
    BY <1>1, <1>3, BarsMeaning, BarsNext DEF Bars
  <2>3. last \in Nat /\ last > 0
    BY NrAssumption DEF TypeOK
  <2>4. /\ untilBar = last /\ particleBar = [s \in Samples |-> state[s][last]]
        /\ \A s \in Samples : Len(state[s][last]) = last
    BY <1>1, BarsMeaning DEF Bars
  <2>5. \A s \in Samples : Len(particleBar[s]) = last
    BY <2>4
  <2>6. QED
    BY <1>2, <2>1, <2>2, <2>3, <2>4, <2>5 DEF P!Weigh, P!Carried
<1>4. CASE pc' = "aborted"
  <2>1. weights' = weights
    BY <1>4 DEF UpdateWeights
  <2>2. weightBar' = weightBar
    BY <1>1, <1>4, <2>1 DEF weightBar
  <2>3. QED
    BY <1>2, <2>2 DEF P!vars
<1>5. QED
  BY <1>3, <1>4 DEF UpdateWeights

\* A cloning is a resampling by the sources of the copies.
LEMMA ResampleStep == PInv /\ PInv' /\ CloneData => P!Resample
<1> SUFFICES ASSUME PInv, PInv', CloneData PROVE P!Resample
  OBVIOUS
<1> USE DEF PInv, Inv, Control
<1>1. /\ pc = "clone" /\ pc' = "period" /\ period' = period + 1 /\ last' = last
      /\ clones \in [Samples -> Nat] /\ Total(clones) = NrSamples
      /\ weights \in [Samples -> Nat] /\ period \in Nat
  BY Steps DEF CloneData, Choosing, TypeOK
<1> DEFINE parent == [s \in Samples |-> Source(clones, s)]
<1>2. \A s \in Samples :
        /\ Source(clones, s) \in Samples /\ clones[Source(clones, s)] > 0
        /\ clones[s] > 0 => Source(clones, s) = s
  BY <1>1, SourceMeaning
<1>3. /\ parent \in [Samples -> Samples]
      /\ \A s \in Samples : parent[s] = Source(clones, s)
  BY <1>2
<1>4. \A s \in Samples : parent[parent[s]] = parent[s]
  BY <1>2, <1>3
<1>5. \A s \in Samples : state'[s] = state[parent[s]]
  BY <1>3 DEF CloneData
<1>6. ASSUME NEW s \in Samples
      PROVE  weights[parent[s]] > 0 \/ \A r \in Samples : weights[r] = 0
  <2>1. NormaliseWeights(weights)[parent[s]] > 0
    BY <1>1, <1>2, <1>3 DEF Weighted
  <2>2. QED
    BY <1>1, <1>3, <2>1, NormalisedMeaning
<1>7. /\ weightBar = weights /\ weightBar' = <<>> /\ untilBar' = untilBar
      /\ particleBar = [s \in Samples |-> state[s][last]]
      /\ particleBar' = [s \in Samples |-> state'[s][last]]
  <2>1. period' > 0
    BY <1>1
  <2>2. QED
    BY <1>1, <2>1, BarsMeaning, BarsNext DEF Bars
<1>8. particleBar' = [s \in Samples |-> particleBar[parent[s]]]
  BY <1>3, <1>5, <1>7
<1>9. weights # <<>>
  BY <1>1, SamplesAreNumbers
<1> HIDE DEF parent
<1>10. QED
  BY <1>3, <1>4, <1>6, <1>7, <1>8, <1>9 DEF P!Resample

\* The other steps are not of the population.
LEMMA StutterStep ==
  PInv /\ PInv' /\ (RunPremcloop \/ PeriodIsEmpty \/ EndPeriod \/ ResampleAll
                    \/ ResampleResidual \/ Draw \/ AllDrawn \/ RunPostmcloop
                    \/ UNCHANGED vars)
    => UNCHANGED P!vars
<1> SUFFICES ASSUME PInv, PInv',
                    RunPremcloop \/ PeriodIsEmpty \/ EndPeriod \/ ResampleAll
                    \/ ResampleResidual \/ Draw \/ AllDrawn \/ RunPostmcloop
                    \/ UNCHANGED vars
             PROVE  UNCHANGED <<particleBar, untilBar, weightBar>>
  BY DEF P!vars
<1> USE DEF PInv, Inv, Control
<1>1. CASE RunPremcloop
  <2>1. pc = "premc" /\ pc' = "period" /\ period' = 0
    BY <1>1 DEF RunPremcloop, InPeriod
  <2>2. QED
    BY <2>1, BarsMeaning, BarsNext DEF Bars
<1>2. CASE UNCHANGED vars
  BY <1>2 DEF vars, particleBar, untilBar, weightBar
<1>3. CASE PeriodIsEmpty
  <2>1. pc = "period" /\ pc' = "aborted" /\ StartOfPeriod > EndOfPeriod
    BY <1>3 DEF PeriodIsEmpty
  <2>2. period # 0
    <3>1. ASSUME period = 0 PROVE FALSE
      <4>1. LastPeriod # 0 /\ 1 \in 1..LastPeriod /\ StartOfPeriod = 1
        BY <3>1, Steps DEF StartOfPeriod
      <4>2. EndOfPeriod = filterSteps[1] /\ filterSteps[1] \in 1..NrTimeSteps
        BY <3>1, <4>1, Steps DEF EndOfPeriod
      <4>3. QED
        BY <2>1, <4>1, <4>2
    <3>2. QED
      BY <3>1
  <2>3. QED
    BY <1>3, <2>1, <2>2 DEF PeriodIsEmpty, particleBar, untilBar, weightBar
<1>4. CASE EndPeriod \/ AllDrawn \/ RunPostmcloop
  BY <1>4 DEF EndPeriod, AllDrawn, RunPostmcloop, particleBar, untilBar, weightBar
<1>5. CASE ResampleAll \/ ResampleResidual \/ Draw
  <2>1. pc \in {"resample", "draw"} /\ pc' = "draw" /\ weights' = weights
        /\ UNCHANGED <<period, first, last, ended, state>>
    BY <1>5 DEF ResampleAll, ResampleResidual, Draw
  <2>2. weightBar' = weights' /\ weightBar = weights
    BY <2>1, BarsMeaning, BarsNext DEF Bars
  <2>3. QED
    BY <2>1, <2>2 DEF particleBar, untilBar
<1>6. QED
  BY <1>1, <1>2, <1>3, <1>4, <1>5

\* Every step is one of a population.
LEMMA StepImplements ==
  Filtering /\ Filtering' /\ [Next]_vars => [Intact => P!Next]_(P!vars)
<1> SUFFICES ASSUME Filtering, Filtering', [Next]_vars, Intact PROVE [P!Next]_(P!vars)
  OBVIOUS
<1> Intact' /\ PInv /\ PInv'
  BY InductivePopulation DEF Filtering, PInv
<1>1. CASE StartPeriod
  BY <1>1, TargetStep DEF P!Next
<1>2. ASSUME NEW s \in Samples, RunSample(s) PROVE P!Next
  BY <1>2, CarryStep DEF P!Next
<1>3. CASE UpdateWeights
  BY <1>3, WeighStep DEF P!Next
<1>4. CASE CloneData
  BY <1>4, ResampleStep DEF P!Next
<1>5. CASE RunPremcloop \/ PeriodIsEmpty \/ EndPeriod \/ ResampleAll \/ ResampleResidual
           \/ Draw \/ AllDrawn \/ RunPostmcloop \/ UNCHANGED vars
  BY <1>5, StutterStep
<1>6. QED
  BY <1>1, <1>2, <1>3, <1>4, <1>5 DEF Next

\* As long as no sample fails, and models suspend with reportState and resume with
\* readState, the periods, samples and clonings of the framework are the steps of
\* Population, the particle filter of the documentation: each place gets the
\* particle of one with a weight, and one that is copied keeps its own.
THEOREM PopulationImplemented == Spec => ImplementsPopulation
<1>1. Spec => []Filtering
  BY InitPopulation, InductivePopulation, PTL DEF Spec
<1>2. Filtering /\ Filtering' /\ [Next]_vars => [Intact => P!Next]_(P!vars)
  BY StepImplements
<1>3. Init => (Intact => P!Init)
  BY InitImplements
<1>4. QED
  BY <1>1, <1>2, <1>3, PTL DEF Spec, ImplementsPopulation
================================================================================
