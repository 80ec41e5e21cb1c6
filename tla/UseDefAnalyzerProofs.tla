-------------------------- MODULE UseDefAnalyzerProofs -------------------------
(***************************************************************************)
(* Proofs about the use-definition analysis, for every control flow graph  *)
(* that is Structured.                                                     *)
(*                                                                         *)
(* Recording is the inductive invariant of the visit: before node j is     *)
(* visited, the chain of a name lists the events of the nodes before j in  *)
(* the order At and Rank give them, the simulated stack holds the          *)
(* parameters that are not consumed yet at the depths at which they were   *)
(* pushed, and the nesting lists the blocks that are open.  WellNested and *)
(* InputsExact follow from it.                                             *)
(*                                                                         *)
(* The passes are compared with the least solution of the dataflow         *)
(* equations.  Marking says that a mark never says more than that solution *)
(* (Sound); when a pass adds nothing the places that the marks reach solve *)
(* the equations, and hence have every place where the name is live        *)
(* (Settles).  Events before the opening of a name, the Def of its         *)
(* prologue, stand for nothing and are left out of both.                   *)
(***************************************************************************)
EXTENDS UseDefInvariants, FiniteSetTheorems, SequenceTheorems, WellFoundedInduction, TLAPS

-------------------------------------------------------------------------------
(* Numbers and sequences *)

\* A set of numbers that is not empty has a smallest one.
LEMMA Smallest ==
  ASSUME NEW S \in SUBSET Nat, S # {}
  PROVE  \E i \in S : \A j \in S : i <= j
<1>2. SUFFICES ASSUME \A i \in S : \E j \in S : ~(i <= j)
               PROVE  FALSE
  OBVIOUS
<1> DEFINE R == OpToRel(<, Nat)
<1>3. IsWellFoundedOn(R, Nat)
  BY NatLessThanWellFounded
<1>4. \A x, y : x \in Nat /\ y \in Nat /\ y < x => <<y, x>> \in R
  BY DEF OpToRel
<1> HIDE DEF R
<1>5. S \subseteq Nat
  OBVIOUS
<1>6. PICK x \in S : \A y \in S : ~(<<y, x>> \in R)
  BY <1>3, <1>5, WFMin
<1>7. \A y \in S : ~(y < x)
  BY <1>4, <1>5, <1>6
<1>8. QED
  BY <1>2, <1>5, <1>7

\* What holds of the first number, and of each number after one that it holds
\* of, holds of all.
LEMMA Climb ==
  ASSUME NEW m \in Int, NEW n \in Int, NEW T,
         m <= n => m \in T,
         \A i \in m .. n : i < n /\ i \in T => i + 1 \in T
  PROVE  \A i \in m .. n : i \in T
<1> SUFFICES ASSUME NEW j \in m .. n, j \notin T
             PROVE  FALSE
  OBVIOUS
<1> DEFINE S == {i \in Nat : m + i <= n /\ m + i \notin T}
<1>1. S \in SUBSET Nat /\ j - m \in S
  OBVIOUS
<1>2. PICK i \in S : \A k \in S : i <= k
  BY <1>1, Smallest
<1>3. i # 0
  OBVIOUS
<1>4. i - 1 \in Nat /\ i - 1 \notin S
  BY <1>2, <1>3
<1>5. m + (i - 1) \in T /\ m + (i - 1) \in m .. n /\ m + (i - 1) < n
  BY <1>4
<1>6. (m + (i - 1)) + 1 \in T
  BY <1>5
<1>7. QED
  BY <1>6

\* The same from the last number to the first.
LEMMA Descend ==
  ASSUME NEW m \in Int, NEW n \in Int, NEW T,
         m <= n => n \in T,
         \A i \in m .. n : m < i /\ i \in T => i - 1 \in T
  PROVE  \A i \in m .. n : i \in T
<1> SUFFICES ASSUME NEW j \in m .. n, j \notin T
             PROVE  FALSE
  OBVIOUS
<1> DEFINE U == {i \in m .. n : (n - i) + m \in T}
<1>1. m <= n => m \in U
  OBVIOUS
<1>2. ASSUME NEW i \in m .. n, i < n, i \in U
      PROVE  i + 1 \in U
  <2>1. (n - i) + m \in T /\ (n - i) + m \in m .. n /\ m < (n - i) + m
    BY <1>2
  <2>2. ((n - i) + m) - 1 \in T
    BY <2>1
  <2>3. (n - (i + 1)) + m = ((n - i) + m) - 1 /\ i + 1 \in m .. n
    BY <1>2
  <2>4. QED
    BY <2>2, <2>3
<1> HIDE DEF U
<1>3. \A i \in m .. n : i \in U
  BY <1>1, <1>2, Climb
<1>4. (n - j) + m \in m .. n
  OBVIOUS
<1>5. (n - ((n - j) + m)) + m = j
  OBVIOUS
<1>6. QED
  BY <1>3, <1>4, <1>5 DEF U

-------------------------------------------------------------------------------
(* The stack and the blocks of a control flow graph *)

\* The parts of a well formed graph.
LEMMA StructuredParts ==
  ASSUME NEW c, Structured(c)
  PROVE  /\ Len(c) \in Nat \ {0} /\ DOMAIN c = 1 .. Len(c)
         /\ \A i \in 1 .. Len(c) : NodeOK(c, i)
BY DEF Structured

\* A node takes and leaves a number of entries.
LEMMA PopsNat ==
  ASSUME NEW c, Structured(c), NEW i \in 1 .. Len(c)
  PROVE  Pops(c[i]) \in Nat /\ Pushes(c[i]) \in Nat
<1>1. c[i].k \in Nat /\ c[i].r \in Nat /\ Len(c[i].lhs) \in Nat
  BY StructuredParts DEF NodeOK
<1>2. Pops(c[i]) \in Nat
  BY <1>1 DEF Pops
<1>3. Pushes(c[i]) \in Nat
  BY <1>1 DEF Pushes
<1>4. QED
  BY <1>2, <1>3

\* The depth of the stack is what the nodes before leave of it.
LEMMA DepthSteps ==
  ASSUME NEW c, Len(c) \in Nat
  PROVE  Depth(c) = [j \in 1 .. Len(c) + 1 |->
                       IF j = 1 THEN 0
                       ELSE (Depth(c)[j - 1] - Pops(c[j - 1])) + Pushes(c[j - 1])]
<1> DEFINE n == Len(c) + 1
           F(f, k) == [j \in 1 .. k |->
                         IF j = 1 THEN 0
                         ELSE (f[j - 1] - Pops(c[j - 1])) + Pushes(c[j - 1])]
           T == {k \in 1 .. n : \E f : f = F(f, k)}
<1>1. 1 \in T
  <2> DEFINE f == [j \in 1 .. 1 |-> 0]
  <2>1. f = F(f, 1)
    OBVIOUS
  <2> HIDE DEF f, F
  <2>2. QED
    BY <2>1
<1>2. ASSUME NEW k \in 1 .. n, k < n, k \in T
      PROVE  k + 1 \in T
  <2>1. PICK f : f = F(f, k)
    BY <1>2
  <2> DEFINE x == (f[k] - Pops(c[k])) + Pushes(c[k])
             g == [j \in 1 .. k + 1 |-> IF j = k + 1 THEN x ELSE f[j]]
  <2>2. \A j \in 1 .. k + 1 : g[j] = F(g, k + 1)[j]
    <3> SUFFICES ASSUME NEW j \in 1 .. k + 1
                 PROVE  g[j] = F(g, k + 1)[j]
      OBVIOUS
    <3>1. CASE j = k + 1
      <4>1. j - 1 = k /\ j # 1 /\ g[k] = f[k]
        BY <3>1
      <4>2. QED
        BY <3>1, <4>1
    <3>2. CASE j # k + 1
      <4>1. j \in 1 .. k /\ g[j] = f[j]
        BY <3>2
      <4>2. f[j] = F(f, k)[j]
        BY <2>1
      <4>3. j # 1 => g[j - 1] = f[j - 1]
        BY <4>1
      <4>4. QED
        BY <4>1, <4>2, <4>3
    <3>3. QED
      BY <3>1, <3>2
  <2>3. g = F(g, k + 1)
    <3>1. DOMAIN g = 1 .. k + 1 /\ g = [j \in 1 .. k + 1 |-> g[j]]
      OBVIOUS
    <3> HIDE DEF g
    <3>2. QED
      BY <2>2, <3>1
  <2> HIDE DEF g, F
  <2>4. QED
    BY <1>2, <2>3
<1>0. n \in Int /\ 1 <= n
  OBVIOUS
<1> HIDE DEF T, n
<1>3. n \in T
  <2>1. \A i \in 1 .. n : i \in T
    BY <1>0, <1>1, <1>2, Climb
  <2>2. QED
    BY <1>0, <2>1
<1>4. PICK f : f = F(f, n)
  <2> HIDE DEF F
  <2>1. QED
    BY <1>3 DEF T
<1>5. Depth(c) = CHOOSE f1 : f1 = F(f1, n)
  BY DEF Depth, n
<1>6. Depth(c) = F(Depth(c), n)
  <2> HIDE DEF n, F
  <2>1. QED
    BY <1>4, <1>5
<1>7. QED
  BY <1>6 DEF n

\* The stack is never shorter than what a node takes.
LEMMA DepthFacts ==
  ASSUME NEW c, Structured(c)
  PROVE  /\ Depth(c)[1] = 0 /\ Depth(c)[Len(c) + 1] = 0
         /\ \A i \in 1 .. Len(c) + 1 : Depth(c)[i] \in Nat
         /\ \A i \in 1 .. Len(c) :
              /\ Pops(c[i]) <= Depth(c)[i]
              /\ Depth(c)[i + 1] = (Depth(c)[i] - Pops(c[i])) + Pushes(c[i])
              /\ c[i].op \in {"enter", "jump"} => Depth(c)[i] = 0
<1> DEFINE n == Len(c) + 1
           d == Depth(c)
           T == {i \in 1 .. n : d[i] \in Nat}
<1>0. Len(c) \in Nat \ {0} /\ DOMAIN c = 1 .. Len(c)
  BY StructuredParts
<1>1. d = [j \in 1 .. n |->
             IF j = 1 THEN 0
             ELSE (d[j - 1] - Pops(c[j - 1])) + Pushes(c[j - 1])]
  BY <1>0, DepthSteps
<1>2. /\ \A i \in 1 .. Len(c) :
           /\ Pops(c[i]) <= d[i]
           /\ c[i].op \in {"enter", "jump"} => d[i] = 0
      /\ d[n] = 0
  BY <1>0 DEF Structured, Complete
<1> HIDE DEF d
<1>3. d[1] = 0
  BY <1>0, <1>1
<1>4. \A i \in 1 .. Len(c) : d[i + 1] = (d[i] - Pops(c[i])) + Pushes(c[i])
  <2> SUFFICES ASSUME NEW i \in 1 .. Len(c)
               PROVE  d[i + 1] = (d[i] - Pops(c[i])) + Pushes(c[i])
    OBVIOUS
  <2>1. i + 1 \in 1 .. n /\ i + 1 # 1 /\ (i + 1) - 1 = i
    BY <1>0
  <2>2. QED
    BY <1>1, <2>1
<1>5. \A i \in 1 .. Len(c) : Pops(c[i]) \in Nat /\ Pushes(c[i]) \in Nat
  BY PopsNat
<1>6. ASSUME NEW i \in 1 .. n, i < n, i \in T
      PROVE  i + 1 \in T
  <2>1. i \in 1 .. Len(c)
    BY <1>0, <1>6
  <2>2. d[i] \in Nat /\ Pops(c[i]) <= d[i] /\ Pops(c[i]) \in Nat /\ Pushes(c[i]) \in Nat
    BY <1>2, <1>5, <1>6, <2>1
  <2>3. d[i + 1] \in Nat
    BY <1>4, <2>1, <2>2
  <2>4. QED
    BY <1>0, <1>6, <2>3
<1>7. 1 \in T
  BY <1>0, <1>3
<1>10. n \in Int
  BY <1>0
<1> HIDE DEF T, n
<1>8. \A i \in 1 .. n : i \in T
  BY <1>6, <1>7, <1>10, Climb
<1>9. QED
  BY <1>2, <1>3, <1>4, <1>8 DEF T, d, n

\* The node that takes the value of a parameter off the stack.
LEMMA ConsumerFacts ==
  ASSUME NEW c, Structured(c), NEW i \in ParNodes(c)
  PROVE  /\ i \in 1 .. Len(c) /\ Consumer(c, i) \in i + 1 .. Len(c)
         /\ Depth(c)[Consumer(c, i)] - Pops(c[Consumer(c, i)]) <= Depth(c)[i]
         /\ \A m \in i + 1 .. Consumer(c, i) - 1 : Depth(c)[i] < Depth(c)[m] - Pops(c[m])
         /\ c[Consumer(c, i)].op \in {"nonass", "expr", "ass"}
<1> DEFINE d == Depth(c)
           L == Len(c)
           p(j) == Pops(c[j])
           takers == {j \in i + 1 .. L : d[j] - p(j) <= d[i]}
           T == {j \in 1 .. L + 1 : d[i] < d[j]}
           k == Consumer(c, i)
<1>1. /\ L \in Nat /\ i \in 1 .. L /\ c[i].op = "par"
      /\ d[L + 1] = 0
      /\ \A j \in 1 .. L + 1 : d[j] \in Nat
      /\ \A j \in 1 .. L : /\ p(j) \in Nat /\ Pushes(c[j]) \in Nat /\ p(j) <= d[j]
                           /\ d[j + 1] = (d[j] - p(j)) + Pushes(c[j])
  BY StructuredParts, DepthFacts, PopsNat DEF ParNodes
<1>2. p(i) = 0 /\ Pushes(c[i]) = 1
  BY <1>1 DEF Pops, Pushes
<1>3. k = CHOOSE j \in takers : \A m \in takers : j <= m
  BY DEF Consumer
<1>4. \A j \in 1 .. L : p(j) > 0 => c[j].op \in {"nonass", "expr", "ass"}
  BY <1>1 DEF Pops
<1> HIDE DEF d, p, L, k
<1>5. d[i + 1] = d[i] + 1
  BY <1>1, <1>2
<1>6. ASSUME NEW x \in i + 1 .. L + 1, \A j \in i + 1 .. x - 1 : ~(d[j] - p(j) <= d[i])
      PROVE  d[i] < d[x]
  <2>1. i + 1 \in T
    BY <1>1, <1>5
  <2>2. ASSUME NEW j \in i + 1 .. x, j < x, j \in T
        PROVE  j + 1 \in T
    <3>1. j \in i + 1 .. x - 1 /\ j \in 1 .. L /\ j + 1 \in 1 .. L + 1
      BY <1>1, <2>2
    <3>2. ~(d[j] - p(j) <= d[i])
      BY <1>6, <3>1
    <3>3. d[i] < d[j + 1]
      BY <1>1, <3>1, <3>2
    <3>4. QED
      BY <3>1, <3>3
  <2> HIDE DEF T
  <2>3. i + 1 \in Int /\ x \in Int /\ i + 1 <= x
    BY <1>1
  <2>4. \A j \in i + 1 .. x : j \in T
    BY <2>1, <2>2, <2>3, Climb
  <2>5. x \in T
    BY <2>3, <2>4
  <2>6. QED
    BY <2>5 DEF T
<1>7. takers # {}
  <2> SUFFICES ASSUME takers = {}
               PROVE  FALSE
    OBVIOUS
  <2>1. \A j \in i + 1 .. (L + 1) - 1 : ~(d[j] - p(j) <= d[i])
    BY <1>1
  <2>2. L + 1 \in i + 1 .. L + 1
    BY <1>1
  <2>3. d[i] < d[L + 1]
    BY <1>6, <2>1, <2>2
  <2>4. QED
    BY <1>1, <2>3
<1>8. \E j \in takers : \A m \in takers : j <= m
  <2>1. takers \in SUBSET Nat
    BY <1>1
  <2> HIDE DEF takers
  <2>2. QED
    BY <1>7, <2>1, Smallest
<1>9. k \in takers /\ \A m \in takers : k <= m
  <2> HIDE DEF takers
  <2>1. QED
    BY <1>3, <1>8
<1>10. k \in i + 1 .. L /\ d[k] - p(k) <= d[i]
  BY <1>9
<1>11. \A m \in i + 1 .. k - 1 : ~(d[m] - p(m) <= d[i])
  BY <1>1, <1>9, <1>10
<1>12. d[i] < d[k]
  BY <1>1, <1>6, <1>10, <1>11
<1>13. p(k) > 0
  BY <1>1, <1>10, <1>12
<1>14. c[k].op \in {"nonass", "expr", "ass"}
  BY <1>1, <1>4, <1>10, <1>13
<1>15. \A m \in i + 1 .. k - 1 : d[i] < d[m] - p(m)
  BY <1>1, <1>10, <1>11
<1>16. QED
  BY <1>1, <1>10, <1>14, <1>15 DEF d, p, L, k

\* The first node that takes more than was put on top of the parameter takes it.
LEMMA ConsumerIs ==
  ASSUME NEW c, Structured(c), NEW i \in ParNodes(c), NEW j \in i + 1 .. Len(c),
         j <= Consumer(c, i)
  PROVE  Depth(c)[j] - Pops(c[j]) <= Depth(c)[i] <=> Consumer(c, i) = j
<1> DEFINE d == Depth(c)
           k == Consumer(c, i)
           L == Len(c)
           x == d[j] - Pops(c[j])
<1>1. /\ i \in 1 .. L /\ k \in i + 1 .. L /\ L \in Nat
      /\ d[k] - Pops(c[k]) <= d[i]
      /\ \A m \in i + 1 .. k - 1 : d[i] < d[m] - Pops(c[m])
  BY ConsumerFacts, StructuredParts
<1>2. d[i] \in Nat /\ x \in Int
  <2>1. j \in 1 .. L /\ i \in 1 .. L + 1 /\ j \in 1 .. L + 1
    BY <1>1
  <2>2. d[i] \in Nat /\ d[j] \in Nat
    BY <2>1, DepthFacts
  <2>3. Pops(c[j]) \in Nat
    BY <2>1, PopsNat
  <2>4. QED
    BY <2>2, <2>3
<1> HIDE DEF k, d, L
<1>3. CASE k = j
  <2>1. d[j] - Pops(c[j]) <= d[i]
    BY <1>1, <1>3
  <2>2. QED
    BY <1>3, <2>1 DEF d, k
<1>4. CASE k # j
  <2>1. j \in i + 1 .. k - 1
    BY <1>1, <1>4 DEF k, L
  <2>2. d[i] < x
    BY <1>1, <2>1
  <2> HIDE DEF x
  <2>3. QED
    BY <1>2, <1>4, <2>2 DEF x, k, d
<1>5. QED
  BY <1>3, <1>4

-------------------------------------------------------------------------------
(* Blocks *)

\* No two jump nodes are of one block.
LEMMA JumpUnique ==
  ASSUME NEW c, Structured(c), NEW i \in 1 .. Len(c), NEW j \in 1 .. Len(c),
         c[i].op = "jump", c[j].op = "jump", c[i].blk = c[j].blk
  PROVE  i = j
<1>1. Len(c) \in Nat /\ DOMAIN c = 1 .. Len(c)
  BY StructuredParts
<1>2. \A x, y \in 1 .. Len(c) :
        c[x].op = "jump" /\ c[y].op = "jump" /\ x < y => c[y].blk < c[x].blk \/ x < c[y].blk
  BY <1>1 DEF Structured, BlocksNested
<1>3. c[i].blk \in 1 .. i - 1 /\ c[j].blk \in 1 .. j - 1
  BY StructuredParts DEF NodeOK
<1>4. QED
  BY <1>1, <1>2, <1>3

\* A block has one jump node, of its kind, behind its entrance.
LEMMA ClosingFacts ==
  ASSUME NEW c, Structured(c), NEW b \in Blocks(c)
  PROVE  /\ b \in 1 .. Len(c) /\ c[b].op = "enter" /\ c[b].blk = b
         /\ Closing(c, b) \in b + 1 .. Len(c)
         /\ c[Closing(c, b)].op = "jump" /\ c[Closing(c, b)].blk = b
         /\ c[Closing(c, b)].kind = c[b].kind
<1>1. Len(c) \in Nat /\ b \in 1 .. Len(c) /\ c[b].op = "enter" /\ NodeOK(c, b)
  BY StructuredParts DEF Blocks
<1>2. c[b].blk = b /\ \E j \in 1 .. Len(c) : c[j].op = "jump" /\ c[j].blk = b
  BY <1>1 DEF NodeOK
<1> DEFINE k == Closing(c, b)
<1>3. k \in 1 .. Len(c) /\ c[k].op = "jump" /\ c[k].blk = b
  BY <1>2 DEF Closing
<1> HIDE DEF k
<1>4. NodeOK(c, k)
  BY <1>3, StructuredParts
<1>5. c[k].blk \in 1 .. k - 1 /\ c[c[k].blk].kind = c[k].kind
  BY <1>3, <1>4 DEF NodeOK
<1>6. k \in b + 1 .. Len(c)
  BY <1>1, <1>3, <1>5
<1>7. QED
  BY <1>1, <1>2, <1>3, <1>5, <1>6 DEF k

\* A jump node ends the block that it names.
LEMMA ClosingOfJump ==
  ASSUME NEW c, Structured(c), NEW j \in 1 .. Len(c), c[j].op = "jump"
  PROVE  c[j].blk \in Blocks(c) /\ Closing(c, c[j].blk) = j
<1>1. Len(c) \in Nat /\ NodeOK(c, j)
  BY StructuredParts
<1>2. c[j].blk \in 1 .. j - 1 /\ c[c[j].blk].op = "enter"
  BY <1>1 DEF NodeOK
<1>3. c[j].blk \in Blocks(c)
  BY <1>1, <1>2 DEF Blocks
<1> DEFINE b == c[j].blk
           k == Closing(c, b)
<1>4. k \in 1 .. Len(c) /\ c[k].op = "jump" /\ c[k].blk = b
  BY <1>1, <1>3, ClosingFacts
<1> HIDE DEF k
<1>5. k = j
  BY <1>4, JumpUnique
<1>6. QED
  BY <1>3, <1>5 DEF k

\* Of two blocks one is behind the other or in it.
LEMMA ClosingNested ==
  ASSUME NEW c, Structured(c), NEW b1 \in Blocks(c), NEW b2 \in Blocks(c), b1 < b2
  PROVE  Closing(c, b1) < b2 \/ Closing(c, b2) < Closing(c, b1)
<1> DEFINE j1 == Closing(c, b1)
           j2 == Closing(c, b2)
<1>1. /\ Len(c) \in Nat /\ DOMAIN c = 1 .. Len(c)
      /\ b1 \in 1 .. Len(c) /\ b2 \in 1 .. Len(c)
      /\ j1 \in b1 + 1 .. Len(c) /\ j2 \in b2 + 1 .. Len(c)
      /\ c[j1].op = "jump" /\ c[j2].op = "jump" /\ c[j1].blk = b1 /\ c[j2].blk = b2
  BY StructuredParts, ClosingFacts
<1> HIDE DEF j1, j2
<1>2. \A x, y \in 1 .. Len(c) :
        c[x].op = "jump" /\ c[y].op = "jump" /\ x < y => c[y].blk < c[x].blk \/ x < c[y].blk
  BY <1>1 DEF Structured, BlocksNested
<1>3. j1 # j2
  BY <1>1
<1>4. j1 \in 1 .. Len(c) /\ j2 \in 1 .. Len(c)
  BY <1>1
<1>5. j1 < j2 => b2 < b1 \/ j1 < b2
  BY <1>1, <1>2, <1>4
<1>6. j1 < b2 \/ j2 < j1
  BY <1>1, <1>3, <1>4, <1>5
<1>7. QED
  BY <1>6 DEF j1, j2

-------------------------------------------------------------------------------
(* Events and their order *)

\* The order is strict.
LEMMA EarlierStrict ==
  ASSUME NEW c, NEW d, NEW E, Placed(c, d, E), NEW e \in E, NEW f \in E
  PROVE  /\ ~Earlier(c, d, e, e)
         /\ Earlier(c, d, e, f) => ~Earlier(c, d, f, e)
         /\ Earlier(c, d, e, f) => e # f
         /\ \A g \in E : Earlier(c, d, e, f) /\ Earlier(c, d, f, g) => Earlier(c, d, e, g)
<1>1. \A g \in E : At(c, d, g) \in Int /\ Rank(c, g) \in Int
  BY DEF Placed
<1>2. QED
  BY <1>1 DEF Earlier

\* What is later than all events comes behind them.
LEMMA ListsAppend ==
  ASSUME NEW c, NEW d, NEW s, NEW E, Lists(c, d, s, E), NEW e,
         \A f \in E : Earlier(c, d, f, e)
  PROVE  Lists(c, d, Append(s, e), E \cup {e})
<1> DEFINE t == Append(s, e)
           F == E \cup {e}
<1>1. s \in Seq(E) /\ s \in Seq(F) /\ Len(s) \in Nat /\ \A i \in 1 .. Len(s) : s[i] \in E
  <2>1. s \in Seq(E)
    BY DEF Lists
  <2>2. QED
    BY <2>1, SeqMonotonic, LenProperties, ElementOfSeq
<1>2. /\ t \in Seq(F) /\ Len(t) = Len(s) + 1
      /\ \A i \in 1 .. Len(s) : t[i] = s[i]
      /\ t[Len(s) + 1] = e
  BY <1>1, AppendProperties
<1> DEFINE n == Len(s)
<1> HIDE DEF t, n
<1>3. \A g \in F : \E i \in 1 .. Len(t) : t[i] = g
  <2>1. \A g \in E : \E i \in 1 .. n : s[i] = g
    BY DEF Lists, n
  <2>2. \A g \in E : \E i \in 1 .. n : t[i] = g
    BY <1>2, <2>1 DEF n
  <2>3. n \in Nat /\ Len(t) = n + 1 /\ t[n + 1] = e
    BY <1>1, <1>2 DEF n
  <2>4. QED
    BY <2>2, <2>3
<1>4. ASSUME NEW i \in 1 .. Len(t), NEW j \in 1 .. Len(t), i < j
      PROVE  Earlier(c, d, t[i], t[j])
  <2>1. n \in Nat /\ Len(t) = n + 1 /\ t[n + 1] = e
        /\ (\A k \in 1 .. n : t[k] = s[k] /\ s[k] \in E)
    BY <1>1, <1>2 DEF n
  <2>2. i \in 1 .. n
    BY <1>4, <2>1
  <2>3. CASE j = n + 1
    BY <2>1, <2>2, <2>3
  <2>4. CASE j # n + 1
    <3>1. j \in 1 .. n
      BY <2>1, <2>4
    <3>2. Earlier(c, d, s[i], s[j])
      BY <1>4, <2>2, <3>1 DEF Lists, n
    <3>3. QED
      BY <2>1, <2>2, <3>1, <3>2
  <2>5. QED
    BY <2>3, <2>4
<1>5. QED
  BY <1>2, <1>3, <1>4 DEF Lists, t

\* The last event is the latest, and without it the others are listed.
LEMMA ListsFront ==
  ASSUME NEW c, NEW d, NEW s, NEW E, Lists(c, d, s, E), Placed(c, d, E), s # << >>
  PROVE  /\ Last(s) \in E
         /\ \A f \in E : f = Last(s) \/ Earlier(c, d, f, Last(s))
         /\ Lists(c, d, Front(s), E \ {Last(s)})
<1> DEFINE n == Len(s)
           t == Front(s)
           e == Last(s)
           F == E \ {e}
<1>1. /\ s \in Seq(E) /\ n \in Nat \ {0} /\ e = s[n]
      /\ \A i \in 1 .. n : s[i] \in E
      /\ \A i, j \in 1 .. n : i < j => Earlier(c, d, s[i], s[j])
      /\ \A f \in E : \E i \in 1 .. n : s[i] = f
  <2>1. s \in Seq(E)
    BY DEF Lists
  <2>2. n \in Nat \ {0}
    BY <2>1, EmptySeq
  <2>3. QED
    BY <2>1, <2>2, ElementOfSeq DEF Lists, Last
<1>2. t = SubSeq(s, 1, n - 1)
  BY DEF Front
<1> HIDE DEF n, t, e
<1>3. e \in E
  BY <1>1
<1>4. \A i \in 1 .. n - 1 : s[i] # e /\ Earlier(c, d, s[i], e)
  <2> SUFFICES ASSUME NEW i \in 1 .. n - 1
               PROVE  s[i] # e /\ Earlier(c, d, s[i], e)
    OBVIOUS
  <2>1. i \in 1 .. n /\ n \in 1 .. n /\ i < n
    BY <1>1
  <2>2. Earlier(c, d, s[i], e) /\ s[i] \in E
    BY <1>1, <2>1
  <2>3. QED
    BY <1>3, <2>2, EarlierStrict
<1>5. /\ t \in Seq(F) /\ Len(t) = n - 1
      /\ \A i \in 1 .. n - 1 : t[i] = s[i]
  <2>1. \A i \in 1 .. n - 1 : s[i] \in F
    BY <1>1, <1>4 DEF F
  <2>2. 1 \in Int /\ n - 1 \in Int
    BY <1>1
  <2> HIDE DEF F
  <2> DEFINE k == n - 1
  <2>3. /\ SubSeq(s, 1, k) \in Seq(F)
        /\ Len(SubSeq(s, 1, k)) = IF 1 <= k THEN (k - 1) + 1 ELSE 0
        /\ \A i \in 1 .. (k - 1) + 1 : SubSeq(s, 1, k)[i] = s[(1 + i) - 1]
    <3> HIDE DEF k
    <3>1. k \in Int /\ \A i \in 1 .. k : s[i] \in F
      BY <2>1, <2>2 DEF k
    <3>2. QED
      BY <2>2, <3>1, SubSeqProperties
  <2>4. (IF 1 <= k THEN (k - 1) + 1 ELSE 0) = n - 1 /\ (k - 1) + 1 = n - 1
        /\ (\A i \in 1 .. n - 1 : (1 + i) - 1 = i)
    BY <1>1
  <2> HIDE DEF k
  <2>5. QED
    BY <1>2, <2>3, <2>4 DEF k
<1>6. \A f \in E : f = e \/ \E i \in 1 .. n - 1 : s[i] = f
  <2> SUFFICES ASSUME NEW f \in E
               PROVE  f = e \/ \E i \in 1 .. n - 1 : s[i] = f
    OBVIOUS
  <2>1. PICK i \in 1 .. n : s[i] = f
    BY <1>1
  <2>2. i = n \/ i \in 1 .. n - 1
    BY <1>1
  <2>3. QED
    BY <1>1, <2>1, <2>2
<1>7. \A f \in E : f = e \/ Earlier(c, d, f, e)
  BY <1>4, <1>6
<1>8. \A f \in F : \E i \in 1 .. n - 1 : t[i] = f
  BY <1>5, <1>6
<1>9. \A i, j \in 1 .. n - 1 : i < j => Earlier(c, d, t[i], t[j])
  <2> SUFFICES ASSUME NEW i \in 1 .. n - 1, NEW j \in 1 .. n - 1, i < j
               PROVE  Earlier(c, d, t[i], t[j])
    OBVIOUS
  <2>1. i \in 1 .. n /\ j \in 1 .. n
    BY <1>1
  <2>2. QED
    BY <1>1, <1>5, <2>1
<1>10. Lists(c, d, t, F)
  BY <1>5, <1>8, <1>9 DEF Lists
<1>11. QED
  BY <1>3, <1>7, <1>10 DEF t, e

\* An event is put before a place: what is in front is earlier, the rest later.
LEMMA ListsInsert ==
  ASSUME NEW c, NEW d, NEW s, NEW E, Lists(c, d, s, E), NEW e, NEW k \in 1 .. Len(s),
         \A i \in 1 .. k - 1 : Earlier(c, d, s[i], e),
         \A i \in k .. Len(s) : Earlier(c, d, e, s[i])
  PROVE  Lists(c, d, InsertAt(s, k, e), E \cup {e})
<1> DEFINE F == E \cup {e}
           n == Len(s)
           u == SubSeq(s, 1, k - 1)
           v == SubSeq(s, k, n)
           w == u \o <<e>>
           t == w \o v
<1>1. /\ s \in Seq(F) /\ n \in Nat /\ k \in 1 .. n
      /\ \A i \in 1 .. n : s[i] \in F
      /\ \A i, j \in 1 .. n : i < j => Earlier(c, d, s[i], s[j])
      /\ \A f \in E : \E i \in 1 .. n : s[i] = f
  <2>1. s \in Seq(E)
    BY DEF Lists
  <2>2. s \in Seq(F)
    BY <2>1, SeqMonotonic
  <2>3. QED
    BY <2>2, LenProperties, ElementOfSeq DEF Lists
<1> HIDE DEF n, F
<1>2. /\ u \in Seq(F) /\ Len(u) = k - 1
      /\ \A i \in 1 .. k - 1 : u[i] = s[i]
  <2> DEFINE m == k - 1
  <2>1. m \in Int /\ 1 \in Int /\ (\A i \in 1 .. m : s[i] \in F)
        /\ (IF 1 <= m THEN (m - 1) + 1 ELSE 0) = m /\ (m - 1) + 1 = m
        /\ (\A i \in 1 .. m : (1 + i) - 1 = i)
    BY <1>1
  <2> HIDE DEF m
  <2>2. /\ SubSeq(s, 1, m) \in Seq(F)
        /\ Len(SubSeq(s, 1, m)) = IF 1 <= m THEN (m - 1) + 1 ELSE 0
        /\ \A i \in 1 .. (m - 1) + 1 : SubSeq(s, 1, m)[i] = s[(1 + i) - 1]
    BY <2>1, SubSeqProperties
  <2>3. QED
    BY <2>1, <2>2 DEF m
<1>3. /\ v \in Seq(F) /\ Len(v) = (n - k) + 1
      /\ \A i \in 1 .. (n - k) + 1 : v[i] = s[(k + i) - 1]
  <2>1. k \in Int /\ n \in Int /\ (\A i \in k .. n : s[i] \in F)
        /\ (IF k <= n THEN (n - k) + 1 ELSE 0) = (n - k) + 1
    BY <1>1
  <2>2. /\ SubSeq(s, k, n) \in Seq(F)
        /\ Len(SubSeq(s, k, n)) = IF k <= n THEN (n - k) + 1 ELSE 0
        /\ \A i \in 1 .. (n - k) + 1 : SubSeq(s, k, n)[i] = s[(k + i) - 1]
    BY <2>1, SubSeqProperties
  <2>3. QED
    BY <2>1, <2>2
<1> HIDE DEF u, v
<1>4. <<e>> \in Seq(F) /\ Len(<<e>>) = 1 /\ <<e>>[1] = e
  BY DEF F
<1>5. /\ w \in Seq(F) /\ Len(w) = k
      /\ \A i \in 1 .. k : w[i] = IF i < k THEN s[i] ELSE e
  <2>1. /\ w \in Seq(F) /\ Len(w) = Len(u) + Len(<<e>>)
        /\ \A i \in 1 .. Len(u) + Len(<<e>>) :
             w[i] = IF i <= Len(u) THEN u[i] ELSE <<e>>[i - Len(u)]
    BY <1>2, <1>4, ConcatProperties
  <2> HIDE DEF w
  <2>2. Len(w) = k /\ \A i \in 1 .. k : w[i] = IF i <= k - 1 THEN u[i] ELSE <<e>>[i - (k - 1)]
    BY <1>1, <1>2, <1>4, <2>1
  <2>3. ASSUME NEW i \in 1 .. k
        PROVE  w[i] = IF i < k THEN s[i] ELSE e
    <3>1. CASE i < k
      BY <1>1, <1>2, <2>2, <3>1
    <3>2. CASE ~(i < k)
      <4>1. i = k /\ i - (k - 1) = 1 /\ ~(i <= k - 1)
        BY <1>1, <3>2
      <4>2. QED
        BY <1>4, <2>2, <3>2, <4>1
    <3>3. QED
      BY <3>1, <3>2
  <2>4. QED
    BY <2>1, <2>2, <2>3
<1> HIDE DEF w
<1>6. /\ t \in Seq(F) /\ Len(t) = n + 1
      /\ \A i \in 1 .. n + 1 : t[i] = IF i < k THEN s[i] ELSE IF i = k THEN e ELSE s[i - 1]
  <2>1. /\ t \in Seq(F) /\ Len(t) = Len(w) + Len(v)
        /\ \A i \in 1 .. Len(w) + Len(v) :
             t[i] = IF i <= Len(w) THEN w[i] ELSE v[i - Len(w)]
    BY <1>3, <1>5, ConcatProperties
  <2> HIDE DEF t
  <2>2. Len(t) = n + 1 /\ \A i \in 1 .. n + 1 : t[i] = IF i <= k THEN w[i] ELSE v[i - k]
    BY <1>1, <1>3, <1>5, <2>1
  <2>3. ASSUME NEW i \in 1 .. n + 1
        PROVE  t[i] = IF i < k THEN s[i] ELSE IF i = k THEN e ELSE s[i - 1]
    <3>1. CASE i <= k
      BY <1>1, <1>5, <2>2, <3>1
    <3>2. CASE ~(i <= k)
      <4>1. i - k \in 1 .. (n - k) + 1 /\ (k + (i - k)) - 1 = i - 1 /\ ~(i < k) /\ i # k
        BY <1>1, <3>2
      <4>2. v[i - k] = s[i - 1]
        BY <1>3, <4>1
      <4>3. QED
        BY <2>2, <3>2, <4>1, <4>2
    <3>3. QED
      BY <3>1, <3>2
  <2>4. QED
    BY <2>1, <2>2, <2>3
<1>7. t = InsertAt(s, k, e)
  BY DEF InsertAt, t, u, v, w, n
<1> HIDE DEF t
<1>8. \A f \in F : \E i \in 1 .. n + 1 : t[i] = f
  <2> SUFFICES ASSUME NEW f \in F
               PROVE  \E i \in 1 .. n + 1 : t[i] = f
    OBVIOUS
  <2>1. CASE f = e
    BY <1>1, <1>6, <2>1
  <2>2. CASE f # e
    <3>1. PICK i \in 1 .. n : s[i] = f
      BY <1>1, <2>2 DEF F
    <3>2. CASE i < k
      BY <1>1, <1>6, <3>1, <3>2
    <3>3. CASE ~(i < k)
      <4>1. i + 1 \in 1 .. n + 1 /\ ~(i + 1 < k) /\ i + 1 # k /\ (i + 1) - 1 = i
        BY <1>1, <3>3
      <4>2. t[i + 1] = f
        BY <1>6, <3>1, <4>1
      <4>3. QED
        BY <4>1, <4>2
    <3>4. QED
      BY <3>2, <3>3
  <2>3. QED
    BY <2>1, <2>2
<1>9. ASSUME NEW i \in 1 .. n + 1, NEW j \in 1 .. n + 1, i < j
      PROVE  Earlier(c, d, t[i], t[j])
  <2> DEFINE x == IF i < k THEN i ELSE i - 1
             y == IF j < k THEN j ELSE j - 1
  <2>1. CASE i = k
    <3>1. j - 1 \in k .. n /\ ~(j < k) /\ j # k
      BY <1>1, <1>9, <2>1
    <3>2. t[i] = e /\ t[j] = s[j - 1]
      BY <1>6, <2>1, <3>1
    <3>3. Earlier(c, d, e, s[j - 1])
      BY <3>1 DEF n
    <3>4. QED
      BY <3>2, <3>3
  <2>2. CASE j = k
    <3>1. i \in 1 .. k - 1 /\ i < k
      BY <1>1, <1>9, <2>2
    <3>2. t[i] = s[i] /\ t[j] = e
      BY <1>1, <1>6, <2>2, <3>1
    <3>3. QED
      BY <3>1, <3>2
  <2>3. CASE i # k /\ j # k
    <3>1. x \in 1 .. n /\ y \in 1 .. n /\ x < y
      BY <1>1, <1>9, <2>3
    <3>2. t[i] = s[x] /\ t[j] = s[y]
      BY <1>6, <2>3
    <3>3. Earlier(c, d, s[x], s[y])
      <4> HIDE DEF x, y
      <4>1. QED
        BY <1>1, <3>1
    <3>4. QED
      BY <3>2, <3>3
  <2>4. QED
    BY <2>1, <2>2, <2>3
<1>10. Lists(c, d, t, F)
  BY <1>6, <1>8, <1>9 DEF Lists
<1>11. QED
  BY <1>7, <1>10 DEF F

-------------------------------------------------------------------------------
(* References to a name *)

\* Where a name can occur.
LEMMA OccurrenceFacts ==
  ASSUME NEW c, Structured(c), NEW p \in Occurrences(c)
  PROVE  /\ p = <<p[1], p[2]>> /\ p[1] \in 1 .. Len(c) /\ p[2] \in Nat
         /\ p # Dummy /\ p # Null
         /\ p[2] = 0 => p[1] \in ParNodes(c)
         /\ p[2] # 0 => c[p[1]].op = "ass" /\ p[2] \in 1 .. Len(c[p[1]].lhs)
<1>1. Len(c) \in Nat /\ DOMAIN c = 1 .. Len(c)
  BY StructuredParts
<1>2. CASE p \in {<<i, 0>> : i \in ParNodes(c)}
  BY <1>1, <1>2 DEF ParNodes, Dummy, Null
<1>3. CASE p \in UNION {{<<j, k>> : k \in DOMAIN c[j].lhs} : j \in DOMAIN c}
  <2>1. PICK j \in 1 .. Len(c) : \E k \in DOMAIN c[j].lhs : p = <<j, k>>
    BY <1>1, <1>3
  <2>2. PICK k \in DOMAIN c[j].lhs : p = <<j, k>>
    BY <2>1
  <2>3. NodeOK(c, j)
    BY StructuredParts
  <2>4. c[j].lhs \in Seq(STRING) /\ (c[j].op # "ass" => c[j].lhs = << >>)
    BY <2>3 DEF NodeOK
  <2>5. k \in 1 .. Len(c[j].lhs) /\ Len(c[j].lhs) \in Nat
    BY <2>4, LenProperties
  <2>6. c[j].op = "ass"
    BY <2>4, <2>5
  <2>7. QED
    BY <1>1, <2>2, <2>5, <2>6 DEF Dummy, Null
<1>4. QED
  BY <1>2, <1>3 DEF Occurrences

\* What an occurrence is recorded as.
LEMMA EventOfFacts ==
  ASSUME NEW p
  PROVE  /\ EventOf(p).par = p
         /\ EventOf(p).type = IF p[2] = 0 THEN "Use" ELSE "Def"
BY DEF EventOf, UseEvent, DefEvent, Event

\* The node and the place of a reference.
LEMMA ReferenceFacts ==
  ASSUME NEW c, Structured(c), NEW d, NEW e \in AllReferences(c)
  PROVE  /\ e.par \in Occurrences(c) /\ e = EventOf(e.par)
         /\ e.type = IF e.par[2] = 0 THEN "Use" ELSE "Def"
         /\ At(c, d, e) = (IF e.par[2] = 0 THEN Consumer(c, e.par[1]) ELSE e.par[1])
         /\ Rank(c, e) = (IF e.par[2] = 0 THEN Len(c) - e.par[1] ELSE Len(c) + e.par[2])
         /\ At(c, d, e) \in 1 .. Len(c) /\ Rank(c, e) \in Nat
         /\ c[At(c, d, e)].op \in {"nonass", "expr", "ass"}
         /\ At(c, d, e) = At(c, 0, e)
<1>1. PICK p \in Occurrences(c) : e = EventOf(p)
  BY DEF AllReferences
<1>2. e.par = p /\ e.type = IF p[2] = 0 THEN "Use" ELSE "Def"
  BY <1>1, EventOfFacts
<1>3. /\ p[1] \in 1 .. Len(c) /\ p[2] \in Nat /\ p # Dummy
      /\ p[2] = 0 => p[1] \in ParNodes(c)
      /\ p[2] # 0 => c[p[1]].op = "ass"
  BY OccurrenceFacts
<1>4. Len(c) \in Nat
  BY StructuredParts
<1>5. \A x : At(c, x, e) = (IF p[2] = 0 THEN Consumer(c, p[1]) ELSE p[1])
  BY <1>2, <1>3 DEF At
<1>6. Rank(c, e) = (IF p[2] = 0 THEN Len(c) - p[1] ELSE Len(c) + p[2])
  BY <1>2, <1>3 DEF Rank
<1>7. p[2] = 0 => Consumer(c, p[1]) \in p[1] + 1 .. Len(c)
                  /\ c[Consumer(c, p[1])].op \in {"nonass", "expr", "ass"}
  BY <1>3, ConsumerFacts
<1>8. At(c, d, e) \in 1 .. Len(c) /\ c[At(c, d, e)].op \in {"nonass", "expr", "ass"}
  <2>1. CASE p[2] = 0
    BY <1>3, <1>4, <1>5, <1>7, <2>1
  <2>2. CASE p[2] # 0
    BY <1>3, <1>5, <2>2
  <2>3. QED
    BY <2>1, <2>2
<1>9. Rank(c, e) \in Nat
  BY <1>3, <1>4, <1>6
<1>10. QED
  BY <1>1, <1>2, <1>5, <1>6, <1>8, <1>9

\* The references to a name are those with its occurrences.
LEMMA ReferencesOf ==
  ASSUME NEW c, Structured(c), NEW n, NEW e
  PROVE  e \in References(c, n) <=> e \in AllReferences(c) /\ NameOf(c, e.par) = n
<1>1. \A p : EventOf(p).par = p
  BY EventOfFacts
<1>2. QED
  BY <1>1 DEF References, AllReferences

\* Two references are at different places.
LEMMA ReferencesOrdered ==
  ASSUME NEW c, Structured(c), NEW d, NEW e \in AllReferences(c), NEW f \in AllReferences(c)
  PROVE  e = f \/ Earlier(c, d, e, f) \/ Earlier(c, d, f, e)
<1> SUFFICES ASSUME At(c, d, e) = At(c, d, f), Rank(c, e) = Rank(c, f)
             PROVE  e = f
  <2>1. /\ At(c, d, e) \in 1 .. Len(c) /\ Rank(c, e) \in Nat
        /\ At(c, d, f) \in 1 .. Len(c) /\ Rank(c, f) \in Nat
    BY ReferenceFacts
  <2>2. QED
    BY <2>1 DEF Earlier
<1> DEFINE p == e.par
           q == f.par
<1>1. /\ e = EventOf(p) /\ f = EventOf(q) /\ p \in Occurrences(c) /\ q \in Occurrences(c)
      /\ At(c, d, e) = (IF p[2] = 0 THEN Consumer(c, p[1]) ELSE p[1])
      /\ At(c, d, f) = (IF q[2] = 0 THEN Consumer(c, q[1]) ELSE q[1])
      /\ Rank(c, e) = (IF p[2] = 0 THEN Len(c) - p[1] ELSE Len(c) + p[2])
      /\ Rank(c, f) = (IF q[2] = 0 THEN Len(c) - q[1] ELSE Len(c) + q[2])
  BY ReferenceFacts
<1> HIDE DEF p, q
<1>2. /\ p = <<p[1], p[2]>> /\ p[1] \in 1 .. Len(c) /\ p[2] \in Nat
      /\ q = <<q[1], q[2]>> /\ q[1] \in 1 .. Len(c) /\ q[2] \in Nat
  BY <1>1, OccurrenceFacts
<1>3. Len(c) \in Nat
  BY StructuredParts
<1>4. p[1] = q[1] /\ p[2] = q[2]
  <2>1. CASE p[2] = 0 /\ q[2] = 0
    BY <1>1, <1>2, <1>3, <2>1
  <2>2. CASE p[2] # 0 /\ q[2] # 0
    BY <1>1, <1>2, <1>3, <2>2
  <2>3. CASE p[2] = 0 /\ q[2] # 0
    BY <1>1, <1>2, <1>3, <2>3
  <2>4. CASE p[2] # 0 /\ q[2] = 0
    BY <1>1, <1>2, <1>3, <2>4
  <2>5. QED
    BY <2>1, <2>2, <2>3, <2>4
<1>5. p = q
  BY <1>2, <1>4
<1>6. QED
  BY <1>1, <1>5

\* A name that occurs has an earliest reference.
LEMMA FirstExists ==
  ASSUME NEW c, Structured(c), NEW n, References(c, n) # {}
  PROVE  IsFirst(c, n, FirstOf(c, n))
<1> DEFINE R == References(c, n)
           Ats == {At(c, 0, e) : e \in R}
<1>1. \A e \in R : e \in AllReferences(c)
  BY ReferencesOf
<1>2. \A e \in R : At(c, 0, e) \in 1 .. Len(c) /\ Rank(c, e) \in Nat
  BY <1>1, ReferenceFacts
<1> HIDE DEF R
<1>3. Ats \in SUBSET Nat /\ Ats # {}
  BY <1>2 DEF R
<1>4. PICK a \in Ats : \A x \in Ats : a <= x
  <2> HIDE DEF Ats
  <2>1. QED
    BY <1>3, Smallest
<1> DEFINE Ranks == {Rank(c, e) : e \in {f \in R : At(c, 0, f) = a}}
<1>5. Ranks \in SUBSET Nat /\ Ranks # {}
  BY <1>2, <1>4
<1>6. PICK k \in Ranks : \A x \in Ranks : k <= x
  <2> HIDE DEF Ranks
  <2>1. QED
    BY <1>5, Smallest
<1>7. PICK e \in R : At(c, 0, e) = a /\ Rank(c, e) = k
  BY <1>6
<1>8. ASSUME NEW f \in R
      PROVE  f = e \/ Earlier(c, 0, e, f)
  <2>1. a <= At(c, 0, f) /\ At(c, 0, f) \in 1 .. Len(c) /\ Rank(c, f) \in Nat
    BY <1>2, <1>4
  <2>2. At(c, 0, f) = a => k <= Rank(c, f)
    BY <1>6
  <2>3. a \in 1 .. Len(c) /\ k \in Nat
    BY <1>2, <1>7
  <2>4. ~Earlier(c, 0, f, e)
    BY <1>7, <2>1, <2>2, <2>3 DEF Earlier
  <2>5. e \in AllReferences(c) /\ f \in AllReferences(c)
    BY <1>1
  <2>6. f = e \/ Earlier(c, 0, e, f) \/ Earlier(c, 0, f, e)
    BY <2>5, ReferencesOrdered
  <2>7. QED
    BY <2>4, <2>6
<1>9. IsFirst(c, n, e)
  BY <1>7, <1>8 DEF IsFirst, R
<1>10. QED
  BY <1>9 DEF FirstOf

\* There is one.
LEMMA FirstIs ==
  ASSUME NEW c, Structured(c), NEW n, NEW e, IsFirst(c, n, e)
  PROVE  FirstOf(c, n) = e
<1> DEFINE f == FirstOf(c, n)
<1>1. IsFirst(c, n, f)
  BY FirstExists DEF IsFirst
<1> HIDE DEF f
<1>2. e \in References(c, n) /\ f \in References(c, n)
  BY <1>1 DEF IsFirst
<1>3. e \in AllReferences(c) /\ f \in AllReferences(c)
  BY <1>2, ReferencesOf
<1>4. Placed(c, 0, AllReferences(c))
  BY ReferenceFacts DEF Placed
<1>5. ~(Earlier(c, 0, e, f) /\ Earlier(c, 0, f, e))
  BY <1>3, <1>4, EarlierStrict
<1>6. f = e
  BY <1>1, <1>2, <1>5 DEF IsFirst
<1>7. QED
  BY <1>6 DEF f

-------------------------------------------------------------------------------
(* The Def of the prologue *)

\* The opening is a loop, and the first one around the first reference.
LEMMA OpeningFacts ==
  ASSUME NEW c, Structured(c), NEW n
  PROVE  LET loops == LoopsAround(c, At(c, 0, FirstOf(c, n)))
         IN /\ Opening(c, n) \in 0 .. Len(c)
            /\ Opening(c, n) # 0 <=> FirstOf(c, n).type = "Use" /\ loops # {}
            /\ Opening(c, n) # 0 =>
                 Opening(c, n) \in loops /\ \A x \in loops : Opening(c, n) <= x
<1> DEFINE loops == LoopsAround(c, At(c, 0, FirstOf(c, n)))
           first == FirstOf(c, n).type = "Use"
<1>1. Opening(c, n) = IF first /\ loops # {}
                      THEN CHOOSE b \in loops : \A x \in loops : b <= x ELSE 0
  BY DEF Opening
<1>2. \A b \in loops : b \in 1 .. Len(c)
  BY DEF LoopsAround, Blocks
<1>3. Len(c) \in Nat
  BY StructuredParts
<1> HIDE DEF loops, first
<1>4. loops \in SUBSET Nat
  BY <1>2, <1>3
<1>5. loops # {} => \E b \in loops : \A x \in loops : b <= x
  BY <1>4, Smallest
<1>6. CASE first /\ loops # {}
  <2>1. Opening(c, n) \in loops /\ \A x \in loops : Opening(c, n) <= x
    BY <1>1, <1>5, <1>6
  <2>2. Opening(c, n) \in 1 .. Len(c)
    BY <1>2, <2>1
  <2>3. QED
    BY <1>3, <1>6, <2>1, <2>2 DEF loops, first
<1>7. CASE ~(first /\ loops # {})
  BY <1>1, <1>3, <1>7 DEF loops, first
<1>8. QED
  BY <1>6, <1>7

-------------------------------------------------------------------------------
(* The events of blocks *)

\* The places of the events of a block and of the Def of the prologue.
LEMMA BlockEventFacts ==
  ASSUME NEW c, Structured(c), NEW b \in Blocks(c), NEW d
  PROVE  /\ EnterOf(c, b).type = "Enter" /\ EnterOf(c, b).blk = b
         /\ EnterOf(c, b).back = HasBackBranch(c[b].kind)
         /\ JumpOf(c, b).type = "Jump" /\ JumpOf(c, b).blk = b
         /\ At(c, d, EnterOf(c, b)) = b /\ Rank(c, EnterOf(c, b)) = 1
         /\ At(c, d, JumpOf(c, b)) = Closing(c, b) /\ Rank(c, JumpOf(c, b)) = 1
<1>1. /\ EnterOf(c, b).type = "Enter" /\ EnterOf(c, b).blk = b
      /\ EnterOf(c, b).back = HasBackBranch(c[b].kind)
      /\ JumpOf(c, b).type = "Jump" /\ JumpOf(c, b).blk = b
  BY ClosingFacts DEF EnterOf, JumpOf, EnterEvent, JumpEvent, Event
<1>2. QED
  BY <1>1 DEF At, Rank

\* The Def of the prologue is first at its node, the Use at the end is past the last node.
LEMMA DummyFacts ==
  ASSUME NEW c, NEW d
  PROVE  /\ DefEvent(Dummy).type = "Def" /\ DefEvent(Dummy).par = Dummy
         /\ UseEvent(Dummy).type = "Use" /\ UseEvent(Dummy).par = Dummy
         /\ At(c, d, DefEvent(Dummy)) = d /\ Rank(c, DefEvent(Dummy)) = 0
         /\ At(c, d, UseEvent(Dummy)) = Len(c) + 1 /\ Rank(c, UseEvent(Dummy)) = Len(c) - 0
<1>1. /\ DefEvent(Dummy).type = "Def" /\ DefEvent(Dummy).par = Dummy
      /\ UseEvent(Dummy).type = "Use" /\ UseEvent(Dummy).par = Dummy
  BY DEF DefEvent, UseEvent, Event
<1>2. Dummy[1] = 0
  BY DEF Dummy
<1>3. QED
  BY <1>1, <1>2 DEF At, Rank

\* A reference is a Use or a Def, and not one that the recorder makes up.
LEMMA ReferenceIsReal ==
  ASSUME NEW c, Structured(c), NEW n, NEW e \in References(c, n)
  PROVE  /\ e # DefEvent(Dummy) /\ e # UseEvent(Dummy) /\ e.par # Dummy
         /\ e.type \in {"Use", "Def"}
<1>1. e \in AllReferences(c)
  BY ReferencesOf
<1>2. e.par \in Occurrences(c) /\ e.type \in {"Use", "Def"}
  BY <1>1, ReferenceFacts
<1>3. e.par # Dummy
  BY <1>2, OccurrenceFacts
<1>4. DefEvent(Dummy).par = Dummy /\ UseEvent(Dummy).par = Dummy
  BY DummyFacts
<1>5. QED
  BY <1>2, <1>3, <1>4

-------------------------------------------------------------------------------
(* What is recorded before node j is visited, of the references in D *)

\* Everything that is recorded has a place.
LEMMA SeenPlaced ==
  ASSUME NEW c, Structured(c), NEW n, NEW pre, NEW j, NEW D, NEW d \in Int
  PROVE  Placed(c, d, Seen(c, n, pre, j, D))
<1> SUFFICES ASSUME NEW e \in Seen(c, n, pre, j, D)
             PROVE  At(c, d, e) \in Int /\ Rank(c, e) \in Int
  BY DEF Placed
<1>0. Len(c) \in Nat
  BY StructuredParts
<1>1. CASE e \in References(c, n)
  <2>1. e \in AllReferences(c)
    BY <1>1, ReferencesOf
  <2>2. At(c, d, e) \in 1 .. Len(c) /\ Rank(c, e) \in Nat
    BY <2>1, ReferenceFacts
  <2>3. QED
    BY <1>0, <2>2
<1>2. CASE \E b \in Blocks(c) : e = EnterOf(c, b) \/ e = JumpOf(c, b)
  <2>1. PICK b \in Blocks(c) : e = EnterOf(c, b) \/ e = JumpOf(c, b)
    BY <1>2
  <2>2. Rank(c, e) = 1 /\ (At(c, d, e) = b \/ At(c, d, e) = Closing(c, b))
    BY <2>1, BlockEventFacts
  <2>3. b \in 1 .. Len(c) /\ Closing(c, b) \in b + 1 .. Len(c)
    BY ClosingFacts
  <2>4. QED
    BY <1>0, <2>2, <2>3
<1>3. CASE e = DefEvent(Dummy)
  BY <1>3, DummyFacts
<1>4. QED
  BY <1>1, <1>2, <1>3 DEF Seen, EntersSeen, JumpsSeen, Prefixed

\* The order of references does not depend on the prologue.
LEMMA EarlierReferences ==
  ASSUME NEW c, Structured(c), NEW d, NEW e \in AllReferences(c), NEW f \in AllReferences(c)
  PROVE  Earlier(c, d, e, f) <=> Earlier(c, 0, e, f)
<1>1. At(c, d, e) = At(c, 0, e) /\ At(c, d, f) = At(c, 0, f)
  BY ReferenceFacts
<1>2. QED
  BY <1>1 DEF Earlier

\* What is recorded is earlier than the next reference.
LEMMA SeenBefore ==
  ASSUME NEW c, Structured(c), NEW n, NEW pre, NEW D, NEW e \in References(c, n),
         NEW j, j = At(c, 0, e),
         \A f \in References(c, n) \cap D : Earlier(c, 0, f, e)
  PROVE  \A f \in Seen(c, n, pre, j, D) : Earlier(c, Opening(c, n), f, e)
<1> SUFFICES ASSUME NEW f \in Seen(c, n, pre, j, D)
             PROVE  Earlier(c, Opening(c, n), f, e)
  OBVIOUS
<1> DEFINE d == Opening(c, n)
<1>0. Len(c) \in Nat
  BY StructuredParts
<1>1. e \in AllReferences(c)
  BY ReferencesOf
<1>2. At(c, d, e) = j /\ j \in 1 .. Len(c)
  BY <1>1, ReferenceFacts
<1> HIDE DEF d
<1>3. CASE f \in References(c, n) \cap D
  <2>1. f \in AllReferences(c) /\ Earlier(c, 0, f, e)
    BY <1>3, ReferencesOf
  <2>2. Earlier(c, d, f, e)
    BY <1>1, <2>1, EarlierReferences
  <2>3. QED
    BY <2>2 DEF d
<1>4. CASE f \in EntersSeen(c, n, j)
  <2>1. PICK b \in Blocks(c) : f = EnterOf(c, b) /\ b < j
    BY <1>4 DEF EntersSeen
  <2>2. At(c, d, f) < j
    BY <2>1, BlockEventFacts
  <2>3. QED
    BY <1>2, <2>2 DEF Earlier, d
<1>5. CASE f \in JumpsSeen(c, n, j)
  <2>1. PICK b \in Blocks(c) : f = JumpOf(c, b) /\ Closing(c, b) < j
    BY <1>5 DEF JumpsSeen
  <2>2. At(c, d, f) < j
    BY <2>1, BlockEventFacts
  <2>3. QED
    BY <1>2, <2>2 DEF Earlier, d
<1>6. CASE f \in Prefixed(c, n, pre)
  <2>1. f = DefEvent(Dummy) /\ d # 0
    BY <1>6 DEF Prefixed, d
  <2>2. At(c, d, f) = d
    BY <2>1, DummyFacts
  <2> DEFINE g == FirstOf(c, n)
  <2>3. IsFirst(c, n, g)
    BY FirstExists
  <2>4. d < At(c, 0, g) /\ d \in 0 .. Len(c)
    BY <2>1, OpeningFacts DEF LoopsAround, d
  <2> HIDE DEF g
  <2>5. g \in References(c, n) /\ (e = g \/ Earlier(c, 0, g, e))
    BY <2>3 DEF IsFirst
  <2>6. At(c, 0, g) <= At(c, 0, e) /\ At(c, 0, g) \in 1 .. Len(c)
    <3>1. g \in AllReferences(c)
      BY <2>5, ReferencesOf
    <3>2. At(c, 0, g) \in 1 .. Len(c) /\ At(c, 0, e) \in 1 .. Len(c)
      BY <1>1, <3>1, ReferenceFacts
    <3>3. QED
      BY <1>0, <2>5, <3>2 DEF Earlier
  <2>7. d < j
    BY <1>0, <1>2, <2>4, <2>6
  <2>8. QED
    BY <1>2, <2>2, <2>7 DEF Earlier, d
<1>7. QED
  BY <1>3, <1>4, <1>5, <1>6 DEF Seen

\* The entrances of open blocks are listed with or without a prologue.
LEMMA ListsEnters ==
  ASSUME NEW c, Structured(c), NEW s, NEW j, Lists(c, 0, s, OpenEnters(c, j)), NEW d
  PROVE  Lists(c, d, s, OpenEnters(c, j))
<1>1. \A e \in OpenEnters(c, j) : At(c, d, e) = At(c, 0, e)
  BY BlockEventFacts DEF OpenEnters
<1>2. \A i \in 1 .. Len(s) : s[i] \in OpenEnters(c, j)
  BY ElementOfSeq DEF Lists
<1>3. \A i, k \in 1 .. Len(s) : Earlier(c, 0, s[i], s[k]) => Earlier(c, d, s[i], s[k])
  BY <1>1, <1>2 DEF Earlier
<1>4. QED
  BY <1>3 DEF Lists

\* The chain of a name starts with the blocks around its first reference.
LEMMA PrologueLists ==
  ASSUME NEW c, Structured(c), NEW n, NEW pre \in BOOLEAN, NEW e, IsFirst(c, n, e),
         NEW j, j = At(c, 0, e), NEW s, Lists(c, 0, s, OpenEnters(c, j)),
         NEW D, References(c, n) \cap D = {}
  PROVE  Lists(c, Opening(c, n), Prologue(s, e, pre), Seen(c, n, pre, j, D))
<1> DEFINE d == Opening(c, n)
           E == OpenEnters(c, j)
           loops == {i \in DOMAIN s : s[i].back}
<1>0. Len(c) \in Nat
  BY StructuredParts
<1>1. e \in AllReferences(c) /\ e \in References(c, n)
  BY ReferencesOf DEF IsFirst
<1>2. j \in 1 .. Len(c) /\ c[j].op \in {"nonass", "expr", "ass"}
  BY <1>1, ReferenceFacts
<1>3. \A f \in References(c, n) : At(c, 0, f) \in 1 .. Len(c) /\ j <= At(c, 0, f)
  <2> SUFFICES ASSUME NEW f \in References(c, n)
               PROVE  At(c, 0, f) \in 1 .. Len(c) /\ j <= At(c, 0, f)
    OBVIOUS
  <2>1. f \in AllReferences(c) /\ (f = e \/ Earlier(c, 0, e, f))
    BY ReferencesOf DEF IsFirst
  <2>2. At(c, 0, f) \in 1 .. Len(c)
    BY <2>1, ReferenceFacts
  <2>3. QED
    BY <1>2, <2>1, <2>2 DEF Earlier
<1>4. FirstOf(c, n) = e
  BY FirstIs
<1>5. \A b \in Blocks(c) : b \in 1 .. Len(c) /\ Closing(c, b) \in b + 1 .. Len(c)
                           /\ (Closing(c, b) < j => ~Referred(c, n, b))
                           /\ b # j /\ Closing(c, b) # j
  <2> SUFFICES ASSUME NEW b \in Blocks(c)
               PROVE  /\ b \in 1 .. Len(c) /\ Closing(c, b) \in b + 1 .. Len(c)
                      /\ Closing(c, b) < j => ~Referred(c, n, b)
                      /\ b # j /\ Closing(c, b) # j
    OBVIOUS
  <2>1. /\ b \in 1 .. Len(c) /\ Closing(c, b) \in b + 1 .. Len(c)
        /\ c[b].op = "enter" /\ c[Closing(c, b)].op = "jump"
    BY ClosingFacts
  <2>2. Closing(c, b) < j => ~Referred(c, n, b)
    BY <1>0, <1>2, <1>3, <2>1 DEF Referred
  <2>3. QED
    BY <1>2, <2>1, <2>2
<1>6. EntersSeen(c, n, j) = E /\ JumpsSeen(c, n, j) = {}
  <2>1. \A b \in Blocks(c) : j <= Closing(c, b) \/ Referred(c, n, b) <=> j <= Closing(c, b)
    BY <1>0, <1>2, <1>5
  <2>2. \A b \in Blocks(c) : ~(Closing(c, b) < j /\ Referred(c, n, b))
    BY <1>5
  <2>3. QED
    BY <2>1, <2>2 DEF EntersSeen, JumpsSeen, OpenEnters
<1>7. Seen(c, n, pre, j, D) = E \cup Prefixed(c, n, pre)
  BY <1>6 DEF Seen
<1> HIDE DEF d
<1>8. Lists(c, d, s, E)
  BY ListsEnters
<1>9. s \in Seq(E) /\ Len(s) \in Nat /\ DOMAIN s = 1 .. Len(s)
      /\ \A i \in 1 .. Len(s) : s[i] \in E
  <2>1. s \in Seq(E)
    BY DEF Lists
  <2>2. QED
    BY <2>1, LenProperties, ElementOfSeq
<1> DEFINE around == LoopsAround(c, j)
<1>10. \A f \in E : f.back =>
         f.blk \in around /\ f = EnterOf(c, f.blk) /\ At(c, d, f) = f.blk /\ Rank(c, f) = 1
  <2> SUFFICES ASSUME NEW f \in E, f.back
               PROVE  f.blk \in around /\ f = EnterOf(c, f.blk)
                      /\ At(c, d, f) = f.blk /\ Rank(c, f) = 1
    OBVIOUS
  <2>1. PICK b \in Blocks(c) : f = EnterOf(c, b) /\ b < j /\ j <= Closing(c, b)
    BY DEF OpenEnters
  <2>2. f.blk = b /\ At(c, d, f) = b /\ Rank(c, f) = 1
    BY <2>1, BlockEventFacts
  <2>4. HasBackBranch(c[b].kind)
    <3>1. EnterOf(c, b).back = HasBackBranch(c[b].kind)
      BY BlockEventFacts
    <3>2. EnterOf(c, b).back
      BY <2>1
    <3>3. QED
      BY <3>1, <3>2
  <2>3. j < Closing(c, b)
    BY <1>0, <1>2, <1>5, <2>1
  <2>5. QED
    BY <2>1, <2>2, <2>3, <2>4 DEF LoopsAround
<1>11. \A b \in around : EnterOf(c, b) \in E /\ EnterOf(c, b).back
                         /\ EnterOf(c, b).blk = b
                         /\ b \in 1 .. Len(c)
  <2> SUFFICES ASSUME NEW b \in around
               PROVE  /\ EnterOf(c, b) \in E /\ EnterOf(c, b).back
                      /\ EnterOf(c, b).blk = b /\ b \in 1 .. Len(c)
    OBVIOUS
  <2>1. b \in Blocks(c) /\ HasBackBranch(c[b].kind) /\ b < j /\ j < Closing(c, b)
    BY DEF LoopsAround
  <2>2. b \in 1 .. Len(c) /\ Closing(c, b) \in b + 1 .. Len(c)
    BY <1>5, <2>1
  <2>3. j <= Closing(c, b)
    BY <1>0, <1>2, <2>1, <2>2
  <2>4. EnterOf(c, b) \in E
    BY <2>1, <2>3 DEF OpenEnters
  <2>5. QED
    BY <2>1, <2>2, <2>4, BlockEventFacts
<1>12. loops # {} <=> around # {}
  <2>1. \A f \in E : \E i \in 1 .. Len(s) : s[i] = f
    BY <1>8 DEF Lists
  <2> HIDE DEF E, around
  <2>2. QED
    BY <1>9, <1>10, <1>11, <2>1
<1>13. /\ d \in 0 .. Len(c)
       /\ d # 0 <=> e.type = "Use" /\ around # {}
       /\ d # 0 => d \in around /\ \A x \in around : d <= x
  BY <1>4, OpeningFacts DEF d
<1>14. CASE ~(pre /\ e.type = "Use" /\ loops # {})
  <2>1. Prologue(s, e, pre) = s
    BY <1>14 DEF Prologue
  <2>2. Prefixed(c, n, pre) = {}
    BY <1>12, <1>13, <1>14 DEF Prefixed, d
  <2>3. E \cup Prefixed(c, n, pre) = E
    BY <2>2
  <2> HIDE DEF E
  <2>4. Lists(c, d, Prologue(s, e, pre), Seen(c, n, pre, j, D))
    BY <1>7, <1>8, <2>1, <2>3
  <2>5. QED
    BY <2>4 DEF d
<1>15. CASE pre /\ e.type = "Use" /\ loops # {}
  <2> DEFINE first == CHOOSE i \in loops : \A x \in loops : i <= x
             def == DefEvent(Dummy)
  <2>1. Prologue(s, e, pre) = InsertAt(s, first, def)
    BY <1>15 DEF Prologue
  <2>2. d # 0 /\ d \in around /\ (\A x \in around : d <= x)
    BY <1>12, <1>13, <1>15
  <2>3. Prefixed(c, n, pre) = {def}
    BY <1>15, <2>2 DEF Prefixed, d
  <2>4. \E i \in loops : \A x \in loops : i <= x
    <3>1. loops \in SUBSET Nat
      BY <1>9
    <3> HIDE DEF loops
    <3>2. QED
      BY <1>15, <3>1, Smallest
  <2>5. first \in loops /\ \A x \in loops : first <= x
    BY <2>4
  <2> HIDE DEF first
  <2>6. first \in 1 .. Len(s) /\ s[first].back /\ s[first] \in E
    BY <1>9, <2>5
  <2> DEFINE b == s[first].blk
  <2>7. b \in around /\ At(c, d, s[first]) = b /\ Rank(c, s[first]) = 1
    BY <1>10, <2>6
  <2>8. At(c, d, def) = d /\ Rank(c, def) = 0
    BY DummyFacts
  <2>9. PICK i \in 1 .. Len(s) : s[i] = EnterOf(c, d)
    BY <1>8, <1>11, <2>2 DEF Lists
  <2>10. s[i].back /\ s[i].blk = d
    BY <1>11, <2>2, <2>9
  <2>11. i \in loops /\ first <= i
    BY <1>9, <2>5, <2>9, <2>10
  <2>12. \A x, y \in 1 .. Len(s) : x < y => Earlier(c, d, s[x], s[y])
    BY <1>8 DEF Lists
  <2>13. At(c, d, s[i]) = d /\ Rank(c, s[i]) = 1
    BY <1>9, <1>10, <2>9, <2>10
  <2>14. b = d
    <3>1. b \in 1 .. Len(c) /\ d \in 1 .. Len(c) /\ d <= b
      BY <1>11, <2>2, <2>7
    <3>2. first = i => b = d
      BY <2>10
    <3>3. first < i => Earlier(c, d, s[first], s[i])
      BY <2>6, <2>9, <2>12
    <3> HIDE DEF b
    <3>4. first < i => b <= d
      BY <2>7, <2>13, <3>1, <3>3 DEF Earlier
    <3>5. QED
      BY <1>9, <2>6, <2>9, <2>11, <3>1, <3>2, <3>4
  <2>15. Earlier(c, d, def, s[first])
    BY <2>7, <2>8, <2>14 DEF Earlier
  <2>16. Placed(c, d, E \cup {def})
    <3>1. d \in Int
      BY <1>0, <1>13
    <3>2. Placed(c, d, Seen(c, n, pre, j, D))
      BY <3>1, SeenPlaced
    <3> HIDE DEF E, def
    <3>3. QED
      BY <1>7, <2>3, <3>2
  <2>17. \A x \in 1 .. first - 1 : Earlier(c, d, s[x], def)
    <3> SUFFICES ASSUME NEW x \in 1 .. first - 1
                 PROVE  Earlier(c, d, s[x], def)
      OBVIOUS
    <3>1. x \in 1 .. Len(s) /\ x < first
      BY <1>9, <2>6
    <3>2. Earlier(c, d, s[x], s[first])
      BY <2>6, <2>12, <3>1
    <3>3. s[x] \in E
      BY <1>9, <3>1
    <3>4. PICK bx \in Blocks(c) : s[x] = EnterOf(c, bx)
      BY <3>3 DEF OpenEnters
    <3>5. At(c, d, s[x]) = bx /\ Rank(c, s[x]) = 1 /\ bx \in 1 .. Len(c)
      BY <1>5, <3>4, BlockEventFacts
    <3>6. bx < d
      BY <2>7, <2>14, <3>2, <3>5 DEF Earlier
    <3>7. QED
      BY <2>8, <3>5, <3>6 DEF Earlier
  <2>18. \A x \in first .. Len(s) : Earlier(c, d, def, s[x])
    <3> SUFFICES ASSUME NEW x \in first .. Len(s)
                 PROVE  Earlier(c, d, def, s[x])
      OBVIOUS
    <3>1. x \in 1 .. Len(s) /\ (x = first \/ first < x)
      BY <1>9, <2>6
    <3>2. first < x => Earlier(c, d, s[first], s[x])
      BY <2>6, <2>12, <3>1
    <3>3. s[first] \in E \cup {def} /\ s[x] \in E \cup {def} /\ def \in E \cup {def}
      BY <1>9, <2>6, <3>1
    <3> HIDE DEF E, def
    <3>4. QED
      BY <2>15, <2>16, <3>1, <3>2, <3>3, EarlierStrict
  <2>19. Lists(c, d, InsertAt(s, first, def), E \cup {def})
    <3> HIDE DEF E, def
    <3>1. QED
      BY <1>8, <2>6, <2>17, <2>18, ListsInsert
  <2> HIDE DEF E
  <2>20. Lists(c, d, Prologue(s, e, pre), Seen(c, n, pre, j, D))
    BY <1>7, <2>1, <2>3, <2>19
  <2>21. QED
    BY <2>20 DEF d
<1>16. QED
  BY <1>14, <1>15

\* UseDefRecorder::add, for the reference that is next.
LEMMA AddReferenceRecords ==
  ASSUME NEW c, Structured(c), NEW pre \in BOOLEAN, NEW r, NEW j, NEW D,
         Records(c, pre, r, j, D), NEW n, NEW e \in References(c, n), j = At(c, 0, e),
         \A f \in References(c, n) : f \in D <=> Earlier(c, 0, f, e)
  PROVE  /\ Records(c, pre, AddReference(r, n, e, pre), j, D \cup {e})
         /\ AddReference(r, n, e, pre).stack = r.stack
<1> DEFINE before == IF n \in DOMAIN r.chain THEN r.chain[n] ELSE Prologue(r.nesting, e, pre)
           ch == [m \in DOMAIN r.chain \cup {n} |->
                    IF m = n THEN Append(before, e) ELSE r.chain[m]]
           t == AddReference(r, n, e, pre)
           d == Opening(c, n)
           F == D \cup {e}
<1>1. t = [r EXCEPT !.chain = ch]
  BY DEF AddReference
<1>2. r = [chain |-> r.chain, nesting |-> r.nesting, stack |-> r.stack, dynamic |-> r.dynamic]
  BY DEF Records
<1> HIDE DEF ch, t
<1>3. /\ t.chain = ch /\ t.nesting = r.nesting /\ t.stack = r.stack
      /\ t = [chain |-> t.chain, nesting |-> t.nesting, stack |-> t.stack, dynamic |-> t.dynamic]
  BY <1>1, <1>2
<1>4. \A m : m # n => References(c, m) \cap F = References(c, m) \cap D
  <2> SUFFICES ASSUME NEW m, m # n
               PROVE  e \notin References(c, m)
    OBVIOUS
  <2>1. QED
    BY ReferencesOf
<1>5. References(c, n) \cap F = (References(c, n) \cap D) \cup {e}
  OBVIOUS
<1>6. \A m : m # n => Seen(c, m, pre, j, F) = Seen(c, m, pre, j, D)
  BY <1>4 DEF Seen
<1>7. Seen(c, n, pre, j, F) = Seen(c, n, pre, j, D) \cup {e}
  BY <1>5 DEF Seen
<1>8. Lists(c, d, before, Seen(c, n, pre, j, D))
  <2>1. CASE n \in DOMAIN r.chain
    BY <2>1 DEF Records
  <2>2. CASE n \notin DOMAIN r.chain
    <3>1. References(c, n) \cap D = {}
      BY <2>2 DEF Records
    <3>2. \A f \in References(c, n) : ~Earlier(c, 0, f, e)
      BY <3>1
    <3>3. \A f \in References(c, n) : f = e \/ Earlier(c, 0, e, f)
      <4> SUFFICES ASSUME NEW f \in References(c, n)
                   PROVE  f = e \/ Earlier(c, 0, e, f)
        OBVIOUS
      <4>1. f \in AllReferences(c) /\ e \in AllReferences(c)
        BY ReferencesOf
      <4>2. QED
        BY <3>2, <4>1, ReferencesOrdered
    <3>4. IsFirst(c, n, e)
      BY <3>3 DEF IsFirst
    <3>5. Lists(c, 0, r.nesting, OpenEnters(c, j))
      BY DEF Records
    <3>6. Lists(c, d, Prologue(r.nesting, e, pre), Seen(c, n, pre, j, D))
      BY <3>1, <3>4, <3>5, PrologueLists
    <3>7. QED
      BY <2>2, <3>6
  <2>3. QED
    BY <2>1, <2>2
<1>9. \A f \in Seen(c, n, pre, j, D) : Earlier(c, d, f, e)
  <2>1. \A f \in References(c, n) \cap D : Earlier(c, 0, f, e)
    OBVIOUS
  <2>2. QED
    BY <2>1, SeenBefore
<1> HIDE DEF before, d, F
<1>10. Lists(c, d, Append(before, e), Seen(c, n, pre, j, F))
  BY <1>7, <1>8, <1>9, ListsAppend
<1>11. \A m : m \in DOMAIN t.chain <=> References(c, m) \cap F # {}
  <2>1. \A m : m \in DOMAIN ch <=> m = n \/ References(c, m) \cap D # {}
    BY DEF Records, ch
  <2>2. QED
    BY <1>3, <1>4, <1>5, <2>1
<1>12. \A m \in DOMAIN t.chain : Lists(c, Opening(c, m), t.chain[m], Seen(c, m, pre, j, F))
  <2> SUFFICES ASSUME NEW m \in DOMAIN ch
               PROVE  Lists(c, Opening(c, m), ch[m], Seen(c, m, pre, j, F))
    BY <1>3
  <2>1. CASE m = n
    <3>1. ch[m] = Append(before, e)
      BY <2>1 DEF ch
    <3>2. QED
      BY <1>10, <2>1, <3>1 DEF d
  <2>2. CASE m # n
    <3>1. m \in DOMAIN r.chain /\ ch[m] = r.chain[m]
      BY <2>2 DEF ch
    <3>2. QED
      BY <1>6, <2>2, <3>1 DEF Records
  <2>3. QED
    BY <2>1, <2>2
<1>13. Lists(c, 0, t.nesting, OpenEnters(c, j))
  BY <1>3 DEF Records
<1>14. Records(c, pre, t, j, F)
  BY <1>3, <1>11, <1>12, <1>13 DEF Records
<1>15. QED
  BY <1>3, <1>14 DEF t, F

\* References are not at entrances or jump nodes.
LEMMA RefsToStep ==
  ASSUME NEW c, Structured(c), NEW j \in 1 .. Len(c)
  PROVE  /\ c[j].op \notin {"nonass", "expr", "ass"} => RefsTo(c, j + 1) = RefsTo(c, j)
         /\ RefsTo(c, j + 1) = RefsTo(c, j) \cup {e \in AllReferences(c) : At(c, 0, e) = j}
<1>1. \A e \in AllReferences(c) :
        At(c, 0, e) \in 1 .. Len(c) /\ c[At(c, 0, e)].op \in {"nonass", "expr", "ass"}
  BY ReferenceFacts
<1>2. Len(c) \in Nat
  BY StructuredParts
<1>3. \A e \in AllReferences(c) : At(c, 0, e) < j + 1 <=> At(c, 0, e) < j \/ At(c, 0, e) = j
  BY <1>1, <1>2
<1>4. QED
  BY <1>1, <1>3 DEF RefsTo

\* Other nodes open and close no blocks.
LEMMA BlocksStep ==
  ASSUME NEW c, Structured(c), NEW j \in 1 .. Len(c)
  PROVE  /\ c[j].op # "jump" => \A x \in Blocks(c) : j <= Closing(c, x) <=> j + 1 <= Closing(c, x)
         /\ c[j].op # "jump" => \A x \in Blocks(c) : Closing(c, x) < j <=> Closing(c, x) < j + 1
         /\ c[j].op # "enter" => \A x \in Blocks(c) : x < j <=> x < j + 1
<1>1. Len(c) \in Nat
  BY StructuredParts
<1>2. \A x \in Blocks(c) :
        /\ x \in 1 .. Len(c) /\ c[x].op = "enter"
        /\ Closing(c, x) \in x + 1 .. Len(c) /\ c[Closing(c, x)].op = "jump"
  BY ClosingFacts
<1>3. QED
  BY <1>1, <1>2

\* A node that is no entrance and no jump opens and closes nothing.
LEMMA SeenStep ==
  ASSUME NEW c, Structured(c), NEW j \in 1 .. Len(c), c[j].op \notin {"enter", "jump"}
  PROVE  /\ OpenEnters(c, j + 1) = OpenEnters(c, j)
         /\ \A n, pre, D : Seen(c, n, pre, j + 1, D) = Seen(c, n, pre, j, D)
<1>1. \A x \in Blocks(c) : /\ j <= Closing(c, x) <=> j + 1 <= Closing(c, x)
                           /\ Closing(c, x) < j <=> Closing(c, x) < j + 1
                           /\ x < j <=> x < j + 1
  BY BlocksStep
<1>2. OpenEnters(c, j + 1) = OpenEnters(c, j)
  BY <1>1 DEF OpenEnters
<1>3. \A n : EntersSeen(c, n, j + 1) = EntersSeen(c, n, j)
  BY <1>1 DEF EntersSeen
<1>4. \A n : JumpsSeen(c, n, j + 1) = JumpsSeen(c, n, j)
  BY <1>1 DEF JumpsSeen
<1>5. QED
  BY <1>2, <1>3, <1>4 DEF Seen

\* A node that is no block leaves what was recorded.
LEMMA RecordsStep ==
  ASSUME NEW c, Structured(c), NEW pre, NEW r, NEW j \in 1 .. Len(c), NEW D,
         c[j].op \notin {"enter", "jump"}, Records(c, pre, r, j, D)
  PROVE  Records(c, pre, r, j + 1, D)
BY SeenStep DEF Records

\* UseDefRecorder::add, for the entrance of a block.
LEMMA AddEnterRecords ==
  ASSUME NEW c, Structured(c), NEW pre \in BOOLEAN, NEW r, NEW j \in 1 .. Len(c),
         c[j].op = "enter", Records(c, pre, r, j, RefsTo(c, j))
  PROVE  LET t == AddBlockEvent(r, EnterEvent(c[j]))
         IN Records(c, pre, t, j + 1, RefsTo(c, j + 1)) /\ t.stack = r.stack
<1> DEFINE e == EnterEvent(c[j])
           t == AddBlockEvent(r, e)
           D == RefsTo(c, j)
<1>0. Len(c) \in Nat
  BY StructuredParts
<1>1. j \in Blocks(c) /\ e = EnterOf(c, j)
  BY <1>0 DEF Blocks, EnterOf
<1>2. e.type = "Enter" /\ \A d : At(c, d, e) = j /\ Rank(c, e) = 1
  BY <1>1, BlockEventFacts
<1>3. r = [chain |-> r.chain, nesting |-> r.nesting, stack |-> r.stack, dynamic |-> r.dynamic]
  BY DEF Records
<1>4. \A s : ChainAdd(s, e) = Append(s, e)
  BY <1>2 DEF ChainAdd
<1> DEFINE ch == [n \in DOMAIN r.chain |-> Append(r.chain[n], e)]
           ne == Append(r.nesting, e)
<1>20. t = [r EXCEPT !.nesting = ne, !.chain = ch]
  <2>1. t = [r EXCEPT !.nesting = ChainAdd(r.nesting, e),
                      !.chain = [n \in DOMAIN r.chain |-> ChainAdd(r.chain[n], e)]]
    BY DEF AddBlockEvent
  <2> HIDE DEF t, e
  <2>2. ChainAdd(r.nesting, e) = ne
    BY <1>4
  <2>3. [n \in DOMAIN r.chain |-> ChainAdd(r.chain[n], e)] = ch
    BY <1>4
  <2> HIDE DEF ch, ne
  <2>4. QED
    BY <2>1, <2>2, <2>3
<1> HIDE DEF e, t
<1>5. /\ t.chain = [n \in DOMAIN r.chain |-> Append(r.chain[n], e)]
      /\ t.nesting = Append(r.nesting, e) /\ t.stack = r.stack
      /\ t = [chain |-> t.chain, nesting |-> t.nesting, stack |-> t.stack, dynamic |-> t.dynamic]
  <2> HIDE DEF ch, ne
  <2>1. /\ t.chain = ch /\ t.nesting = ne /\ t.stack = r.stack
        /\ t = [chain |-> t.chain, nesting |-> t.nesting, stack |-> t.stack,
                dynamic |-> t.dynamic]
    BY <1>3, <1>20
  <2>2. QED
    BY <2>1 DEF ch, ne
<1> HIDE DEF ch, ne
<1> HIDE DEF t
<1>6. RefsTo(c, j + 1) = D
  BY RefsToStep
<1>7. \A x \in Blocks(c) : /\ j <= Closing(c, x) <=> j + 1 <= Closing(c, x)
                           /\ Closing(c, x) < j <=> Closing(c, x) < j + 1
                           /\ x < j + 1 <=> x < j \/ x = j
                           /\ x \in 1 .. Len(c) /\ Closing(c, x) \in x + 1 .. Len(c)
  <2>1. \A x \in Blocks(c) : x \in 1 .. Len(c) /\ Closing(c, x) \in x + 1 .. Len(c)
    BY ClosingFacts
  <2>2. QED
    BY <1>0, <2>1, BlocksStep
<1>8. j < j + 1 /\ j <= Closing(c, j) /\ j + 1 <= Closing(c, j)
  BY <1>0, <1>1, <1>7
<1>9. OpenEnters(c, j + 1) = OpenEnters(c, j) \cup {e}
  BY <1>1, <1>7, <1>8 DEF OpenEnters
<1>10. \A n : EntersSeen(c, n, j + 1) = EntersSeen(c, n, j) \cup {e}
  BY <1>1, <1>7, <1>8 DEF EntersSeen
<1>11. \A n : JumpsSeen(c, n, j + 1) = JumpsSeen(c, n, j)
  BY <1>7 DEF JumpsSeen
<1>12. \A n : Seen(c, n, pre, j + 1, D) = Seen(c, n, pre, j, D) \cup {e}
  BY <1>10, <1>11 DEF Seen
<1>13. Lists(c, 0, t.nesting, OpenEnters(c, j + 1))
  <2>1. Lists(c, 0, r.nesting, OpenEnters(c, j))
    BY DEF Records
  <2>2. \A f \in OpenEnters(c, j) : Earlier(c, 0, f, e)
    <3> SUFFICES ASSUME NEW f \in OpenEnters(c, j)
                 PROVE  Earlier(c, 0, f, e)
      OBVIOUS
    <3>1. PICK b \in Blocks(c) : f = EnterOf(c, b) /\ b < j
      BY DEF OpenEnters
    <3>2. At(c, 0, f) = b
      BY <3>1, BlockEventFacts
    <3>3. QED
      BY <1>2, <3>1, <3>2 DEF Earlier
  <2>3. QED
    BY <1>5, <1>9, <2>1, <2>2, ListsAppend
<1>14. ASSUME NEW n \in DOMAIN r.chain
       PROVE  Lists(c, Opening(c, n), t.chain[n], Seen(c, n, pre, j + 1, D))
  <2> DEFINE d == Opening(c, n)
  <2>1. Lists(c, d, r.chain[n], Seen(c, n, pre, j, D))
    BY DEF Records
  <2>2. References(c, n) \cap D # {}
    BY DEF Records
  <2>3. PICK g \in References(c, n) : At(c, 0, g) < j
    BY <2>2 DEF RefsTo
  <2>4. \A f \in Seen(c, n, pre, j, D) : At(c, d, f) < j
    <3> SUFFICES ASSUME NEW f \in Seen(c, n, pre, j, D)
                 PROVE  At(c, d, f) < j
      OBVIOUS
    <3>1. CASE f \in References(c, n) \cap D
      BY <3>1, ReferenceFacts DEF RefsTo
    <3>2. CASE f \in EntersSeen(c, n, j)
      BY <3>2, BlockEventFacts DEF EntersSeen
    <3>3. CASE f \in JumpsSeen(c, n, j)
      BY <3>3, BlockEventFacts DEF JumpsSeen
    <3>4. CASE f \in Prefixed(c, n, pre)
      <4>1. f = DefEvent(Dummy) /\ d # 0
        BY <3>4 DEF Prefixed
      <4>2. d < At(c, 0, FirstOf(c, n)) /\ d \in 0 .. Len(c)
        BY <4>1, OpeningFacts DEF LoopsAround
      <4> DEFINE h == FirstOf(c, n)
      <4>3. h \in References(c, n) /\ (g = h \/ Earlier(c, 0, h, g))
        BY <2>2, FirstExists DEF IsFirst
      <4>4. At(c, 0, h) \in 1 .. Len(c) /\ At(c, 0, g) \in 1 .. Len(c)
        BY <4>3, ReferencesOf, ReferenceFacts
      <4> HIDE DEF h
      <4>5. At(c, 0, h) <= At(c, 0, g)
        BY <1>0, <4>3, <4>4 DEF Earlier
      <4>6. d < At(c, 0, h)
        BY <4>2 DEF h
      <4> HIDE DEF d
      <4>7. d < j
        BY <1>0, <2>3, <4>2, <4>4, <4>5, <4>6
      <4>8. QED
        BY <4>1, <4>7, DummyFacts
    <3>5. QED
      BY <3>1, <3>2, <3>3, <3>4 DEF Seen
  <2>5. \A f \in Seen(c, n, pre, j, D) : Earlier(c, d, f, e)
    BY <1>2, <2>4 DEF Earlier
  <2> HIDE DEF d
  <2>6. Lists(c, d, Append(r.chain[n], e), Seen(c, n, pre, j, D) \cup {e})
    BY <2>1, <2>5, ListsAppend
  <2>7. QED
    BY <1>5, <1>12, <2>6 DEF d
<1>15. DOMAIN t.chain = DOMAIN r.chain
  BY <1>5
<1>16. Records(c, pre, t, j + 1, D)
  BY <1>5, <1>13, <1>14, <1>15 DEF Records
<1>17. QED
  BY <1>5, <1>6, <1>16 DEF t, e

\* The latest event of a chain is its last.
LEMMA ListsLast ==
  ASSUME NEW c, NEW d, NEW s, NEW E, Lists(c, d, s, E), Placed(c, d, E), NEW e \in E,
         \A f \in E : f = e \/ Earlier(c, d, f, e)
  PROVE  Last(s) = e /\ Lists(c, d, Front(s), E \ {e})
<1>1. s # << >>
  BY DEF Lists
<1>2. Last(s) \in E /\ (e = Last(s) \/ Earlier(c, d, e, Last(s)))
      /\ Lists(c, d, Front(s), E \ {Last(s)})
  BY <1>1, ListsFront
<1>3. Last(s) = e
  BY <1>2, EarlierStrict
<1>4. QED
  BY <1>2, <1>3

\* The blocks that are open or closed when a jump node is reached.
LEMMA BlocksAtJump ==
  ASSUME NEW c, Structured(c), NEW j \in 1 .. Len(c), c[j].op = "jump",
         NEW b, b = c[j].blk
  PROVE  /\ b \in Blocks(c) /\ b \in 1 .. j - 1 /\ Closing(c, b) = j
         /\ \A x \in Blocks(c) :
              /\ x \in 1 .. Len(c) /\ Closing(c, x) \in x + 1 .. Len(c)
              /\ x # j
              /\ x < j + 1 <=> x < j
              /\ Closing(c, x) = j => x = b
              /\ x # b => Closing(c, x) # b
              /\ b < x /\ x < j => Closing(c, x) < j
              /\ Closing(c, x) < j => x = b \/ b < x \/ Closing(c, x) < b
<1>0. Len(c) \in Nat
  BY StructuredParts
<1>1. b \in Blocks(c) /\ Closing(c, b) = j
  BY ClosingOfJump
<1>2. \A x \in Blocks(c) :
        /\ x \in 1 .. Len(c) /\ Closing(c, x) \in x + 1 .. Len(c)
        /\ c[x].op = "enter" /\ c[Closing(c, x)].op = "jump" /\ c[Closing(c, x)].blk = x
  BY ClosingFacts
<1>3. b \in 1 .. j - 1
  BY <1>0, <1>1, <1>2
<1>4. ASSUME NEW x \in Blocks(c)
      PROVE  /\ x # j /\ (Closing(c, x) = j => x = b) /\ Closing(c, x) # b
             /\ x < j + 1 <=> x < j
             /\ b < x /\ x < j => Closing(c, x) < j
             /\ Closing(c, x) < j => x = b \/ b < x \/ Closing(c, x) < b
  <2>1. x # j /\ (Closing(c, x) = j => x = b)
    BY <1>2
  <2>2. Closing(c, x) # b
    BY <1>1, <1>2
  <2>3. x < j + 1 <=> x < j
    BY <1>0, <1>2, <2>1
  <2>4. b < x /\ x < j => Closing(c, x) < j
    <3>1. b < x => Closing(c, b) < x \/ Closing(c, x) < Closing(c, b)
      BY <1>1, ClosingNested
    <3>2. QED
      BY <1>0, <1>1, <1>2, <3>1
  <2>5. x < b => Closing(c, x) < b \/ Closing(c, b) < Closing(c, x)
    BY <1>1, ClosingNested
  <2>6. Closing(c, x) < j => x = b \/ b < x \/ Closing(c, x) < b
    BY <1>0, <1>1, <1>2, <1>3, <2>5
  <2>7. QED
    BY <2>1, <2>2, <2>3, <2>4, <2>6
<1>5. QED
  BY <1>1, <1>2, <1>3, <1>4

\* A block without a reference to the name has its entrance last.
LEMMA JumpUnreferred ==
  ASSUME NEW c, Structured(c), NEW n, NEW pre, NEW j \in 1 .. Len(c), c[j].op = "jump",
         NEW b, b = c[j].blk, ~Referred(c, n, b),
         References(c, n) \cap RefsTo(c, j) # {}
  PROVE  LET E == Seen(c, n, pre, j, RefsTo(c, j)) IN
         /\ EnterOf(c, b) \in E
         /\ \A f \in E : f = EnterOf(c, b) \/ Earlier(c, Opening(c, n), f, EnterOf(c, b))
<1> DEFINE E == Seen(c, n, pre, j, RefsTo(c, j))
           d == Opening(c, n)
           e == EnterOf(c, b)
<1>0. Len(c) \in Nat
  BY StructuredParts
<1>1. /\ b \in Blocks(c) /\ b \in 1 .. j - 1 /\ Closing(c, b) = j
      /\ \A x \in Blocks(c) :
              /\ x \in 1 .. Len(c) /\ Closing(c, x) \in x + 1 .. Len(c)
              /\ x # j
              /\ Closing(c, x) = j => x = b
              /\ x # b => Closing(c, x) # b
              /\ b < x /\ x < j => Closing(c, x) < j
              /\ Closing(c, x) < j => x = b \/ b < x \/ Closing(c, x) < b
  BY BlocksAtJump
<1>2. b < j /\ j <= Closing(c, b)
  BY <1>0, <1>1
<1>3. e \in E
  BY <1>1, <1>2 DEF Seen, EntersSeen
<1>4. At(c, d, e) = b /\ Rank(c, e) = 1
  BY <1>1, BlockEventFacts
<1>5. \A g \in References(c, n) :
        /\ At(c, 0, g) \in 1 .. Len(c) /\ At(c, d, g) = At(c, 0, g)
        /\ At(c, 0, g) # b /\ ~(b < At(c, 0, g) /\ At(c, 0, g) < j)
  <2> SUFFICES ASSUME NEW g \in References(c, n)
               PROVE  /\ At(c, 0, g) \in 1 .. Len(c) /\ At(c, d, g) = At(c, 0, g)
                      /\ At(c, 0, g) # b /\ ~(b < At(c, 0, g) /\ At(c, 0, g) < j)
    OBVIOUS
  <2>1. g \in AllReferences(c)
    BY ReferencesOf
  <2> HIDE DEF d
  <2>2. /\ At(c, 0, g) \in 1 .. Len(c) /\ At(c, d, g) = At(c, 0, g)
        /\ c[At(c, 0, g)].op \in {"nonass", "expr", "ass"}
    BY <2>1, ReferenceFacts
  <2>3. c[b].op = "enter"
    BY <1>1 DEF Blocks
  <2>4. QED
    BY <1>1, <2>2, <2>3 DEF Referred
<1>6. ASSUME NEW x \in Blocks(c), Referred(c, n, x), Closing(c, x) < j
      PROVE  ~(b < x)
  <2>1. PICK g \in References(c, n) : x < At(c, 0, g) /\ At(c, 0, g) < Closing(c, x)
    BY <1>6 DEF Referred
  <2>2. QED
    BY <1>0, <1>1, <1>2, <1>5, <1>6, <2>1
<1>7. ASSUME NEW f \in E
      PROVE  f = e \/ Earlier(c, d, f, e)
  <2>1. CASE f \in References(c, n) \cap RefsTo(c, j)
    <3>1. At(c, 0, f) < j
      BY <2>1 DEF RefsTo
    <3>2. At(c, d, f) < b
      BY <1>0, <1>1, <1>5, <2>1, <3>1
    <3>3. QED
      BY <1>4, <3>2 DEF Earlier
  <2>2. CASE f \in EntersSeen(c, n, j)
    <3>1. PICK x \in Blocks(c) : f = EnterOf(c, x) /\ x < j
                                 /\ (j <= Closing(c, x) \/ Referred(c, n, x))
      BY <2>2 DEF EntersSeen
    <3>2. ~(b < x)
      BY <1>0, <1>1, <1>6, <3>1
    <3>3. At(c, d, f) = x
      BY <3>1, BlockEventFacts
    <3>4. x = b \/ x < b
      BY <1>0, <1>1, <3>2
    <3>5. QED
      BY <1>4, <3>1, <3>3, <3>4 DEF Earlier
  <2>3. CASE f \in JumpsSeen(c, n, j)
    <3>1. PICK x \in Blocks(c) : f = JumpOf(c, x) /\ Closing(c, x) < j /\ Referred(c, n, x)
      BY <2>3 DEF JumpsSeen
    <3>2. x # b
      BY <1>0, <1>1, <3>1
    <3>3. Closing(c, x) < b
      BY <1>1, <1>6, <3>1, <3>2
    <3>4. At(c, d, f) = Closing(c, x)
      BY <3>1, BlockEventFacts
    <3>5. QED
      BY <1>4, <3>3, <3>4 DEF Earlier
  <2>4. CASE f \in Prefixed(c, n, pre)
    <3> DEFINE h == FirstOf(c, n)
    <3>1. f = DefEvent(Dummy) /\ d # 0
      BY <2>4 DEF Prefixed
    <3>2. d \in Blocks(c) /\ d < At(c, 0, h) /\ At(c, 0, h) < Closing(c, d)
      BY <3>1, OpeningFacts DEF LoopsAround
    <3>3. PICK g \in References(c, n) : At(c, 0, g) < j
      BY DEF RefsTo
    <3>4. h \in References(c, n) /\ (g = h \/ Earlier(c, 0, h, g))
      BY <3>3, FirstExists DEF IsFirst
    <3> HIDE DEF h
    <3>5. At(c, d, f) = d /\ Rank(c, f) = 0
      BY <3>1, DummyFacts
    <3> HIDE DEF d
    <3>6. At(c, 0, h) \in 1 .. Len(c) /\ At(c, 0, g) \in 1 .. Len(c)
      BY <1>5, <3>4
    <3>7. At(c, 0, h) <= At(c, 0, g)
      BY <1>0, <3>4, <3>6 DEF Earlier
    <3>8. Referred(c, n, d)
      BY <3>2, <3>4 DEF Referred
    <3>9. d \in 1 .. Len(c)
      BY <1>1, <3>2
    <3>10. d < j
      BY <1>0, <3>2, <3>3, <3>6, <3>7, <3>9
    <3>11. ~(b < d)
      BY <1>1, <1>6, <3>2, <3>8, <3>10
    <3>12. d < b \/ d = b
      BY <1>0, <1>1, <3>9, <3>11
    <3>13. QED
      BY <1>4, <3>5, <3>12 DEF Earlier
  <2>5. QED
    BY <2>1, <2>2, <2>3, <2>4 DEF Seen
<1>8. QED
  BY <1>3, <1>7

\* In a block with a reference to the name no entrance is last.
LEMMA JumpReferred ==
  ASSUME NEW c, Structured(c), NEW n, NEW pre, NEW j \in 1 .. Len(c), c[j].op = "jump",
         NEW b, b = c[j].blk, Referred(c, n, b),
         NEW e \in Seen(c, n, pre, j, RefsTo(c, j)),
         \A f \in Seen(c, n, pre, j, RefsTo(c, j)) : f = e \/ Earlier(c, Opening(c, n), f, e)
  PROVE  e.type # "Enter"
<1> DEFINE E == Seen(c, n, pre, j, RefsTo(c, j))
           d == Opening(c, n)
<1> SUFFICES ASSUME e.type = "Enter"
             PROVE  FALSE
  OBVIOUS
<1>0. Len(c) \in Nat
  BY StructuredParts
<1>1. /\ b \in Blocks(c) /\ b \in 1 .. j - 1 /\ Closing(c, b) = j
      /\ \A x \in Blocks(c) :
              /\ x \in 1 .. Len(c) /\ Closing(c, x) \in x + 1 .. Len(c)
              /\ b < x /\ x < j => Closing(c, x) < j
  BY BlocksAtJump
<1>2. PICK g \in References(c, n) : b < At(c, 0, g) /\ At(c, 0, g) < j
  BY <1>1 DEF Referred
<1>3. g \in AllReferences(c) /\ g.type # "Enter"
  BY ReferencesOf, ReferenceFacts
<1> HIDE DEF d
<1>4. At(c, 0, g) \in 1 .. Len(c) /\ At(c, d, g) = At(c, 0, g)
      /\ c[At(c, 0, g)].op \in {"nonass", "expr", "ass"}
  BY <1>3, ReferenceFacts
<1>5. g \in E /\ (g = e \/ Earlier(c, d, g, e))
  BY <1>2, <1>3 DEF Seen, RefsTo, d
<1>6. PICK x \in Blocks(c) : e = EnterOf(c, x) /\ x < j
                             /\ (j <= Closing(c, x) \/ Referred(c, n, x))
  <2>1. e \notin References(c, n)
    BY ReferencesOf, ReferenceFacts
  <2>2. e \notin JumpsSeen(c, n, j)
    BY BlockEventFacts DEF JumpsSeen
  <2>3. e \notin Prefixed(c, n, pre)
    BY DummyFacts DEF Prefixed
  <2>4. QED
    BY <2>1, <2>2, <2>3 DEF Seen, EntersSeen
<1>7. At(c, d, e) = x /\ c[x].op = "enter"
  BY <1>6, BlockEventFacts DEF Blocks
<1>8. At(c, 0, g) < x
  <2>1. At(c, 0, g) # x /\ g # e
    BY <1>3, <1>4, <1>7
  <2>2. QED
    BY <1>4, <1>5, <1>7, <2>1 DEF Earlier
<1>9. b < x /\ Closing(c, x) < j
  <2>1. b < x
    BY <1>0, <1>1, <1>2, <1>4, <1>8
  <2>2. QED
    BY <1>1, <1>6, <2>1
<1>10. Referred(c, n, x)
  BY <1>0, <1>1, <1>6, <1>9
<1>11. JumpOf(c, x) \in E
  BY <1>9, <1>10 DEF Seen, JumpsSeen
<1>12. At(c, d, JumpOf(c, x)) = Closing(c, x) /\ JumpOf(c, x).type = "Jump"
  BY BlockEventFacts
<1>13. JumpOf(c, x) # e
  BY <1>12
<1>14. Earlier(c, d, JumpOf(c, x), e)
  BY <1>11, <1>13 DEF d
<1>15. Closing(c, x) <= x
  BY <1>0, <1>1, <1>7, <1>12, <1>14 DEF Earlier
<1>16. QED
  BY <1>0, <1>1, <1>15

\* What a jump node adds to what is recorded, and what it takes away.
LEMMA JumpStep ==
  ASSUME NEW c, Structured(c), NEW j \in 1 .. Len(c), c[j].op = "jump",
         NEW b, b = c[j].blk, NEW n, NEW pre, NEW D, NEW k, k = j + 1
  PROVE  /\ \A f : f \in OpenEnters(c, k) <=> f \in OpenEnters(c, j) /\ f # EnterOf(c, b)
         /\ Referred(c, n, b) =>
              \A f : f \in Seen(c, n, pre, k, D) <=>
                       f \in Seen(c, n, pre, j, D) \/ f = JumpOf(c, b)
         /\ ~Referred(c, n, b) =>
              \A f : f \in Seen(c, n, pre, k, D) <=>
                       f \in Seen(c, n, pre, j, D) /\ f # EnterOf(c, b)
<1>0. Len(c) \in Nat
  BY StructuredParts
<1>1. /\ b \in Blocks(c) /\ b \in 1 .. j - 1 /\ Closing(c, b) = j
      /\ \A x \in Blocks(c) :
              /\ x \in 1 .. Len(c) /\ Closing(c, x) \in x + 1 .. Len(c)
              /\ x < j + 1 <=> x < j
              /\ Closing(c, x) = j => x = b
  BY BlocksAtJump
<1>2. \A x \in Blocks(c) : /\ j + 1 <= Closing(c, x) <=> j <= Closing(c, x) /\ x # b
                           /\ Closing(c, x) < j + 1 <=> Closing(c, x) < j \/ x = b
                           /\ x = b => ~(Closing(c, x) < j) /\ j <= Closing(c, x) /\ x < j
  BY <1>0, <1>1
<1>3. \A x \in Blocks(c) : EnterOf(c, x) = EnterOf(c, b) => x = b
  BY <1>1, BlockEventFacts, SMTT(60)
<1>4. \A x \in Blocks(c) : JumpOf(c, x) = JumpOf(c, b) => x = b
  BY <1>1, BlockEventFacts, SMTT(60)
<1>5. OpenEnters(c, k) = OpenEnters(c, j) \ {EnterOf(c, b)}
  BY <1>1, <1>2, <1>3 DEF OpenEnters
<1>6. Seen(c, n, pre, k, D) =
        IF Referred(c, n, b) THEN Seen(c, n, pre, j, D) \cup {JumpOf(c, b)}
        ELSE Seen(c, n, pre, j, D) \ {EnterOf(c, b)}
  <2>1. CASE Referred(c, n, b)
    <3>1. EntersSeen(c, n, k) = EntersSeen(c, n, j)
      BY <1>1, <1>2, <2>1 DEF EntersSeen
    <3>2. JumpsSeen(c, n, k) = JumpsSeen(c, n, j) \cup {JumpOf(c, b)}
      BY <1>1, <1>2, <2>1 DEF JumpsSeen
    <3>3. QED
      BY <2>1, <3>1, <3>2 DEF Seen
  <2>2. CASE ~Referred(c, n, b)
    <3>1. EntersSeen(c, n, k) = EntersSeen(c, n, j) \ {EnterOf(c, b)}
      BY <1>1, <1>2, <1>3, <2>2 DEF EntersSeen
    <3>2. JumpsSeen(c, n, k) = JumpsSeen(c, n, j)
      BY <1>1, <1>2, <2>2 DEF JumpsSeen
    <3>3. EnterOf(c, b).type = "Enter"
      BY <1>1, BlockEventFacts
    <3>4. EnterOf(c, b) \notin References(c, n)
      BY <3>3, ReferencesOf, ReferenceFacts
    <3>5. EnterOf(c, b) \notin JumpsSeen(c, n, j)
      BY <3>3, BlockEventFacts DEF JumpsSeen
    <3>6. EnterOf(c, b) \notin Prefixed(c, n, pre)
      BY <3>3, DummyFacts DEF Prefixed
    <3>7. QED
      BY <2>2, <3>1, <3>2, <3>4, <3>5, <3>6 DEF Seen
  <2>3. QED
    BY <2>1, <2>2
<1>7. QED
  BY <1>5, <1>6

\* UseDefRecorder::add, for the jump node of a block.
LEMMA AddJumpRecords ==
  ASSUME NEW c, Structured(c), NEW pre \in BOOLEAN, NEW r, NEW j \in 1 .. Len(c),
         c[j].op = "jump", Records(c, pre, r, j, RefsTo(c, j))
  PROVE  LET t == AddBlockEvent(r, JumpEvent(c[j]))
         IN Records(c, pre, t, j + 1, RefsTo(c, j + 1)) /\ t.stack = r.stack
<1> DEFINE e == JumpEvent(c[j])
           b == c[j].blk
           t == AddBlockEvent(r, e)
           D == RefsTo(c, j)
           ne == ChainAdd(r.nesting, e)
           ch == [n \in DOMAIN r.chain |-> ChainAdd(r.chain[n], e)]
<1>0. Len(c) \in Nat
  BY StructuredParts
<1>1. b \in Blocks(c) /\ b \in 1 .. j - 1 /\ Closing(c, b) = j
  BY BlocksAtJump
<1>2. e = JumpOf(c, b)
  BY <1>1 DEF JumpOf
<1>3. e.type = "Jump" /\ \A d : At(c, d, e) = j /\ Rank(c, e) = 1
  BY <1>1, <1>2, BlockEventFacts
<1>4. r = [chain |-> r.chain, nesting |-> r.nesting, stack |-> r.stack, dynamic |-> r.dynamic]
  BY DEF Records
<1>5. t = [r EXCEPT !.nesting = ne, !.chain = ch]
  BY DEF AddBlockEvent
<1> HIDE DEF t, e, ne, ch
<1>6. /\ t.chain = ch /\ t.nesting = ne /\ t.stack = r.stack
      /\ t = [chain |-> t.chain, nesting |-> t.nesting, stack |-> t.stack, dynamic |-> t.dynamic]
  BY <1>4, <1>5
<1>7. RefsTo(c, j + 1) = D
  BY RefsToStep
<1> HIDE DEF b
<1>8. /\ OpenEnters(c, j + 1) = OpenEnters(c, j) \ {EnterOf(c, b)}
      /\ \A n : Seen(c, n, pre, j + 1, D) =
                IF Referred(c, n, b) THEN Seen(c, n, pre, j, D) \cup {JumpOf(c, b)}
                ELSE Seen(c, n, pre, j, D) \ {EnterOf(c, b)}
  <2>1. b = c[j].blk
    BY DEF b
  <2> HIDE DEF D
  <2> DEFINE k == j + 1
  <2>2. k = j + 1
    OBVIOUS
  <2> HIDE DEF k
  <2>3. OpenEnters(c, k) = OpenEnters(c, j) \ {EnterOf(c, b)}
    <3>1. \A f : f \in OpenEnters(c, k) <=> f \in OpenEnters(c, j) /\ f # EnterOf(c, b)
      BY <2>1, <2>2, JumpStep
    <3>2. QED
      BY <3>1
  <2>4. ASSUME NEW n
        PROVE  Seen(c, n, pre, k, D) =
                 IF Referred(c, n, b) THEN Seen(c, n, pre, j, D) \cup {JumpOf(c, b)}
                 ELSE Seen(c, n, pre, j, D) \ {EnterOf(c, b)}
    <3>1. Referred(c, n, b) =>
            \A f : f \in Seen(c, n, pre, k, D) <=>
                     f \in Seen(c, n, pre, j, D) \/ f = JumpOf(c, b)
      BY <2>1, <2>2, JumpStep
    <3>2. ~Referred(c, n, b) =>
            \A f : f \in Seen(c, n, pre, k, D) <=>
                     f \in Seen(c, n, pre, j, D) /\ f # EnterOf(c, b)
      BY <2>1, <2>2, JumpStep
    <3>3. QED
      BY <3>1, <3>2
  <2>5. QED
    BY <2>3, <2>4 DEF k
<1>9. EnterOf(c, b).type = "Enter"
  BY <1>1, BlockEventFacts
<1>10. Lists(c, 0, ne, OpenEnters(c, j + 1))
  <2> DEFINE E == OpenEnters(c, j)
             o == EnterOf(c, b)
  <2>1. Lists(c, 0, r.nesting, E)
    BY DEF Records
  <2>2. \A x \in Blocks(c) : /\ x \in 1 .. Len(c) /\ Closing(c, x) \in x + 1 .. Len(c)
                             /\ b < x /\ x < j => Closing(c, x) < j
    BY BlocksAtJump DEF b
  <2>3. o \in E
    <3>1. b < j /\ j <= Closing(c, b)
      BY <1>0, <1>1
    <3>2. QED
      BY <1>1, <3>1 DEF OpenEnters
  <2>4. \A f \in E : /\ f = o \/ Earlier(c, 0, f, o)
                     /\ At(c, 0, f) \in Int /\ Rank(c, f) \in Int
    <3> SUFFICES ASSUME NEW f \in E
                 PROVE  /\ f = o \/ Earlier(c, 0, f, o)
                        /\ At(c, 0, f) \in Int /\ Rank(c, f) \in Int
      OBVIOUS
    <3>1. PICK x \in Blocks(c) : f = EnterOf(c, x) /\ x < j /\ j <= Closing(c, x)
      BY DEF OpenEnters
    <3>2. At(c, 0, f) = x /\ Rank(c, f) = 1 /\ At(c, 0, o) = b
      BY <1>1, <3>1, BlockEventFacts
    <3>3. x = b \/ x < b
      BY <1>0, <1>1, <2>2, <3>1
    <3>4. x \in 1 .. Len(c)
      BY <2>2
    <3>5. QED
      BY <3>1, <3>2, <3>3, <3>4 DEF Earlier
  <2>5. Placed(c, 0, E)
    BY <2>4 DEF Placed
  <2> HIDE DEF E, o
  <2>6. Last(r.nesting) = o /\ Lists(c, 0, Front(r.nesting), E \ {o})
    BY <2>1, <2>3, <2>4, <2>5, ListsLast
  <2>7. Last(r.nesting).type = "Enter"
    BY <1>9, <2>6 DEF o
  <2>8. ne = Front(r.nesting)
    BY <1>3, <2>7 DEF ne, ChainAdd
  <2>9. QED
    BY <1>8, <2>6, <2>8 DEF E, o
<1>11. ASSUME NEW n \in DOMAIN r.chain
       PROVE  Lists(c, Opening(c, n), ch[n], Seen(c, n, pre, j + 1, D))
  <2> DEFINE d == Opening(c, n)
             s == r.chain[n]
             E == Seen(c, n, pre, j, D)
  <2>1. Lists(c, d, s, E) /\ References(c, n) \cap D # {}
    BY DEF Records
  <2>2. ch[n] = ChainAdd(s, e)
    BY DEF ch
  <2>3. d \in Int
    <3>1. d \in 0 .. Len(c)
      BY OpeningFacts
    <3> HIDE DEF d
    <3>2. QED
      BY <1>0, <3>1
  <2>4. Placed(c, d, E)
    <3> HIDE DEF d
    <3>1. QED
      BY <2>3, SeenPlaced
  <2>5. CASE ~Referred(c, n, b)
    <3>1. /\ EnterOf(c, b) \in E
          /\ \A f \in E : f = EnterOf(c, b) \/ Earlier(c, d, f, EnterOf(c, b))
      BY <2>1, <2>5, JumpUnreferred DEF b
    <3> HIDE DEF E, d, s
    <3>2. Last(s) = EnterOf(c, b) /\ Lists(c, d, Front(s), E \ {EnterOf(c, b)})
      BY <2>1, <2>4, <3>1, ListsLast
    <3>3. ch[n] = Front(s)
      BY <1>3, <1>9, <2>2, <3>2 DEF ChainAdd
    <3>4. Seen(c, n, pre, j + 1, D) = E \ {EnterOf(c, b)}
      BY <1>8, <2>5 DEF E
    <3>5. QED
      BY <3>2, <3>3, <3>4 DEF d
  <2>6. CASE Referred(c, n, b)
    <3>1. s # << >>
      <4>1. E # {}
        BY <2>1 DEF Seen
      <4> HIDE DEF E, d, s
      <4>2. QED
        BY <2>1, <4>1 DEF Lists
    <3>2. Last(s) \in E /\ \A f \in E : f = Last(s) \/ Earlier(c, d, f, Last(s))
      <4> HIDE DEF E, d, s
      <4>1. QED
        BY <2>1, <2>4, <3>1, ListsFront
    <3>3. Last(s).type # "Enter"
      <4> HIDE DEF s
      <4>1. QED
        BY <2>6, <3>2, JumpReferred DEF b
    <3>4. ch[n] = Append(s, e)
      BY <2>2, <3>3 DEF ChainAdd
    <3>5. \A f \in E : Earlier(c, d, f, e)
      <4> SUFFICES ASSUME NEW f \in E
                   PROVE  Earlier(c, d, f, e)
        OBVIOUS
      <4>1. At(c, d, e) = j
        BY <1>3
      <4>2. CASE f \in References(c, n) \cap D
        <5>1. At(c, d, f) < j
          BY <4>2, ReferenceFacts DEF RefsTo
        <5>2. QED
          BY <4>1, <5>1 DEF Earlier
      <4>3. CASE f \in EntersSeen(c, n, j)
        <5>1. At(c, d, f) < j
          BY <4>3, BlockEventFacts DEF EntersSeen
        <5>2. QED
          BY <4>1, <5>1 DEF Earlier
      <4>4. CASE f \in JumpsSeen(c, n, j)
        <5>1. At(c, d, f) < j
          BY <4>4, BlockEventFacts DEF JumpsSeen
        <5>2. QED
          BY <4>1, <5>1 DEF Earlier
      <4>5. CASE f \in Prefixed(c, n, pre)
        <5>1. f = DefEvent(Dummy) /\ d # 0
          BY <4>5 DEF Prefixed
        <5>2. d < At(c, 0, FirstOf(c, n)) /\ d \in 0 .. Len(c)
          BY <5>1, OpeningFacts DEF LoopsAround
        <5>3. PICK g \in References(c, n) : At(c, 0, g) < j
          BY <2>1 DEF RefsTo
        <5> DEFINE h == FirstOf(c, n)
        <5>4. h \in References(c, n) /\ (g = h \/ Earlier(c, 0, h, g))
          BY <5>3, FirstExists DEF IsFirst
        <5>5. At(c, 0, h) \in 1 .. Len(c) /\ At(c, 0, g) \in 1 .. Len(c)
          BY <5>4, ReferencesOf, ReferenceFacts
        <5>6. d < At(c, 0, h)
          BY <5>2
        <5> HIDE DEF h
        <5>7. At(c, 0, h) <= At(c, 0, g)
          BY <1>0, <5>4, <5>5 DEF Earlier
        <5>8. At(c, d, f) = d
          BY <5>1, DummyFacts
        <5> HIDE DEF d
        <5>9. At(c, d, f) < j
          BY <1>0, <5>2, <5>3, <5>5, <5>6, <5>7, <5>8
        <5>10. QED
          BY <4>1, <5>9 DEF Earlier
      <4>6. QED
        BY <4>2, <4>3, <4>4, <4>5 DEF Seen
    <3>6. Seen(c, n, pre, j + 1, D) = E \cup {e}
      BY <1>2, <1>8, <2>6
    <3> HIDE DEF E, d, s
    <3>7. QED
      BY <2>1, <3>4, <3>5, <3>6, ListsAppend DEF d
  <2>7. QED
    BY <2>5, <2>6
<1>12. DOMAIN ch = DOMAIN r.chain
  BY DEF ch
<1>13. \A n : n \in DOMAIN t.chain <=> References(c, n) \cap D # {}
  BY <1>6, <1>12 DEF Records
<1>14. \A n \in DOMAIN t.chain : Lists(c, Opening(c, n), t.chain[n], Seen(c, n, pre, j + 1, D))
  BY <1>6, <1>11, <1>12
<1>15. Lists(c, 0, t.nesting, OpenEnters(c, j + 1))
  BY <1>6, <1>10
<1>16. Records(c, pre, t, j + 1, D)
  BY <1>6, <1>13, <1>14, <1>15 DEF Records
<1>17. QED
  BY <1>6, <1>7, <1>16 DEF t, e

-------------------------------------------------------------------------------
(* The simulated stack *)

\* The nodes that read a parameter.
LEMMA ParFacts ==
  ASSUME NEW c, Structured(c), NEW i \in ParNodes(c)
  PROVE  /\ i \in 1 .. Len(c) /\ c[i].op = "par" /\ Pops(c[i]) = 0 /\ Pushes(c[i]) = 1
         /\ Consumer(c, i) \in i + 1 .. Len(c) /\ Depth(c)[i] \in Nat
         /\ Depth(c)[i + 1] = Depth(c)[i] + 1
<1>1. i \in 1 .. Len(c) /\ c[i].op = "par"
  BY StructuredParts DEF ParNodes
<1>2. Pops(c[i]) = 0 /\ Pushes(c[i]) = 1
  BY <1>1 DEF Pops, Pushes
<1>3. Consumer(c, i) \in i + 1 .. Len(c)
  BY ConsumerFacts
<1>0. Len(c) \in Nat
  BY StructuredParts
<1>4. Depth(c)[i] \in Nat /\ Depth(c)[i + 1] = (Depth(c)[i] - Pops(c[i])) + Pushes(c[i])
  BY <1>0, <1>1, DepthFacts
<1>5. QED
  BY <1>1, <1>2, <1>3, <1>4

\* A parameter that is pushed later and not consumed is higher on the stack.
LEMMA DepthGrows ==
  ASSUME NEW c, Structured(c), NEW i \in ParNodes(c), NEW m \in ParNodes(c),
         i < m, m < Consumer(c, i)
  PROVE  Depth(c)[i] < Depth(c)[m]
<1>0. Len(c) \in Nat
  BY StructuredParts
<1>1. /\ i \in 1 .. Len(c) /\ Consumer(c, i) \in i + 1 .. Len(c)
      /\ m \in 1 .. Len(c) /\ Pops(c[m]) = 0 /\ Depth(c)[m] \in Nat
  BY ParFacts
<1>2. m \in i + 1 .. Consumer(c, i) - 1
  BY <1>0, <1>1
<1>3. Depth(c)[i] < Depth(c)[m] - Pops(c[m])
  BY <1>2, ConsumerFacts
<1>4. QED
  BY <1>1, <1>3

\* The parameters that node j consumes are those that it pops.
LEMMA StackPopped ==
  ASSUME NEW c, Structured(c), NEW j \in 1 .. Len(c), NEW i \in ParNodes(c),
         i < j, j <= Consumer(c, i)
  PROVE  Consumer(c, i) = j <=> Depth(c)[j] - Pops(c[j]) <= Depth(c)[i]
<1>0. Len(c) \in Nat
  BY StructuredParts
<1>1. j \in i + 1 .. Len(c)
  BY <1>0, ParFacts
<1>2. QED
  BY <1>1, ConsumerIs

\* A node takes what it pops off the stack and puts what it pushes on it.
LEMMA StackStep ==
  ASSUME NEW c, Structured(c), NEW j \in 1 .. Len(c), NEW s, StackOK(c, s, j), NEW t,
         t \in Seq(Nat \X Nat), Len(t) = (Len(s) - Pops(c[j])) + Pushes(c[j]),
         \A a \in 1 .. Len(s) - Pops(c[j]) : t[a] = s[a],
         \A a \in (Len(s) - Pops(c[j])) + 1 .. Len(t) :
           t[a] = IF c[j].op = "par" THEN <<j, 0>> ELSE Null
  PROVE  StackOK(c, t, j + 1)
<1> DEFINE n == Len(s) - Pops(c[j])
           k == j + 1
<1>0. Len(c) \in Nat
  BY StructuredParts
<1>1. Len(s) = Depth(c)[j] /\ s \in Seq(Nat \X Nat)
  BY DEF StackOK
<1>2. /\ Depth(c)[j] \in Nat /\ Pops(c[j]) <= Depth(c)[j]
      /\ Depth(c)[k] = (Depth(c)[j] - Pops(c[j])) + Pushes(c[j])
      /\ Pops(c[j]) \in Nat /\ Pushes(c[j]) \in Nat
  <2>1. Pops(c[j]) \in Nat /\ Pushes(c[j]) \in Nat
    BY PopsNat
  <2>2. j \in 1 .. Len(c) + 1
    BY <1>0
  <2>3. Depth(c)[j] \in Nat
    BY <2>2, DepthFacts
  <2>4. /\ Pops(c[j]) <= Depth(c)[j]
        /\ Depth(c)[j + 1] = (Depth(c)[j] - Pops(c[j])) + Pushes(c[j])
    BY DepthFacts
  <2>5. QED
    BY <2>1, <2>3, <2>4
<1>3. n \in Nat /\ Len(t) = Depth(c)[k] /\ n + Pushes(c[j]) = Len(t) /\ n <= Len(s)
  BY <1>1, <1>2
<1>11. Len(t) \in Nat /\ n <= Len(t) /\ Len(s) \in Nat
  BY <1>1, <1>2, <1>3
<1>4. n = Depth(c)[j] - Pops(c[j])
  BY <1>1
<1>5. /\ k = j + 1
      /\ \A a \in 1 .. n : t[a] = s[a]
      /\ \A a \in n + 1 .. Len(t) : t[a] = IF c[j].op = "par" THEN <<j, 0>> ELSE Null
  OBVIOUS
<1> HIDE DEF n, k
<1>6. \A i \in ParNodes(c) : /\ i \in 1 .. Len(c) /\ c[i].op = "par" /\ Depth(c)[i] \in Nat
                             /\ Consumer(c, i) \in i + 1 .. Len(c)
                             /\ Pops(c[i]) = 0 /\ Pushes(c[i]) = 1
  BY ParFacts
<1>12. ASSUME j \in ParNodes(c)
       PROVE  n = Depth(c)[j] /\ Len(t) = n + 1 /\ c[j].op = "par"
  <2> DEFINE pops == Pops(c[j])
             pushes == Pushes(c[j])
             depth == Depth(c)[j]
             len == Len(t)
  <2>1. /\ pops = 0 /\ pushes = 1 /\ depth \in Nat /\ len \in Nat
        /\ n \in Nat /\ n = depth - pops /\ n + pushes = len
    BY <1>2, <1>3, <1>4, <1>6, <1>11, <1>12
  <2> HIDE DEF pops, pushes, depth, len
  <2>2. n = depth /\ len = n + 1
    BY <2>1
  <2>3. QED
    BY <1>6, <1>12, <2>2 DEF depth, len
<1>7. ASSUME NEW a \in 1 .. Len(t), t[a] # Null
      PROVE  \E i \in ParNodes(c) : /\ t[a] = <<i, 0>> /\ i < k
                                    /\ k <= Consumer(c, i)
                                    /\ Depth(c)[i] = a - 1
  <2>1. CASE a <= n
    <3> DEFINE x == Len(s)
    <3>6. a \in 1 .. Len(t) /\ Len(t) \in Nat /\ n \in Nat /\ n <= x /\ x \in Nat
      BY <1>3, <1>11
    <3> HIDE DEF x
    <3>7. a \in 1 .. n /\ a \in 1 .. x
      BY <2>1, <3>6
    <3>1. a \in 1 .. n /\ a \in 1 .. Len(s) /\ t[a] = s[a]
      BY <1>5, <3>7 DEF x
    <3>2. PICK i \in ParNodes(c) : /\ s[a] = <<i, 0>> /\ i < j /\ j <= Consumer(c, i)
                                   /\ Depth(c)[i] = a - 1
      BY <1>7, <3>1 DEF StackOK
    <3>3. Consumer(c, i) # j
      <4> DEFINE d == Depth(c)[i]
      <4>1. d \in Nat /\ d = a - 1
        BY <1>6, <3>2
      <4> HIDE DEF d
      <4>2. ~(n <= d)
        BY <3>6, <3>7, <4>1
      <4>3. QED
        BY <1>4, <3>2, <4>2, StackPopped DEF d
    <3> DEFINE y == Consumer(c, i)
    <3>8. i \in Int /\ y \in Int /\ i < j /\ j <= y /\ y # j
      <4>1. /\ i \in 1 .. Len(c) /\ y \in i + 1 .. Len(c)
        BY <1>6
      <4>2. QED
        BY <1>0, <3>2, <3>3, <4>1
    <3> HIDE DEF y
    <3>9. i < k /\ k <= y
      <4>1. k = j + 1 /\ j \in Int
        BY <1>0, <1>5
      <4>2. QED
        BY <3>8, <4>1
    <3>4. i < k /\ k <= Consumer(c, i)
      BY <3>9 DEF y
    <3>5. QED
      BY <3>1, <3>2, <3>4
  <2>2. CASE ~(a <= n)
    <3>1. a \in n + 1 .. Len(t)
      BY <1>2, <1>3, <2>2
    <3>2. t[a] = <<j, 0>> /\ c[j].op = "par"
      BY <1>5, <1>7, <3>1
    <3>3. j \in ParNodes(c)
      BY <3>2, StructuredParts DEF ParNodes
    <3>4. a = n + 1 /\ n = Depth(c)[j]
      BY <1>3, <1>12, <3>1, <3>3
    <3>5. j < k /\ k <= Consumer(c, j)
      BY <1>0, <1>5, <1>6, <3>3
    <3>6. Depth(c)[j] = a - 1
      BY <1>3, <3>4
    <3>7. QED
      BY <3>2, <3>3, <3>5, <3>6
  <2>3. QED
    BY <2>1, <2>2
<1>8. ASSUME NEW i \in ParNodes(c), i < k, k <= Consumer(c, i)
      PROVE  Depth(c)[i] + 1 \in 1 .. Len(t) /\ t[Depth(c)[i] + 1] = <<i, 0>>
  <2>1. CASE i = j
    <3>1. n = Depth(c)[j] /\ Len(t) = n + 1 /\ c[j].op = "par"
      BY <1>12, <2>1
    <3>2. n + 1 \in n + 1 .. Len(t) /\ n + 1 \in 1 .. Len(t)
      BY <1>3, <3>1
    <3>3. t[n + 1] = <<j, 0>>
      BY <1>5, <3>1, <3>2
    <3>4. QED
      BY <2>1, <3>1, <3>2, <3>3
  <2>2. CASE i # j
    <3>1. i < j /\ j <= Consumer(c, i) /\ Consumer(c, i) # j
      BY <1>0, <1>5, <1>6, <1>8, <2>2
    <3>2. Depth(c)[i] + 1 \in 1 .. Len(s) /\ s[Depth(c)[i] + 1] = <<i, 0>>
      BY <3>1 DEF StackOK
    <3>3. Depth(c)[i] < n
      <4>1. ~(n <= Depth(c)[i])
        BY <1>4, <3>1, StackPopped
      <4>2. QED
        BY <1>3, <1>6, <4>1
    <3> DEFINE x == Depth(c)[i]
               y == Len(t)
    <3>6. x \in Nat /\ y \in Nat /\ n \in Nat /\ n <= y /\ x < n
      BY <1>3, <1>6, <1>11, <3>3
    <3> HIDE DEF x, y
    <3>7. x + 1 \in 1 .. n /\ x + 1 \in 1 .. y
      BY <3>6
    <3>4. Depth(c)[i] + 1 \in 1 .. n /\ Depth(c)[i] + 1 \in 1 .. Len(t)
      BY <3>7 DEF x, y
    <3>5. QED
      BY <1>5, <3>2, <3>4
  <2>3. QED
    BY <2>1, <2>2
<1>9. StackOK(c, t, k)
  BY <1>3, <1>7, <1>8 DEF StackOK
<1>10. QED
  BY <1>9 DEF k

-------------------------------------------------------------------------------
(* The references of a node *)

\* The steps of popping n entries of a stack.
LEMMA PopSteps ==
  ASSUME NEW start, NEW c, NEW n \in Nat, NEW pre, NEW s
  PROVE  LET f == PopSequence(start, c, n, pre, s)
         IN /\ f[0] = start
            /\ \A k \in 1 .. n : f[k] = PopOne(f[k - 1], c, s[(Len(s) - k) + 1], pre)
<1> DEFINE top == Len(s)
           Step(x, k) == PopOne(x, c, s[(top - k) + 1], pre)
           F(f, m) == [k \in 0 .. m |-> IF k = 0 THEN start ELSE Step(f[k - 1], k)]
           T == {m \in 0 .. n : \E f : f = F(f, m)}
<1> HIDE DEF Step, top
<1>2. 0 \in T
  <2> DEFINE f == [k \in 0 .. 0 |-> start]
  <2>1. f = F(f, 0)
    OBVIOUS
  <2> HIDE DEF f, F
  <2>2. QED
    BY <2>1
<1>3. ASSUME NEW m \in 0 .. n, m < n, m \in T
      PROVE  m + 1 \in T
  <2>1. PICK f : f = F(f, m)
    BY <1>3
  <2> DEFINE g == [k \in 0 .. m + 1 |-> IF k = m + 1 THEN Step(f[m], m + 1) ELSE f[k]]
  <2>2. \A k \in 0 .. m + 1 : g[k] = F(g, m + 1)[k]
    <3> SUFFICES ASSUME NEW k \in 0 .. m + 1
                 PROVE  g[k] = F(g, m + 1)[k]
      OBVIOUS
    <3>1. CASE k = m + 1
      <4>1. k - 1 = m /\ k # 0 /\ g[m] = f[m]
        BY <3>1
      <4>2. QED
        BY <3>1, <4>1
    <3>2. CASE k # m + 1
      <4>1. k \in 0 .. m /\ g[k] = f[k]
        BY <3>2
      <4>2. f[k] = F(f, m)[k]
        BY <2>1
      <4>3. k # 0 => g[k - 1] = f[k - 1]
        BY <4>1
      <4>4. QED
        BY <4>1, <4>2, <4>3
    <3>3. QED
      BY <3>1, <3>2
  <2>3. g = F(g, m + 1)
    <3>1. DOMAIN g = 0 .. m + 1 /\ g = [k \in 0 .. m + 1 |-> g[k]]
      OBVIOUS
    <3> HIDE DEF g
    <3>2. QED
      BY <2>2, <3>1
  <2> HIDE DEF g, F
  <2>4. QED
    BY <1>3, <2>3
<1> HIDE DEF T
<1>4. n \in T
  <2>1. \A m \in 0 .. n : m \in T
    BY <1>2, <1>3, Climb
  <2>2. QED
    BY <2>1
<1>5. PICK f0 : f0 = F(f0, n)
  <2> HIDE DEF F
  <2>1. QED
    BY <1>4 DEF T
<1> DEFINE f == CHOOSE f1 : f1 = F(f1, n)
<1>6. f = F(f, n)
  <2> HIDE DEF F
  <2>1. QED
    BY <1>5
<1> HIDE DEF f
<1>7. f[0] = start /\ \A k \in 1 .. n : f[k] = Step(f[k - 1], k)
  BY <1>6
<1>9. QED
  BY <1>7 DEF f, F, Step, top, PopSequence

\* UseDefRecorder pops the entries one by one.
LEMMA PopUsesSteps ==
  ASSUME NEW r, NEW c, NEW n, NEW pre
  PROVE  PopUses(r, c, n, pre) = PopSequence(Popped(r, n), c, n, pre, r.stack)[n]
BY DEF PopUses, PopOne, PopSequence, Popped

\* UseDefRecorder adds the Defs of an assignment one by one.
LEMMA AddDefsSteps ==
  ASSUME NEW r, NEW c, NEW i, NEW pre, Len(c[i].lhs) \in Nat
  PROVE  \E f : /\ f[0] = r
                /\ \A k \in 1 .. Len(c[i].lhs) :
                     f[k] = AddReference(f[k - 1], c[i].lhs[k], DefEvent(<<i, k>>), pre)
                /\ AddDefs(r, c, i, pre) = f[Len(c[i].lhs)]
<1> DEFINE n == Len(c[i].lhs)
           Step(x, k) == AddReference(x, c[i].lhs[k], DefEvent(<<i, k>>), pre)
           F(f, m) == [k \in 0 .. m |-> IF k = 0 THEN r ELSE Step(f[k - 1], k)]
           T == {m \in 0 .. n : \E f : f = F(f, m)}
<1>1. AddDefs(r, c, i, pre) = (CHOOSE f : f = F(f, n))[n]
  BY DEF AddDefs
<1>0. n \in Nat
  OBVIOUS
<1> HIDE DEF n, Step
<1>2. 0 \in T
  <2> DEFINE f == [k \in 0 .. 0 |-> r]
  <2>1. f = F(f, 0)
    OBVIOUS
  <2> HIDE DEF f, F
  <2>2. QED
    BY <1>0, <2>1
<1>3. ASSUME NEW m \in 0 .. n, m < n, m \in T
      PROVE  m + 1 \in T
  <2>1. PICK f : f = F(f, m)
    BY <1>3
  <2> DEFINE g == [k \in 0 .. m + 1 |-> IF k = m + 1 THEN Step(f[m], m + 1) ELSE f[k]]
  <2>2. \A k \in 0 .. m + 1 : g[k] = F(g, m + 1)[k]
    <3> SUFFICES ASSUME NEW k \in 0 .. m + 1
                 PROVE  g[k] = F(g, m + 1)[k]
      OBVIOUS
    <3>1. CASE k = m + 1
      <4>1. k - 1 = m /\ k # 0 /\ g[m] = f[m]
        BY <1>0, <3>1
      <4>2. QED
        BY <3>1, <4>1
    <3>2. CASE k # m + 1
      <4>1. k \in 0 .. m /\ g[k] = f[k]
        BY <1>0, <3>2
      <4>2. f[k] = F(f, m)[k]
        BY <2>1
      <4>3. k # 0 => g[k - 1] = f[k - 1]
        BY <1>0, <4>1
      <4>4. QED
        BY <4>1, <4>2, <4>3
    <3>3. QED
      BY <3>1, <3>2
  <2>3. g = F(g, m + 1)
    <3>1. DOMAIN g = 0 .. m + 1 /\ g = [k \in 0 .. m + 1 |-> g[k]]
      OBVIOUS
    <3> HIDE DEF g
    <3>2. QED
      BY <2>2, <3>1
  <2> HIDE DEF g, F
  <2>4. QED
    BY <1>0, <1>3, <2>3
<1> HIDE DEF T
<1>4. n \in T
  <2>1. \A m \in 0 .. n : m \in T
    BY <1>0, <1>2, <1>3, Climb
  <2>2. QED
    BY <1>0, <2>1
<1>5. PICK f0 : f0 = F(f0, n)
  <2> HIDE DEF F
  <2>1. QED
    BY <1>4 DEF T
<1> DEFINE f == CHOOSE f1 : f1 = F(f1, n)
<1>6. f = F(f, n)
  <2> HIDE DEF F
  <2>1. QED
    BY <1>5
<1> HIDE DEF f
<1>7. f[0] = r /\ \A k \in 1 .. n : f[k] = Step(f[k - 1], k)
  BY <1>0, <1>6
<1>8. AddDefs(r, c, i, pre) = f[n]
  BY <1>1 DEF f
<1>9. QED
  BY <1>7, <1>8 DEF n, Step

\* A parameter that is read is recorded as a Use.
LEMMA UseFacts ==
  ASSUME NEW c, Structured(c), NEW i \in ParNodes(c)
  PROVE  LET e == UseEvent(<<i, 0>>) IN
         /\ e \in AllReferences(c) /\ e \in References(c, NameOf(c, <<i, 0>>))
         /\ e.par = <<i, 0>> /\ e.type = "Use"
         /\ At(c, 0, e) = Consumer(c, i) /\ Rank(c, e) = Len(c) - i
<1> DEFINE p == <<i, 0>>
           e == UseEvent(p)
<1>1. p \in Occurrences(c) /\ p[2] = 0 /\ p[1] = i
  BY DEF Occurrences
<1>2. EventOf(p) = e
  BY <1>1 DEF EventOf
<1> HIDE DEF p, e
<1>3. e \in AllReferences(c) /\ e \in References(c, NameOf(c, p))
  BY <1>1, <1>2 DEF AllReferences, References
<1>4. e.par = p /\ e.type = "Use"
  BY <1>1, <1>2, EventOfFacts
<1>5. At(c, 0, e) = Consumer(c, i) /\ Rank(c, e) = Len(c) - i
  BY <1>1, <1>3, <1>4, ReferenceFacts
<1>6. QED
  BY <1>3, <1>4, <1>5 DEF p, e

\* A Def is recorded for each parameter that is assigned.
LEMMA DefFacts ==
  ASSUME NEW c, Structured(c), NEW j \in 1 .. Len(c), NEW k \in 1 .. Len(c[j].lhs)
  PROVE  LET e == DefEvent(<<j, k>>) IN
         /\ e \in AllReferences(c) /\ e \in References(c, c[j].lhs[k])
         /\ e.par = <<j, k>> /\ e.type = "Def"
         /\ At(c, 0, e) = j /\ Rank(c, e) = Len(c) + k
<1> DEFINE p == <<j, k>>
           e == DefEvent(p)
<1>0. c[j].lhs \in Seq(STRING) /\ DOMAIN c = 1 .. Len(c)
  BY StructuredParts DEF NodeOK
<1>7. Len(c[j].lhs) \in Nat /\ DOMAIN c[j].lhs = 1 .. Len(c[j].lhs)
  BY <1>0, LenProperties
<1>1. p \in Occurrences(c) /\ p[2] = k /\ p[1] = j /\ k # 0
  BY <1>0, <1>7 DEF Occurrences
<1>2. EventOf(p) = e /\ NameOf(c, p) = c[j].lhs[k]
  BY <1>1 DEF EventOf, NameOf
<1> HIDE DEF p, e
<1>3. e \in AllReferences(c) /\ e \in References(c, c[j].lhs[k])
  BY <1>1, <1>2 DEF AllReferences, References
<1>4. e.par = p /\ e.type = "Def"
  BY <1>1, <1>2, EventOfFacts
<1>5. At(c, 0, e) = j /\ Rank(c, e) = Len(c) + k
  BY <1>1, <1>3, <1>4, ReferenceFacts
<1>6. QED
  BY <1>3, <1>4, <1>5 DEF p, e

\* A reference is such a Use or such a Def.
LEMMA ReferenceIs ==
  ASSUME NEW c, Structured(c), NEW e \in AllReferences(c)
  PROVE  \/ \E i \in ParNodes(c) : e = UseEvent(<<i, 0>>)
         \/ \E j \in 1 .. Len(c) : \E k \in 1 .. Len(c[j].lhs) : e = DefEvent(<<j, k>>)
<1> DEFINE p == e.par
<1>1. p \in Occurrences(c) /\ e = EventOf(p)
  BY ReferenceFacts
<1> HIDE DEF p
<1>2. /\ p = <<p[1], p[2]>> /\ p[1] \in 1 .. Len(c) /\ p[2] \in Nat
      /\ p[2] = 0 => p[1] \in ParNodes(c)
      /\ p[2] # 0 => c[p[1]].op = "ass" /\ p[2] \in 1 .. Len(c[p[1]].lhs)
  BY <1>1, OccurrenceFacts
<1>3. CASE p[2] = 0
  <2>1. e = UseEvent(p) /\ p = <<p[1], 0>>
    BY <1>1, <1>2, <1>3 DEF EventOf
  <2>2. e = UseEvent(<<p[1], 0>>)
    BY <2>1
  <2>3. QED
    BY <1>2, <1>3, <2>2
<1>4. CASE p[2] # 0
  <2>1. e = DefEvent(p)
    BY <1>1, <1>4 DEF EventOf
  <2>2. e = DefEvent(<<p[1], p[2]>>)
    BY <1>2, <2>1
  <2>3. QED
    BY <1>2, <1>4, <2>2
<1>5. QED
  BY <1>3, <1>4

\* The entry that is popped next is the Use that is recorded next.
LEMMA NextUse ==
  ASSUME NEW c, Structured(c), NEW j \in 1 .. Len(c), NEW s, StackOK(c, s, j),
         NEW k \in 1 .. Pops(c[j]), NEW m, m = k - 1, NEW p, p = s[(Len(s) - k) + 1]
  PROVE  /\ \A f : f \in UsesTaken(c, j, k) <=>
                     f \in UsesTaken(c, j, m) \/ (p # Null /\ f = UseEvent(p))
         /\ p # Null =>
              /\ UseEvent(p) \in References(c, NameOf(c, p)) /\ At(c, 0, UseEvent(p)) = j
              /\ \A f \in AllReferences(c) :
                   f \in RefsTo(c, j) \cup UsesTaken(c, j, m) <=>
                     Earlier(c, 0, f, UseEvent(p))
<1> DEFINE top == Depth(c)[j]
           h == top - k
<1>0. Len(c) \in Nat
  BY StructuredParts
<1>1. top \in Nat /\ Pops(c[j]) <= top /\ Pops(c[j]) \in Nat /\ Len(s) = top
  <2>1. Len(s) = top
    BY DEF StackOK
  <2>2. Pops(c[j]) \in Nat
    BY PopsNat
  <2>3. top \in Nat /\ Pops(c[j]) <= top
    BY <1>0, DepthFacts
  <2>4. QED
    BY <2>1, <2>2, <2>3
<1>2. h \in Nat /\ h + 1 \in 1 .. top /\ top - m = h + 1 /\ p = s[h + 1]
  <2> DEFINE pops == Pops(c[j])
             len == Len(s)
  <2>1. /\ top \in Nat /\ pops \in Nat /\ pops <= top /\ len = top /\ k \in 1 .. pops
        /\ m = k - 1 /\ p = s[(len - k) + 1]
    BY <1>1
  <2> HIDE DEF top, pops, len
  <2>2. h \in Nat /\ h + 1 \in 1 .. top /\ top - m = h + 1 /\ (len - k) + 1 = h + 1
    BY <2>1
  <2>3. QED
    BY <2>1, <2>2
<1>3. \A i \in ParNodes(c) : /\ i \in 1 .. Len(c) /\ Depth(c)[i] \in Nat
                             /\ Consumer(c, i) \in i + 1 .. Len(c)
  BY ParFacts
<1>4. \A f : f \in UsesTaken(c, j, k) <=>
               \E i \in ParNodes(c) : f = UseEvent(<<i, 0>>) /\ Consumer(c, i) = j
                                      /\ h <= Depth(c)[i]
  BY DEF UsesTaken
<1>5. \A f : f \in UsesTaken(c, j, m) <=>
               \E i \in ParNodes(c) : f = UseEvent(<<i, 0>>) /\ Consumer(c, i) = j
                                      /\ h + 1 <= Depth(c)[i]
  BY <1>2 DEF UsesTaken
<1>6. \A i \in ParNodes(c) : Consumer(c, i) = j =>
        /\ i < j
        /\ h <= Depth(c)[i] <=> h + 1 <= Depth(c)[i] \/ Depth(c)[i] = h
        /\ Depth(c)[i] = h => p = <<i, 0>>
  <2> SUFFICES ASSUME NEW i \in ParNodes(c), Consumer(c, i) = j
               PROVE  /\ i < j
                      /\ h <= Depth(c)[i] <=> h + 1 <= Depth(c)[i] \/ Depth(c)[i] = h
                      /\ Depth(c)[i] = h => p = <<i, 0>>
    OBVIOUS
  <2>1. i < j
    BY <1>0, <1>3
  <2>2. h <= Depth(c)[i] <=> h + 1 <= Depth(c)[i] \/ Depth(c)[i] = h
    BY <1>2, <1>3
  <2>3. j <= Consumer(c, i)
    BY <1>0
  <2>4. s[Depth(c)[i] + 1] = <<i, 0>>
    BY <2>1, <2>3 DEF StackOK
  <2>5. QED
    BY <1>2, <2>1, <2>2, <2>4
<1> HIDE DEF h
<1>7. CASE p = Null
  <2>1. \A i \in ParNodes(c) : Consumer(c, i) = j => Depth(c)[i] # h
    BY <1>3, <1>6, <1>7 DEF Null
  <2>2. \A f : f \in UsesTaken(c, j, k) <=> f \in UsesTaken(c, j, m)
    BY <1>4, <1>5, <1>6, <2>1
  <2>3. QED
    BY <1>7, <2>2
<1>8. CASE p # Null
  <2>1. PICK i \in ParNodes(c) : p = <<i, 0>> /\ i < j /\ j <= Consumer(c, i)
                                 /\ Depth(c)[i] = h
    <3>1. h + 1 \in 1 .. Len(s) /\ s[h + 1] # Null
      BY <1>1, <1>2, <1>8
    <3>2. PICK i \in ParNodes(c) : s[h + 1] = <<i, 0>> /\ i < j /\ j <= Consumer(c, i)
                                 /\ Depth(c)[i] = (h + 1) - 1
      BY <3>1 DEF StackOK
    <3>3. QED
      BY <1>2, <3>2
  <2>2. Consumer(c, i) = j
    <3>1. Depth(c)[j] - Pops(c[j]) <= Depth(c)[i]
      BY <1>1, <2>1 DEF h
    <3>2. QED
      BY <2>1, <3>1, StackPopped
  <2> DEFINE e == UseEvent(p)
  <2>3. /\ e \in AllReferences(c) /\ e \in References(c, NameOf(c, p))
        /\ At(c, 0, e) = j /\ Rank(c, e) = Len(c) - i
    BY <2>1, <2>2, UseFacts
  <2>4. \A x \in ParNodes(c) : Consumer(c, x) = j /\ Depth(c)[x] = h => x = i
    BY <1>6, <2>1
  <2>5. \A f : f \in UsesTaken(c, j, k) <=> f \in UsesTaken(c, j, m) \/ f = e
    <3>1. e = UseEvent(<<i, 0>>)
      BY <2>1
    <3> HIDE DEF e
    <3>2. \A x \in ParNodes(c) : Consumer(c, x) = j =>
            (h <= Depth(c)[x] <=> h + 1 <= Depth(c)[x] \/ x = i)
      BY <1>6, <2>1, <2>4
    <3>3. QED
      BY <1>4, <1>5, <2>2, <3>1, <3>2
  <2>6. \A x \in ParNodes(c) : Consumer(c, x) = j => (i < x <=> h + 1 <= Depth(c)[x])
    <3> SUFFICES ASSUME NEW x \in ParNodes(c), Consumer(c, x) = j
                 PROVE  i < x <=> h + 1 <= Depth(c)[x]
      OBVIOUS
    <3>1. x < j
      BY <1>6
    <3>2. i < x => Depth(c)[i] < Depth(c)[x]
      BY <2>2, <3>1, DepthGrows
    <3>3. x < i => Depth(c)[x] < Depth(c)[i]
      BY <2>1, DepthGrows
    <3>4. x \in Int /\ i \in Int
      BY <1>3
    <3>5. CASE i < x
      BY <1>2, <1>3, <2>1, <3>2, <3>5
    <3>6. CASE x < i
      BY <1>2, <1>3, <2>1, <3>3, <3>4, <3>6
    <3>7. CASE x = i
      BY <1>2, <2>1, <3>4, <3>7
    <3>8. QED
      BY <3>4, <3>5, <3>6, <3>7
  <2> HIDE DEF e
  <2>7. ASSUME NEW f \in AllReferences(c)
        PROVE  f \in RefsTo(c, j) \cup UsesTaken(c, j, m) <=> Earlier(c, 0, f, e)
    <3>1. f \in RefsTo(c, j) <=> At(c, 0, f) < j
      BY DEF RefsTo
    <3>2. Earlier(c, 0, f, e) <=>
            At(c, 0, f) < j \/ (At(c, 0, f) = j /\ Rank(c, f) < Len(c) - i)
      BY <2>3 DEF Earlier
    <3>3. CASE \E x \in ParNodes(c) : f = UseEvent(<<x, 0>>)
      <4>1. PICK x \in ParNodes(c) : f = UseEvent(<<x, 0>>)
        BY <3>3
      <4>2. At(c, 0, f) = Consumer(c, x) /\ Rank(c, f) = Len(c) - x /\ f.par = <<x, 0>>
        BY <4>1, UseFacts
      <4>3. f \in UsesTaken(c, j, m) <=> Consumer(c, x) = j /\ h + 1 <= Depth(c)[x]
        <5>1. \A y \in ParNodes(c) : f = UseEvent(<<y, 0>>) => y = x
          <6> SUFFICES ASSUME NEW y \in ParNodes(c), f = UseEvent(<<y, 0>>)
                       PROVE  y = x
            OBVIOUS
          <6>1. f.par = <<y, 0>>
            BY UseFacts
          <6>2. QED
            BY <4>2, <6>1
        <5>2. QED
          BY <1>5, <4>1, <5>1
      <4>4. Rank(c, f) < Len(c) - i <=> i < x
        <5>1. x \in Int /\ i \in Int
          BY <1>3
        <5>2. QED
          BY <1>0, <4>2, <5>1
      <4>5. QED
        BY <2>6, <3>1, <3>2, <4>2, <4>3, <4>4
    <3>4. CASE \E l \in 1 .. Len(c) : \E x \in 1 .. Len(c[l].lhs) : f = DefEvent(<<l, x>>)
      <4>6. PICK l \in 1 .. Len(c) : \E x \in 1 .. Len(c[l].lhs) : f = DefEvent(<<l, x>>)
        BY <3>4
      <4>1. PICK x \in 1 .. Len(c[l].lhs) : f = DefEvent(<<l, x>>)
        BY <4>6
      <4>2. Rank(c, f) = Len(c) + x /\ f.type = "Def"
        BY <4>1, DefFacts
      <4>3. f \notin UsesTaken(c, j, m)
        BY <1>5, <4>2, UseFacts
      <4>4. ~(Rank(c, f) < Len(c) - i)
        <5>1. x \in Int /\ i \in Int /\ 0 < x /\ 0 < i
          BY <1>3
        <5>2. QED
          BY <1>0, <4>2, <5>1
      <4>5. QED
        BY <3>1, <3>2, <4>3, <4>4
    <3>5. QED
      BY <3>3, <3>4, ReferenceIs
  <2>8. QED
    BY <1>8, <2>3, <2>5, <2>7 DEF e
<1>9. QED
  BY <1>7, <1>8

\* The stack and the dynamic section are no part of what is recorded.
LEMMA RecordsFields ==
  ASSUME NEW c, NEW pre, NEW r, NEW j, NEW D, Records(c, pre, r, j, D), NEW t, NEW s, NEW dyn,
         t = [chain |-> r.chain, nesting |-> r.nesting, stack |-> s, dynamic |-> dyn]
  PROVE  Records(c, pre, t, j, D) /\ t.stack = s
<1>1. t.chain = r.chain /\ t.nesting = r.nesting /\ t.stack = s /\ t.dynamic = dyn
  OBVIOUS
<1>2. t = [chain |-> t.chain, nesting |-> t.nesting, stack |-> t.stack, dynamic |-> t.dynamic]
  BY <1>1
<1>3. QED
  BY <1>1, <1>2 DEF Records

\* What is recorded depends on the set of references only.
LEMMA RecordsSame ==
  ASSUME NEW c, NEW pre, NEW r, NEW j, NEW D, NEW E, Records(c, pre, r, j, D),
         \A f : f \in D <=> f \in E
  PROVE  Records(c, pre, r, j, E)
<1>1. D = E
  OBVIOUS
<1>2. QED
  BY <1>1

\* UseDefAnalyzer's pops add the Uses of the node.
LEMMA PopUsesRecords ==
  ASSUME NEW c, Structured(c), NEW pre \in BOOLEAN, NEW r, NEW j \in 1 .. Len(c),
         Records(c, pre, r, j, RefsTo(c, j)), StackOK(c, r.stack, j),
         NEW n, n = Pops(c[j])
  PROVE  LET t == PopUses(r, c, n, pre) IN
         /\ Records(c, pre, t, j, RefsAndUses(c, j))
         /\ t.stack = SubSeq(r.stack, 1, Len(r.stack) - n)
<1> DEFINE s == r.stack
           rest == SubSeq(s, 1, Len(s) - n)
           D == RefsTo(c, j)
<1>0. n \in Nat
  BY PopsNat
<1> DEFINE f == PopSequence(Popped(r, n), c, n, pre, s)
<1>1. /\ f[0] = Popped(r, n)
      /\ \A k \in 1 .. n : f[k] = PopOne(f[k - 1], c, s[(Len(s) - k) + 1], pre)
      /\ PopUses(r, c, n, pre) = f[n]
  <2> HIDE DEF rest
  <2>1. PopUses(r, c, n, pre) = f[n]
    BY PopUsesSteps
  <2>2. /\ f[0] = Popped(r, n)
        /\ \A k \in 1 .. n : f[k] = PopOne(f[k - 1], c, s[(Len(s) - k) + 1], pre)
    BY <1>0, PopSteps
  <2>3. QED
    BY <2>1, <2>2
<1> HIDE DEF f, s
<1>2. r = [chain |-> r.chain, nesting |-> r.nesting, stack |-> r.stack, dynamic |-> r.dynamic]
  BY DEF Records
<1> HIDE DEF rest
<1> DEFINE T == {k \in 0 .. n : /\ Records(c, pre, f[k], j, D \cup UsesTaken(c, j, k))
                                /\ f[k].stack = rest}
<1>3. 0 \in T
  <2>1. f[0] = [chain |-> r.chain, nesting |-> r.nesting, stack |-> rest, dynamic |-> r.dynamic]
    BY <1>1, <1>2 DEF Popped, rest, s
  <2>2. Records(c, pre, f[0], j, D) /\ f[0].stack = rest
    BY <2>1, RecordsFields
  <2>3. UsesTaken(c, j, 0) = {}
    <3> SUFFICES ASSUME NEW i \in ParNodes(c), Consumer(c, i) = j,
                        Depth(c)[j] - 0 <= Depth(c)[i]
                 PROVE  FALSE
      BY DEF UsesTaken
    <3>0. Len(c) \in Nat
      BY StructuredParts
    <3>1. i < j /\ j <= Consumer(c, i) /\ Depth(c)[i] \in Nat
      BY <3>0, ParFacts
    <3>2. Depth(c)[i] + 1 \in 1 .. Len(s) /\ Len(s) = Depth(c)[j]
      BY <3>1 DEF StackOK, s
    <3>3. Depth(c)[j] \in Nat
      BY <3>0, DepthFacts
    <3>4. QED
      BY <3>1, <3>2, <3>3
  <2>4. D \cup UsesTaken(c, j, 0) = D
    BY <2>3
  <2> HIDE DEF D
  <2>5. Records(c, pre, f[0], j, D \cup UsesTaken(c, j, 0))
    BY <2>2, <2>4
  <2>6. QED
    BY <1>0, <2>2, <2>5
<1>4. ASSUME NEW m \in 0 .. n, m < n, m \in T
      PROVE  m + 1 \in T
  <2> DEFINE k == m + 1
             p == s[(Len(s) - k) + 1]
  <2>1. k \in 1 .. n /\ m = k - 1 /\ k \in 0 .. n /\ k \in 1 .. Pops(c[j])
    BY <1>0, <1>4
  <2> HIDE DEF k
  <2>2. f[k] = PopOne(f[m], c, p, pre)
    BY <1>1, <2>1
  <2>3. Records(c, pre, f[m], j, D \cup UsesTaken(c, j, m)) /\ f[m].stack = rest
    BY <1>4
  <2>4. p = s[(Len(s) - k) + 1]
    OBVIOUS
  <2> HIDE DEF p, s, D, T
  <2>8. StackOK(c, s, j)
    BY DEF s
  <2>9. \A g : g \in UsesTaken(c, j, k) <=>
                g \in UsesTaken(c, j, m) \/ (p # Null /\ g = UseEvent(p))
    BY <2>1, <2>4, <2>8, NextUse
  <2>5. CASE p = Null
    <3>1. \A g : g \in UsesTaken(c, j, k) <=> g \in UsesTaken(c, j, m)
      BY <2>5, <2>9
    <3>2. \A g : g \in D \cup UsesTaken(c, j, m) <=> g \in D \cup UsesTaken(c, j, k)
      BY <3>1
    <3>3. f[k] = f[m]
      BY <2>2, <2>5 DEF PopOne
    <3>4. Records(c, pre, f[k], j, D \cup UsesTaken(c, j, k))
      BY <2>3, <3>2, <3>3, RecordsSame
    <3>5. QED
      BY <2>1, <2>3, <3>3, <3>4 DEF T, k
  <2>6. CASE p # Null
    <3> DEFINE e == UseEvent(p)
               nm == NameOf(c, p)
               E == D \cup UsesTaken(c, j, m)
    <3>1. /\ e \in References(c, nm) /\ At(c, 0, e) = j
          /\ \A g \in AllReferences(c) : g \in E <=> Earlier(c, 0, g, e)
      BY <2>1, <2>4, <2>6, <2>8, NextUse DEF D
    <3>2. f[k] = AddReference(f[m], nm, e, pre)
      BY <2>2, <2>6 DEF PopOne
    <3>3. Records(c, pre, f[m], j, E)
      BY <2>3
    <3>4. \A g : g \in E \cup {e} <=> g \in D \cup UsesTaken(c, j, k)
      BY <2>6, <2>9
    <3> HIDE DEF e, nm, E
    <3>5. \A g \in References(c, nm) : g \in E <=> Earlier(c, 0, g, e)
      BY <3>1, ReferencesOf
    <3>6. /\ Records(c, pre, f[k], j, E \cup {e})
          /\ f[k].stack = f[m].stack
      BY <3>1, <3>2, <3>3, <3>5, AddReferenceRecords, SMTT(60)
    <3>7. Records(c, pre, f[k], j, D \cup UsesTaken(c, j, k))
      BY <3>4, <3>6, RecordsSame
    <3>8. QED
      BY <2>1, <2>3, <3>6, <3>7 DEF T, k
  <2>7. QED
    BY <2>5, <2>6
<1> HIDE DEF T
<1>5. n \in T
  <2>0. n \in Int /\ 0 \in Int
    BY <1>0
  <2> HIDE DEF D
  <2>1. \A m \in 0 .. n : m \in T
    BY <2>0, <1>3, <1>4, Climb
  <2>2. QED
    BY <1>0, <2>1
<1>6. QED
  BY <1>1, <1>5 DEF T, rest, s, RefsAndUses

\* The Uses of a node are all that it takes.
LEMMA UsesTakenAll ==
  ASSUME NEW c, Structured(c), NEW j \in 1 .. Len(c), NEW n, n = Pops(c[j])
  PROVE  \A f : f \in UsesTaken(c, j, n) <=>
                  f \in AllReferences(c) /\ At(c, 0, f) = j /\ f.type = "Use"
<1>1. ASSUME NEW f \in UsesTaken(c, j, n)
      PROVE  f \in AllReferences(c) /\ At(c, 0, f) = j /\ f.type = "Use"
  <2>1. PICK i \in ParNodes(c) : f = UseEvent(<<i, 0>>) /\ Consumer(c, i) = j
    BY DEF UsesTaken
  <2>2. QED
    BY <2>1, UseFacts
<1>2. ASSUME NEW f \in AllReferences(c), At(c, 0, f) = j, f.type = "Use"
      PROVE  f \in UsesTaken(c, j, n)
  <2>1. ~\E l \in 1 .. Len(c) : \E k \in 1 .. Len(c[l].lhs) : f = DefEvent(<<l, k>>)
    BY <1>2, DefFacts
  <2>2. PICK i \in ParNodes(c) : f = UseEvent(<<i, 0>>)
    BY <2>1, ReferenceIs
  <2>3. Consumer(c, i) = j
    BY <1>2, <2>2, UseFacts
  <2>4. Depth(c)[j] - n <= Depth(c)[i]
    BY <2>3, ConsumerFacts
  <2>5. QED
    BY <2>2, <2>3, <2>4 DEF UsesTaken
<1>3. QED
  BY <1>1, <1>2

\* UseDefAnalyzer adds the Defs of an assignment.
LEMMA AddDefsRecords ==
  ASSUME NEW c, Structured(c), NEW pre \in BOOLEAN, NEW r, NEW j \in 1 .. Len(c),
         c[j].op = "ass",
         Records(c, pre, r, j, RefsAndUses(c, j))
  PROVE  LET t == AddDefs(r, c, j, pre) IN
         /\ Records(c, pre, t, j, RefsTo(c, j + 1))
         /\ t.stack = r.stack
<1>10. Len(c[j].lhs) \in Nat /\ Len(c) \in Nat
  <2>1. c[j].lhs \in Seq(STRING)
    BY StructuredParts DEF NodeOK
  <2>2. QED
    BY <2>1, LenProperties, StructuredParts
<1>11. \E f : /\ f[0] = r
              /\ \A k \in 1 .. Len(c[j].lhs) :
                   f[k] = AddReference(f[k - 1], c[j].lhs[k], DefEvent(<<j, k>>), pre)
              /\ AddDefs(r, c, j, pre) = f[Len(c[j].lhs)]
  BY <1>10, AddDefsSteps
<1>12. PICK f : /\ f[0] = r
                /\ \A k \in 1 .. Len(c[j].lhs) :
                     f[k] = AddReference(f[k - 1], c[j].lhs[k], DefEvent(<<j, k>>), pre)
                /\ AddDefs(r, c, j, pre) = f[Len(c[j].lhs)]
  BY <1>11
<1> DEFINE lhs == c[j].lhs
           n == Len(lhs)
           D == RefsAndUses(c, j)
           G(k) == D \cup {DefEvent(<<j, l>>) : l \in 1 .. k}
<1>0. n \in Nat /\ Len(c) \in Nat
  BY <1>10
<1>1. /\ f[0] = r
      /\ \A k \in 1 .. n : f[k] = AddReference(f[k - 1], lhs[k], DefEvent(<<j, k>>), pre)
      /\ AddDefs(r, c, j, pre) = f[n]
  BY <1>12
<1>2. \A g : g \in D <=> g \in AllReferences(c) /\ (At(c, 0, g) < j \/
                                                    (At(c, 0, g) = j /\ g.type = "Use"))
  <2>1. \A g : g \in D <=> g \in RefsTo(c, j) \/ g \in UsesTaken(c, j, Pops(c[j]))
    BY DEF RefsAndUses
  <2>2. \A g : g \in UsesTaken(c, j, Pops(c[j])) <=>
                  g \in AllReferences(c) /\ At(c, 0, g) = j /\ g.type = "Use"
    BY UsesTakenAll
  <2>3. QED
    BY <2>1, <2>2 DEF RefsTo
<1> DEFINE T == {k \in 0 .. n : Records(c, pre, f[k], j, G(k)) /\ f[k].stack = r.stack}
<1> HIDE DEF lhs, n, D
<1>3. 0 \in T
  <2>1. G(0) = D
    OBVIOUS
  <2>2. Records(c, pre, f[0], j, D)
    BY <1>1 DEF D
  <2> HIDE DEF G
  <2>3. Records(c, pre, f[0], j, G(0))
    BY <2>1, <2>2
  <2>4. QED
    BY <1>0, <1>1, <2>3
<1>4. ASSUME NEW m \in 0 .. n, m < n, m \in T
      PROVE  m + 1 \in T
  <2> DEFINE k == m + 1
             e == DefEvent(<<j, k>>)
             nm == lhs[k]
  <2>1. k \in 1 .. n /\ m = k - 1 /\ k \in 0 .. n
    BY <1>0, <1>4
  <2> HIDE DEF k
  <2>2. f[k] = AddReference(f[m], nm, e, pre)
    BY <1>1, <2>1
  <2>3. Records(c, pre, f[m], j, G(m)) /\ f[m].stack = r.stack
    BY <1>4
  <2>4. /\ e \in AllReferences(c) /\ e \in References(c, nm)
        /\ At(c, 0, e) = j /\ Rank(c, e) = Len(c) + k /\ e.par = <<j, k>>
    BY <2>1, DefFacts DEF n, lhs
  <2>5. ASSUME NEW g \in AllReferences(c)
        PROVE  g \in G(m) <=> Earlier(c, 0, g, e)
    <3>1. Earlier(c, 0, g, e) <=>
            At(c, 0, g) < j \/ (At(c, 0, g) = j /\ Rank(c, g) < Len(c) + k)
      BY <2>4 DEF Earlier
    <3>2. CASE \E i \in ParNodes(c) : g = UseEvent(<<i, 0>>)
      <4>1. PICK i \in ParNodes(c) : g = UseEvent(<<i, 0>>)
        BY <3>2
      <4>2. g.type = "Use" /\ Rank(c, g) = Len(c) - i
        BY <4>1, UseFacts
      <4>3. i \in 1 .. Len(c)
        BY ParFacts
      <4>4. Rank(c, g) < Len(c) + k
        BY <1>0, <2>1, <4>2, <4>3
      <4>5. \A l \in 1 .. m : g # DefEvent(<<j, l>>)
        BY <4>2 DEF DefEvent, Event
      <4>6. QED
        BY <1>2, <3>1, <4>2, <4>4, <4>5
    <3>3. CASE \E i \in 1 .. Len(c) : \E l \in 1 .. Len(c[i].lhs) : g = DefEvent(<<i, l>>)
      <4>1. PICK i \in 1 .. Len(c) : \E l \in 1 .. Len(c[i].lhs) : g = DefEvent(<<i, l>>)
        BY <3>3
      <4>2. PICK l \in 1 .. Len(c[i].lhs) : g = DefEvent(<<i, l>>)
        BY <4>1
      <4>3. g.type = "Def" /\ g.par = <<i, l>> /\ At(c, 0, g) = i /\ Rank(c, g) = Len(c) + l
        BY <4>2, DefFacts
      <4>4. g \in D <=> i < j
        BY <1>2, <4>3
      <4>5. (\E x \in 1 .. m : g = DefEvent(<<j, x>>)) <=> i = j /\ l <= m
        <5>1. \A x : g = DefEvent(<<j, x>>) <=> i = j /\ l = x
          <6>1. \A x : DefEvent(<<j, x>>).par = <<j, x>>
            BY DEF DefEvent, Event
          <6>2. QED
            BY <4>2, <4>3, <6>1
        <5>2. l \in Nat /\ 1 <= l
          BY DEF lhs
        <5>3. l \in 1 .. m <=> l <= m
          BY <1>0, <5>2
        <5>4. QED
          BY <5>1, <5>3
      <4>6. Rank(c, g) < Len(c) + k <=> l <= m
        BY <1>0, <2>1, <4>3
      <4>7. QED
        BY <3>1, <4>3, <4>4, <4>5, <4>6
    <3>4. QED
      BY <3>2, <3>3, ReferenceIs
  <2>6. G(k) = G(m) \cup {e}
    <3>1. \A l : l \in 1 .. k <=> l \in 1 .. m \/ l = k
      BY <1>0, <2>1
    <3>2. QED
      BY <3>1
  <2> HIDE DEF e, nm, G
  <2>7. \A g \in References(c, nm) : g \in G(m) <=> Earlier(c, 0, g, e)
    BY <2>5, ReferencesOf
  <2>8. Records(c, pre, f[k], j, G(m) \cup {e}) /\ f[k].stack = f[m].stack
    BY <2>2, <2>3, <2>4, <2>7, AddReferenceRecords
  <2>9. QED
    BY <2>1, <2>3, <2>6, <2>8 DEF k
<1> HIDE DEF T
<1>5. n \in T
  <2>1. \A m \in 0 .. n : m \in T
    BY <1>0, <1>3, <1>4, Climb
  <2>2. QED
    BY <1>0, <2>1
<1>6. \A g : g \in G(n) <=> g \in RefsTo(c, j + 1)
  <2>1. ASSUME NEW g \in G(n)
        PROVE  g \in AllReferences(c) /\ At(c, 0, g) < j + 1
    <3>1. CASE g \in D
      BY <1>2, <3>1, ReferenceFacts
    <3>2. CASE \E l \in 1 .. n : g = DefEvent(<<j, l>>)
      BY <3>2, DefFacts DEF n, lhs
    <3>3. QED
      BY <3>1, <3>2
  <2>2. ASSUME NEW g \in AllReferences(c), At(c, 0, g) < j + 1
        PROVE  g \in G(n)
    <3>1. At(c, 0, g) \in 1 .. Len(c)
      BY ReferenceFacts
    <3>2. At(c, 0, g) < j \/ At(c, 0, g) = j
      BY <1>0, <2>2, <3>1
    <3>3. CASE g \in D
      BY <3>3
    <3>4. CASE g \notin D
      <4>1. g.type # "Use" /\ At(c, 0, g) = j
        BY <1>2, <3>2, <3>4
      <4>6. ~\E i \in ParNodes(c) : g = UseEvent(<<i, 0>>)
        BY <4>1, UseFacts
      <4>2. PICK i \in 1 .. Len(c) : \E l \in 1 .. Len(c[i].lhs) : g = DefEvent(<<i, l>>)
        BY <4>6, ReferenceIs
      <4>3. PICK l \in 1 .. Len(c[i].lhs) : g = DefEvent(<<i, l>>)
        BY <4>2
      <4>4. i = j
        BY <4>1, <4>3, DefFacts
      <4>5. QED
        BY <4>3, <4>4 DEF n, lhs
    <3>5. QED
      BY <3>3, <3>4
  <2>3. QED
    BY <2>1, <2>2 DEF RefsTo
<1>7. QED
  <2>1. Records(c, pre, f[n], j, G(n)) /\ f[n].stack = r.stack
    BY <1>5 DEF T
  <2> HIDE DEF G
  <2>2. Records(c, pre, f[n], j, RefsTo(c, j + 1))
    BY <1>6, <2>1, RecordsSame
  <2>3. QED
    BY <1>1, <2>1, <2>2

-------------------------------------------------------------------------------
(* One node *)

\* The lower entries of the stack.
LEMMA StackLower ==
  ASSUME NEW s \in Seq(Nat \X Nat), NEW n \in Nat, n <= Len(s)
  PROVE  LET t == SubSeq(s, 1, Len(s) - n) IN
         /\ t \in Seq(Nat \X Nat) /\ Len(t) = Len(s) - n
         /\ \A a \in 1 .. Len(t) : t[a] = s[a]
<1> DEFINE m == Len(s) - n
           t == SubSeq(s, 1, m)
<1>1. Len(s) \in Nat
  BY LenProperties
<1>2. m \in Nat /\ m <= Len(s)
  BY <1>1
<1>3. \A i \in 1 .. m : s[i] \in Nat \X Nat
  BY <1>1, <1>2, ElementOfSeq
<1> HIDE DEF m
<1>4. /\ t \in Seq(Nat \X Nat)
      /\ Len(t) = IF 1 <= m THEN (m - 1) + 1 ELSE 0
      /\ \A i \in 1 .. (m - 1) + 1 : t[i] = s[(1 + i) - 1]
  BY <1>2, <1>3, SubSeqProperties
<1>5. Len(t) = m
  BY <1>2, <1>4
<1>6. \A i \in 1 .. m : i \in 1 .. (m - 1) + 1 /\ (1 + i) - 1 = i
  BY <1>2
<1>7. \A i \in 1 .. m : t[i] = s[i]
  BY <1>4, <1>6
<1> HIDE DEF t
<1>8. QED
  BY <1>4, <1>5, <1>7 DEF t, m

\* A node that only takes entries.
LEMMA StackTakes ==
  ASSUME NEW c, Structured(c), NEW j \in 1 .. Len(c), NEW s, StackOK(c, s, j),
         NEW n, n = Pops(c[j]), Pushes(c[j]) = 0
  PROVE  StackOK(c, SubSeq(s, 1, Len(s) - n), j + 1)
<1> DEFINE t == SubSeq(s, 1, Len(s) - n)
<1>1. s \in Seq(Nat \X Nat) /\ Len(s) = Depth(c)[j]
  BY DEF StackOK
<1>2. n \in Nat
  BY PopsNat
<1>3. n <= Len(s)
  BY <1>1, DepthFacts
<1>4. /\ t \in Seq(Nat \X Nat) /\ Len(t) = Len(s) - n
      /\ \A a \in 1 .. Len(t) : t[a] = s[a]
  BY <1>1, <1>2, <1>3, StackLower
<1>0. Len(s) \in Nat
  BY <1>1, LenProperties
<1> HIDE DEF t
<1>5. Len(t) = (Len(s) - Pops(c[j])) + Pushes(c[j])
  BY <1>0, <1>2, <1>4
<1>6. \A a \in 1 .. Len(s) - Pops(c[j]) : t[a] = s[a]
  BY <1>4
<1>7. \A a \in (Len(s) - Pops(c[j])) + 1 .. Len(t) : FALSE
  BY <1>0, <1>2, <1>4
<1>8. StackOK(c, t, j + 1)
  BY <1>4, <1>5, <1>6, <1>7, StackStep
<1>9. QED
  BY <1>8 DEF t

\* A node that pushes one entry.
LEMMA StackPushes ==
  ASSUME NEW c, Structured(c), NEW j \in 1 .. Len(c), NEW s, StackOK(c, s, j),
         Pops(c[j]) = 0, Pushes(c[j]) = 1,
         NEW e, e = IF c[j].op = "par" THEN <<j, 0>> ELSE Null
  PROVE  StackOK(c, Append(s, e), j + 1)
<1> DEFINE t == Append(s, e)
<1>1. s \in Seq(Nat \X Nat) /\ Len(s) \in Nat
  BY LenProperties DEF StackOK
<1>2. e \in Nat \X Nat
  <2>1. j \in Nat
    BY StructuredParts
  <2>2. QED
    BY <2>1 DEF Null
<1> HIDE DEF t
<1>3. /\ t \in Seq(Nat \X Nat) /\ Len(t) = Len(s) + 1
      /\ \A i \in 1 .. Len(s) : t[i] = s[i]
      /\ t[Len(s) + 1] = e
  BY <1>1, <1>2, AppendProperties DEF t
<1>4. Len(t) = (Len(s) - Pops(c[j])) + Pushes(c[j])
  BY <1>1, <1>3
<1>5. \A a \in 1 .. Len(s) - Pops(c[j]) : t[a] = s[a]
  BY <1>1, <1>3
<1>6. \A a \in (Len(s) - Pops(c[j])) + 1 .. Len(t) : a = Len(s) + 1
  BY <1>1, <1>3
<1>7. \A a \in (Len(s) - Pops(c[j])) + 1 .. Len(t) :
        t[a] = IF c[j].op = "par" THEN <<j, 0>> ELSE Null
  BY <1>3, <1>6
<1>8. StackOK(c, t, j + 1)
  BY <1>3, <1>4, <1>5, <1>7, StackStep
<1>9. QED
  BY <1>8 DEF t

\* An operator takes its operands and pushes its results.
LEMMA StackReplaces ==
  ASSUME NEW c, Structured(c), NEW j \in 1 .. Len(c), NEW s, StackOK(c, s, j),
         NEW n, n = Pops(c[j]), NEW m, m = Pushes(c[j]), c[j].op # "par"
  PROVE  StackOK(c, SubSeq(s, 1, Len(s) - n) \o [i \in 1 .. m |-> Null], j + 1)
<1> DEFINE lower == SubSeq(s, 1, Len(s) - n)
           nulls == [i \in 1 .. m |-> Null]
           t == lower \o nulls
<1>1. s \in Seq(Nat \X Nat) /\ Len(s) = Depth(c)[j]
  BY DEF StackOK
<1>2. n \in Nat /\ m \in Nat
  BY PopsNat
<1>3. n <= Len(s)
  BY <1>1, DepthFacts
<1>0. Len(s) \in Nat
  BY <1>1, LenProperties
<1>4. /\ lower \in Seq(Nat \X Nat) /\ Len(lower) = Len(s) - n
      /\ \A a \in 1 .. Len(lower) : lower[a] = s[a]
  BY <1>1, <1>2, <1>3, StackLower
<1>5. nulls \in Seq(Nat \X Nat) /\ Len(nulls) = m
  <2>1. Null \in Nat \X Nat
    BY DEF Null
  <2>2. \A i \in 1 .. m : Null \in Nat \X Nat
    BY <2>1
  <2>3. nulls \in Seq(Nat \X Nat)
    BY <1>2, <2>1
  <2>4. QED
    BY <1>2, <2>3
<1>6. \A i \in 1 .. m : nulls[i] = Null
  OBVIOUS
<1> DEFINE l == Len(lower)
<1> HIDE DEF lower, nulls, t
<1>7. /\ t \in Seq(Nat \X Nat) /\ Len(t) = Len(lower) + m
      /\ \A i \in 1 .. Len(lower) + m :
           t[i] = IF i <= Len(lower) THEN lower[i] ELSE nulls[i - Len(lower)]
  <2>1. /\ lower \o nulls \in Seq(Nat \X Nat)
        /\ Len(lower \o nulls) = Len(lower) + Len(nulls)
        /\ \A i \in 1 .. Len(lower) + Len(nulls) :
             (lower \o nulls)[i] = IF i <= Len(lower) THEN lower[i] ELSE nulls[i - Len(lower)]
    BY <1>4, <1>5, ConcatProperties
  <2>2. QED
    BY <1>5, <2>1 DEF t
<1>8. l \in Nat /\ l = Len(s) - n
  BY <1>0, <1>2, <1>3, <1>4
<1>9. /\ Len(t) = l + m
      /\ \A i \in 1 .. l : lower[i] = s[i]
      /\ \A i \in 1 .. l + m : t[i] = IF i <= l THEN lower[i] ELSE nulls[i - l]
  BY <1>4, <1>7
<1> HIDE DEF l
<1>10. \A i \in 1 .. l : t[i] = s[i]
  <2> SUFFICES ASSUME NEW i \in 1 .. l
               PROVE  t[i] = s[i]
    OBVIOUS
  <2>1. i \in 1 .. l + m /\ i <= l
    BY <1>2, <1>8
  <2>2. QED
    BY <1>9, <2>1
<1>11. \A i \in l + 1 .. Len(t) : t[i] = Null
  <2> SUFFICES ASSUME NEW i \in l + 1 .. l + m
               PROVE  t[i] = Null
    BY <1>9
  <2>0. l \in Nat /\ m \in Nat
    BY <1>2, <1>8
  <2>3. i \in Int /\ l + 1 <= i /\ i <= l + m
    BY <2>0
  <2>1. i \in 1 .. l + m /\ ~(i <= l) /\ i - l \in 1 .. m
    BY <2>0, <2>3
  <2>2. QED
    BY <1>6, <1>9, <2>1
<1>12. StackOK(c, t, j + 1)
  <2>1. l = Len(s) - Pops(c[j]) /\ Len(t) = l + Pushes(c[j])
    BY <1>8, <1>9
  <2>2. Len(t) = (Len(s) - Pops(c[j])) + Pushes(c[j])
    BY <2>1
  <2>3. \A a \in 1 .. Len(s) - Pops(c[j]) : t[a] = s[a]
    BY <1>10, <2>1
  <2>4. \A a \in (Len(s) - Pops(c[j])) + 1 .. Len(t) :
          t[a] = IF c[j].op = "par" THEN <<j, 0>> ELSE Null
    BY <1>11, <2>1
  <2>5. QED
    BY <1>7, <2>2, <2>3, <2>4, StackStep
<1>13. QED
  BY <1>12 DEF t, lower, nulls

\* A node that neither takes nor pushes an entry.
LEMMA StackSame ==
  ASSUME NEW c, Structured(c), NEW j \in 1 .. Len(c), NEW s, StackOK(c, s, j),
         Pops(c[j]) = 0, Pushes(c[j]) = 0
  PROVE  StackOK(c, s, j + 1)
<1>1. s \in Seq(Nat \X Nat) /\ Len(s) \in Nat
  BY LenProperties DEF StackOK
<1>2. Len(s) = (Len(s) - Pops(c[j])) + Pushes(c[j])
  BY <1>1
<1>3. \A a \in (Len(s) - Pops(c[j])) + 1 .. Len(s) : FALSE
  BY <1>1
<1>4. QED
  BY <1>1, <1>2, <1>3, StackStep

\* An operator or a statement has no Defs.
LEMMA RefsToUses ==
  ASSUME NEW c, Structured(c), NEW j \in 1 .. Len(c), c[j].op # "ass"
  PROVE  \A f : f \in RefsAndUses(c, j) <=> f \in RefsTo(c, j + 1)
<1>0. Len(c) \in Nat
  BY StructuredParts
<1>1. ASSUME NEW f \in AllReferences(c)
      PROVE  At(c, 0, f) < j + 1 <=> At(c, 0, f) < j \/ (At(c, 0, f) = j /\ f.type = "Use")
  <2>1. At(c, 0, f) \in 1 .. Len(c)
    BY ReferenceFacts
  <2>2. At(c, 0, f) = j => f.type = "Use"
    <3> SUFFICES ASSUME At(c, 0, f) = j, f.type # "Use"
                 PROVE  FALSE
      OBVIOUS
    <3>1. f.par \in Occurrences(c) /\ f.par[2] # 0 /\ f.par[1] = j
      BY ReferenceFacts
    <3>2. QED
      BY <3>1, OccurrenceFacts
  <2>3. QED
    BY <1>0, <2>1, <2>2
<1>2. QED
  BY <1>1, UsesTakenAll DEF RefsTo, RefsAndUses

\* A node that records no reference and is no block.
LEMMA VisitedPlain ==
  ASSUME NEW c, Structured(c), NEW pre, NEW r, NEW j \in 1 .. Len(c), Visited(c, pre, r, j),
         c[j].op \notin {"nonass", "expr", "ass", "enter", "jump"}
  PROVE  Records(c, pre, r, j + 1, RefsTo(c, j + 1))
<1>1. Records(c, pre, r, j, RefsTo(c, j))
  BY DEF Visited
<1>2. Records(c, pre, r, j + 1, RefsTo(c, j))
  BY <1>1, RecordsStep
<1>3. RefsTo(c, j + 1) = RefsTo(c, j)
  BY RefsToStep
<1>4. QED
  BY <1>2, <1>3

\* A node that records Uses.
LEMMA VisitedUses ==
  ASSUME NEW c, Structured(c), NEW pre \in BOOLEAN, NEW r, NEW j \in 1 .. Len(c),
         Visited(c, pre, r, j), c[j].op \in {"nonass", "expr"}, NEW n, n = Pops(c[j])
  PROVE  LET t == PopUses(r, c, n, pre) IN
         /\ Records(c, pre, t, j + 1, RefsTo(c, j + 1))
         /\ t.stack = SubSeq(r.stack, 1, Len(r.stack) - n)
<1> DEFINE t == PopUses(r, c, n, pre)
<1>1. Records(c, pre, r, j, RefsTo(c, j)) /\ StackOK(c, r.stack, j)
  BY DEF Visited
<1>2. /\ Records(c, pre, t, j, RefsAndUses(c, j))
      /\ t.stack = SubSeq(r.stack, 1, Len(r.stack) - n)
  BY <1>1, PopUsesRecords
<1> HIDE DEF t
<1>3. \A f : f \in RefsAndUses(c, j) <=> f \in RefsTo(c, j + 1)
  BY RefsToUses
<1>4. Records(c, pre, t, j, RefsTo(c, j + 1))
  BY <1>2, <1>3, RecordsSame
<1>5. Records(c, pre, t, j + 1, RefsTo(c, j + 1))
  BY <1>4, RecordsStep
<1>6. QED
  BY <1>2, <1>5 DEF t

\* One node of UseDefAnalyzer's visit.
LEMMA RecVisitRecords ==
  ASSUME NEW c, Structured(c), NEW pre \in BOOLEAN, NEW r, NEW j \in 1 .. Len(c),
         Visited(c, pre, r, j)
  PROVE  Visited(c, pre, RecVisit(r, c, j, pre), j + 1)
<1> DEFINE node == c[j]
           t == RecVisit(r, c, j, pre)
           s == r.stack
           D == RefsTo(c, j + 1)
<1>0. NodeOK(c, j)
  BY StructuredParts
<1>1. StackOK(c, s, j) /\ Records(c, pre, r, j, RefsTo(c, j))
  BY DEF Visited
<1>2. r = [chain |-> r.chain, nesting |-> r.nesting, stack |-> r.stack, dynamic |-> r.dynamic]
  BY <1>1 DEF Records
<1>3. node.op \in Operations
  BY <1>0 DEF NodeOK
<1>4. SUFFICES Records(c, pre, t, j + 1, D) /\ StackOK(c, t.stack, j + 1)
  BY DEF Visited
<1> HIDE DEF s, D
<1>5. CASE node.op = "par"
  <2> DEFINE e == <<j, 0>>
             p == Append(s, e)
  <2>1. t = [r EXCEPT !.stack = Append(r.stack, e)]
    BY <1>5 DEF RecVisit, Push
  <2> HIDE DEF t, p, e
  <2>2. t = [chain |-> r.chain, nesting |-> r.nesting, stack |-> p, dynamic |-> r.dynamic]
    BY <1>2, <2>1 DEF p, s
  <2>3. Records(c, pre, r, j + 1, D)
    BY <1>5, VisitedPlain DEF D
  <2>4. Records(c, pre, t, j + 1, D) /\ t.stack = p
    BY <2>2, <2>3, RecordsFields
  <2>5. Pops(node) = 0 /\ Pushes(node) = 1
    BY <1>5 DEF Pops, Pushes
  <2>6. e = IF node.op = "par" THEN <<j, 0>> ELSE Null
    BY <1>5 DEF e
  <2>7. StackOK(c, p, j + 1)
    BY <1>1, <2>5, <2>6, StackPushes DEF p
  <2>8. QED
    BY <2>4, <2>7
<1>6. CASE node.op = "num"
  <2> DEFINE p == Append(s, Null)
  <2>1. t = [r EXCEPT !.stack = Append(r.stack, Null)]
    BY <1>6 DEF RecVisit, Push
  <2> HIDE DEF t, p
  <2>2. t = [chain |-> r.chain, nesting |-> r.nesting, stack |-> p, dynamic |-> r.dynamic]
    BY <1>2, <2>1 DEF p, s
  <2>3. Records(c, pre, r, j + 1, D)
    BY <1>6, VisitedPlain DEF D
  <2>4. Records(c, pre, t, j + 1, D) /\ t.stack = p
    BY <2>2, <2>3, RecordsFields
  <2>5. Pops(node) = 0 /\ Pushes(node) = 1
    BY <1>6 DEF Pops, Pushes
  <2>6. Null = IF node.op = "par" THEN <<j, 0>> ELSE Null
    BY <1>6
  <2>7. StackOK(c, p, j + 1)
    BY <1>1, <2>5, <2>6, StackPushes DEF p
  <2>8. QED
    BY <2>4, <2>7
<1>7. CASE node.op = "stat"
  <2>1. t = r
    BY <1>7 DEF RecVisit
  <2> HIDE DEF t
  <2>2. Records(c, pre, r, j + 1, D)
    BY <1>7, VisitedPlain DEF D
  <2>3. Pops(node) = 0 /\ Pushes(node) = 0
    BY <1>7 DEF Pops, Pushes
  <2>4. StackOK(c, s, j + 1)
    BY <1>1, <2>3, StackSame
  <2>5. QED
    BY <2>1, <2>2, <2>4 DEF s
<1>8. CASE node.op = "nonass"
  <2>1. t = PopUses(r, c, 1, pre) /\ Pops(node) = 1 /\ Pushes(node) = 0
    BY <1>8 DEF RecVisit, Pops, Pushes
  <2> HIDE DEF t
  <2>2. Records(c, pre, t, j + 1, D) /\ t.stack = SubSeq(s, 1, Len(s) - 1)
    BY <1>8, <2>1, VisitedUses, SMTT(60) DEF D, s
  <2>3. StackOK(c, SubSeq(s, 1, Len(s) - 1), j + 1)
    BY <1>1, <2>1, StackTakes
  <2>4. QED
    BY <2>2, <2>3
<1>9. CASE node.op = "expr"
  <2> DEFINE n == node.k
             m == node.r
             u == PopUses(r, c, n, pre)
             nulls == [i \in 1 .. m |-> Null]
             p == SubSeq(s, 1, Len(s) - n) \o nulls
  <2>1. /\ t = [u EXCEPT !.stack = u.stack \o nulls]
        /\ Pops(node) = n /\ Pushes(node) = m
    BY <1>9 DEF RecVisit, PushNulls, Pops, Pushes
  <2> HIDE DEF t, n, m
  <2>2. Records(c, pre, u, j + 1, D) /\ u.stack = SubSeq(s, 1, Len(s) - n)
    BY <1>9, <2>1, VisitedUses DEF D, s
  <2>3. u = [chain |-> u.chain, nesting |-> u.nesting, stack |-> u.stack, dynamic |-> u.dynamic]
    BY <2>2 DEF Records
  <2>4. StackOK(c, p, j + 1)
    BY <1>1, <1>9, <2>1, StackReplaces
  <2>5. p = u.stack \o nulls
    BY <2>2
  <2> HIDE DEF u, p, nulls
  <2>6. t = [chain |-> u.chain, nesting |-> u.nesting, stack |-> p, dynamic |-> u.dynamic]
    BY <2>1, <2>3, <2>5
  <2>7. Records(c, pre, t, j + 1, D) /\ t.stack = p
    BY <2>2, <2>6, RecordsFields
  <2>8. QED
    BY <2>4, <2>7
<1>10. CASE node.op = "ass"
  <2> DEFINE n == Len(node.lhs)
             u == PopUses(r, c, n, pre)
  <2>1. /\ t = AddDefs(u, c, j, pre)
        /\ Pops(node) = n /\ Pushes(node) = 0
    BY <1>10 DEF RecVisit, Pops, Pushes
  <2> HIDE DEF t, n
  <2>2. /\ Records(c, pre, u, j, RefsAndUses(c, j))
        /\ u.stack = SubSeq(s, 1, Len(s) - n)
    BY <1>1, <2>1, PopUsesRecords DEF s
  <2> HIDE DEF u
  <2>3. Records(c, pre, t, j, D) /\ t.stack = u.stack
    BY <1>10, <2>1, <2>2, AddDefsRecords DEF D
  <2>4. Records(c, pre, t, j + 1, D)
    BY <1>10, <2>3, RecordsStep
  <2>5. StackOK(c, SubSeq(s, 1, Len(s) - n), j + 1)
    BY <1>1, <2>1, StackTakes
  <2>6. QED
    BY <2>2, <2>3, <2>4, <2>5
<1>11. CASE node.op = "enter"
  <2> DEFINE u == AddBlockEvent(r, EnterEvent(node))
             dyn == IF node.kind = "dynamic" THEN node.blk ELSE u.dynamic
  <2>1. t = [u EXCEPT !.dynamic = dyn] /\ Pops(node) = 0 /\ Pushes(node) = 0
    BY <1>11 DEF RecVisit, Pops, Pushes
  <2> HIDE DEF t
  <2>2. Records(c, pre, u, j + 1, D) /\ u.stack = s
    BY <1>1, <1>11, AddEnterRecords DEF D, s
  <2>3. u = [chain |-> u.chain, nesting |-> u.nesting, stack |-> u.stack, dynamic |-> u.dynamic]
    BY <2>2 DEF Records
  <2> HIDE DEF u, dyn
  <2>4. t = [chain |-> u.chain, nesting |-> u.nesting, stack |-> s, dynamic |-> dyn]
    BY <2>1, <2>2, <2>3
  <2>5. Records(c, pre, t, j + 1, D) /\ t.stack = s
    BY <2>2, <2>4, RecordsFields
  <2>6. StackOK(c, s, j + 1)
    BY <1>1, <2>1, StackSame
  <2>7. QED
    BY <2>5, <2>6
<1>12. CASE node.op = "jump"
  <2>1. t = AddBlockEvent(r, JumpEvent(node)) /\ Pops(node) = 0 /\ Pushes(node) = 0
    BY <1>12 DEF RecVisit, Pops, Pushes
  <2> HIDE DEF t
  <2>2. Records(c, pre, t, j + 1, D) /\ t.stack = s
    BY <1>1, <1>12, <2>1, AddJumpRecords DEF D, s
  <2>3. StackOK(c, s, j + 1)
    BY <1>1, <2>1, StackSame
  <2>4. QED
    BY <2>2, <2>3
<1>13. QED
  BY <1>3, <1>5, <1>6, <1>7, <1>8, <1>9, <1>10, <1>11, <1>12 DEF Operations

\* Nothing is recorded before the first node.
LEMMA EmptyRecords ==
  ASSUME NEW c, Structured(c), NEW pre
  PROVE  Visited(c, pre, EmptyRecorder, 1)
<1> DEFINE r == EmptyRecorder
<1>0. Len(c) \in Nat
  BY StructuredParts
<1>1. /\ r.chain = << >> /\ r.nesting = << >> /\ r.stack = << >>
      /\ r = [chain |-> r.chain, nesting |-> r.nesting, stack |-> r.stack, dynamic |-> r.dynamic]
  BY DEF EmptyRecorder
<1> HIDE DEF r
<1>2. RefsTo(c, 1) = {}
  <2> SUFFICES ASSUME NEW e \in AllReferences(c)
               PROVE  ~(At(c, 0, e) < 1)
    BY DEF RefsTo
  <2>1. At(c, 0, e) \in 1 .. Len(c)
    BY ReferenceFacts
  <2>2. QED
    BY <1>0, <2>1
<1>3. OpenEnters(c, 1) = {}
  <2>1. \A b \in Blocks(c) : b \in 1 .. Len(c)
    BY DEF Blocks
  <2>2. \A b \in Blocks(c) : ~(b < 1)
    BY <1>0, <2>1
  <2>3. QED
    BY <2>2 DEF OpenEnters
<1>4. DOMAIN r.chain = {}
  BY <1>1
<1>5. Lists(c, 0, r.nesting, {})
  BY <1>1 DEF Lists
<1>6. Records(c, pre, r, 1, RefsTo(c, 1))
  BY <1>1, <1>2, <1>3, <1>4, <1>5 DEF Records
<1>7. StackOK(c, r.stack, 1)
  <2>1. Depth(c)[1] = 0
    BY DepthFacts
  <2>2. \A i \in ParNodes(c) : ~(i < 1)
    <3>1. \A i \in ParNodes(c) : i \in 1 .. Len(c)
      BY ParFacts
    <3>2. QED
      BY <1>0, <3>1
  <2>3. r.stack \in Seq(Nat \X Nat) /\ Len(r.stack) = 0
    BY <1>1
  <2>4. QED
    BY <2>1, <2>2, <2>3 DEF StackOK
<1>8. QED
  BY <1>6, <1>7 DEF Visited, r

-------------------------------------------------------------------------------
(* The chains are nested *)

\* The events of blocks are told apart.
LEMMA BlockEventIs ==
  ASSUME NEW c, Structured(c), NEW b \in Blocks(c), NEW x \in Blocks(c)
  PROVE  /\ EnterOf(c, b) = EnterOf(c, x) <=> b = x
         /\ JumpOf(c, b) = JumpOf(c, x) <=> b = x
         /\ EnterOf(c, b) # JumpOf(c, x)
         /\ ~IsReference(EnterOf(c, b)) /\ ~IsReference(JumpOf(c, b))
<1>1. /\ EnterOf(c, b).blk = b /\ EnterOf(c, x).blk = x
      /\ JumpOf(c, b).blk = b /\ JumpOf(c, x).blk = x
      /\ EnterOf(c, b).type = "Enter" /\ JumpOf(c, x).type = "Jump"
      /\ JumpOf(c, b).type = "Jump"
  BY BlockEventFacts
<1>2. QED
  BY <1>1 DEF IsReference

\* What is recorded is framed, and so it is with a Use at the end.
LEMMA SeenFramed ==
  ASSUME NEW c, Structured(c), NEW n, NEW pre, NEW j, NEW U,
         U \subseteq {UseEvent(Dummy)}
  PROVE  Framed(c, n, j, Seen(c, n, pre, j, RefsTo(c, j)) \cup U)
<1> DEFINE E == Seen(c, n, pre, j, RefsTo(c, j)) \cup U
<1>1. \A e \in References(c, n) : IsReference(e)
  BY ReferencesOf, ReferenceFacts DEF IsReference
<1>2. IsReference(UseEvent(Dummy)) /\ IsReference(DefEvent(Dummy))
  BY DummyFacts DEF IsReference
<1>3. \A e \in E : \/ IsReference(e)
                   \/ \E b \in Blocks(c) : e = EnterOf(c, b) \/ e = JumpOf(c, b)
  BY <1>1, <1>2 DEF Seen, EntersSeen, JumpsSeen, Prefixed
<1>4. ASSUME NEW b \in Blocks(c)
      PROVE  /\ EnterOf(c, b) \in E <=> b < j /\ (j <= Closing(c, b) \/ Referred(c, n, b))
             /\ JumpOf(c, b) \in E <=> Closing(c, b) < j /\ Referred(c, n, b)
  <2>1. ~IsReference(EnterOf(c, b)) /\ ~IsReference(JumpOf(c, b))
    BY BlockEventIs
  <2>2. EnterOf(c, b) \in E <=> EnterOf(c, b) \in EntersSeen(c, n, j)
    <3>1. EnterOf(c, b) \notin JumpsSeen(c, n, j)
      BY BlockEventIs DEF JumpsSeen
    <3>2. QED
      BY <1>1, <1>2, <2>1, <3>1 DEF Seen, Prefixed
  <2>3. JumpOf(c, b) \in E <=> JumpOf(c, b) \in JumpsSeen(c, n, j)
    <3>1. JumpOf(c, b) \notin EntersSeen(c, n, j)
      BY BlockEventIs DEF EntersSeen
    <3>2. QED
      BY <1>1, <1>2, <2>1, <3>1 DEF Seen, Prefixed
  <2>4. EnterOf(c, b) \in EntersSeen(c, n, j) <=>
          b < j /\ (j <= Closing(c, b) \/ Referred(c, n, b))
    BY BlockEventIs DEF EntersSeen
  <2>5. JumpOf(c, b) \in JumpsSeen(c, n, j) <=> Closing(c, b) < j /\ Referred(c, n, b)
    BY BlockEventIs DEF JumpsSeen
  <2>6. QED
    BY <2>2, <2>3, <2>4, <2>5
<1>5. \A g \in References(c, n) : At(c, 0, g) < j => g \in E
  BY ReferencesOf DEF Seen, RefsTo
<1> HIDE DEF E
<1>6. Framed(c, n, j, E)
  BY <1>3, <1>4, <1>5 DEF Framed
<1>7. QED
  BY <1>6 DEF E

\* A number larger than all is put behind them.
LEMMA IncreasingAppend ==
  ASSUME NEW S \in SUBSET Int, NEW s, Increasing(s, S), NEW x \in Int, \A y \in S : y < x,
         NEW R, \A y : y \in R <=> y \in S \/ y = x
  PROVE  Increasing(Append(s, x), R)
<1> DEFINE n == Len(s)
           t == Append(s, x)
<1>1. /\ s \in Seq(S) /\ n \in Nat
      /\ \A i \in 1 .. n : s[i] \in S
  BY LenProperties, ElementOfSeq DEF Increasing
<1>2. s \in Seq(R)
  <2>1. \A i \in 1 .. n : s[i] \in R
    BY <1>1
  <2>2. QED
    BY <1>1, <2>1, SeqDef
<1> HIDE DEF t
<1>3. /\ t \in Seq(R) /\ Len(t) = n + 1 /\ t[n + 1] = x
      /\ \A i \in 1 .. n : t[i] = s[i]
  BY <1>2, AppendProperties DEF t
<1>4. /\ \A y \in S : \E i \in 1 .. n : s[i] = y
      /\ \A i, j \in 1 .. n : i < j => s[i] < s[j]
  BY DEF Increasing
<1> HIDE DEF n
<1>5. \A y \in R : \E i \in 1 .. n + 1 : t[i] = y
  <2>1. \A y \in S : \E i \in 1 .. n : t[i] = y
    BY <1>3, <1>4
  <2>2. n + 1 \in 1 .. n + 1 /\ 1 .. n \subseteq 1 .. n + 1
    BY <1>1
  <2>3. \A y \in R : y \in S \/ y = x
    OBVIOUS
  <2>4. QED
    BY <1>3, <2>1, <2>2, <2>3
<1>6. ASSUME NEW i \in 1 .. n + 1, NEW j \in 1 .. n + 1, i < j
      PROVE  t[i] < t[j]
  <2>1. i \in 1 .. n
    BY <1>1, <1>6
  <2>2. CASE j = n + 1
    BY <1>1, <1>3, <2>1, <2>2
  <2>3. CASE j # n + 1
    <3>1. j \in 1 .. n
      BY <1>1, <2>3
    <3>2. QED
      BY <1>3, <1>4, <1>6, <2>1, <3>1
  <2>4. QED
    BY <2>2, <2>3
<1>7. QED
  BY <1>3, <1>5, <1>6 DEF Increasing, t

\* The largest number is last, and the others are in front of it.
LEMMA IncreasingFront ==
  ASSUME NEW S \in SUBSET Int, NEW s, Increasing(s, S), NEW x \in S,
         \A y \in S : y = x \/ y < x,
         NEW R, \A y : y \in R <=> y \in S /\ y # x
  PROVE  s # << >> /\ Last(s) = x /\ Increasing(Front(s), R)
<1> DEFINE n == Len(s)
           t == Front(s)
<1>1. /\ s \in Seq(S) /\ n \in Nat
      /\ \A i \in 1 .. n : s[i] \in S
  BY LenProperties, ElementOfSeq DEF Increasing
<1>2. /\ \A y \in S : \E i \in 1 .. n : s[i] = y
      /\ \A i, j \in 1 .. n : i < j => s[i] < s[j]
  BY DEF Increasing
<1>3. s # << >>
  BY <1>2
<1>4. Last(s) = s[n] /\ t = SubSeq(s, 1, n - 1)
  BY DEF Last, Front
<1> HIDE DEF n, t
<1>5. PICK i \in 1 .. n : s[i] = x
  BY <1>2
<1>6. i = n
  <2> SUFFICES ASSUME i < n
               PROVE  FALSE
    BY <1>1
  <2>1. n \in 1 .. n /\ s[i] < s[n]
    BY <1>1, <1>2
  <2>2. s[n] \in S /\ s[n] \in Int /\ x \in Int
    BY <1>1, <2>1
  <2>3. QED
    BY <1>5, <2>1, <2>2
<1>7. s[n] = x /\ 1 <= n /\ n - 1 \in Nat
  BY <1>1, <1>5, <1>6
<1>8. \A k \in 1 .. n - 1 : k \in 1 .. n /\ s[k] \in R
  <2> SUFFICES ASSUME NEW k \in 1 .. n - 1
               PROVE  k \in 1 .. n /\ s[k] \in R
    OBVIOUS
  <2>1. k \in 1 .. n /\ n \in 1 .. n /\ k < n
    BY <1>1, <1>7
  <2>2. s[k] < x /\ s[k] \in S
    BY <1>1, <1>2, <1>7, <2>1
  <2>3. QED
    BY <2>1, <2>2
<1> DEFINE m == n - 1
<1>9. m \in Nat /\ n = m + 1
  BY <1>1, <1>7
<1>10. \A k \in 1 .. m : k \in 1 .. n /\ s[k] \in R
  BY <1>8
<1> HIDE DEF m
<1>11. /\ SubSeq(s, 1, m) \in Seq(R)
       /\ Len(SubSeq(s, 1, m)) = IF 1 <= m THEN (m - 1) + 1 ELSE 0
       /\ \A k \in 1 .. (m - 1) + 1 : SubSeq(s, 1, m)[k] = s[(1 + k) - 1]
  BY <1>9, <1>10, SubSeqProperties
<1>12. t = SubSeq(s, 1, m)
  BY <1>4 DEF m
<1>13. (IF 1 <= m THEN (m - 1) + 1 ELSE 0) = m
  BY <1>9
<1>14. \A k \in 1 .. m : k \in 1 .. (m - 1) + 1 /\ (1 + k) - 1 = k
  BY <1>9
<1>15. /\ t \in Seq(R) /\ Len(t) = m
       /\ \A k \in 1 .. m : t[k] = s[k]
  BY <1>11, <1>12, <1>13, <1>14
<1>16. \A y \in R : \E k \in 1 .. m : t[k] = y
  <2> SUFFICES ASSUME NEW y \in R
               PROVE  \E k \in 1 .. m : t[k] = y
    OBVIOUS
  <2>1. PICK k \in 1 .. n : s[k] = y
    BY <1>2
  <2>2. k # n
    BY <1>7, <2>1
  <2>3. k \in 1 .. m
    BY <1>9, <2>2
  <2>4. QED
    BY <1>15, <2>1, <2>3
<1>17. \A k, l \in 1 .. m : k < l => t[k] < t[l]
  BY <1>2, <1>10, <1>15
<1>18. QED
  BY <1>3, <1>4, <1>7, <1>15, <1>16, <1>17 DEF Increasing, t

\* There is one such sequence.
LEMMA IncreasingUnique ==
  ASSUME NEW S \in SUBSET Int, NEW s, NEW t, Increasing(s, S), Increasing(t, S)
  PROVE  s = t
<1> DEFINE m == Len(s)
           n == Len(t)
<1>1. /\ s \in Seq(S) /\ m \in Nat /\ \A i \in 1 .. m : s[i] \in S
      /\ t \in Seq(S) /\ n \in Nat /\ \A i \in 1 .. n : t[i] \in S
  BY LenProperties, ElementOfSeq DEF Increasing
<1>2. /\ \A y \in S : \E i \in 1 .. m : s[i] = y
      /\ \A i, j \in 1 .. m : i < j => s[i] < s[j]
      /\ \A y \in S : \E i \in 1 .. n : t[i] = y
      /\ \A i, j \in 1 .. n : i < j => t[i] < t[j]
  BY DEF Increasing
<1> HIDE DEF m, n
<1> DEFINE T == {k \in 0 .. m : k <= n /\ \A i \in 1 .. k : s[i] = t[i]}
<1>3. 0 \in T
  BY <1>1
<1>4. ASSUME NEW k \in 0 .. m, k < m, k \in T
      PROVE  k + 1 \in T
  <2>1. k + 1 \in 1 .. m /\ s[k + 1] \in S
    BY <1>1, <1>4
  <2>2. PICK x \in 1 .. n : t[x] = s[k + 1]
    BY <1>2, <2>1
  <2>3. k < x
    <3> SUFFICES ASSUME x <= k
                 PROVE  FALSE
      BY <1>1
    <3>1. x \in 1 .. k /\ x \in 1 .. m /\ x < k + 1
      BY <1>1, <1>4
    <3>2. s[x] = t[x] /\ s[x] < s[k + 1]
      BY <1>2, <1>4, <2>1, <3>1
    <3>3. s[x] \in Int
      BY <1>1, <3>1
    <3>4. QED
      BY <2>2, <3>2, <3>3
  <2>4. k + 1 \in 1 .. n /\ t[k + 1] \in S
    BY <1>1, <1>4, <2>3
  <2>5. PICK y \in 1 .. m : s[y] = t[k + 1]
    BY <1>2, <2>4
  <2>6. k < y
    <3> SUFFICES ASSUME y <= k
                 PROVE  FALSE
      BY <1>1
    <3>1. y \in 1 .. k /\ y \in 1 .. n /\ y < k + 1
      BY <1>1, <1>4
    <3>2. s[y] = t[y] /\ t[y] < t[k + 1]
      BY <1>2, <1>4, <2>4, <3>1
    <3>3. t[y] \in Int
      BY <1>1, <3>1
    <3>4. QED
      BY <2>5, <3>2, <3>3
  <2>7. s[k + 1] = t[k + 1]
    <3>1. s[k + 1] \in Int /\ t[k + 1] \in Int
      BY <2>1, <2>4
    <3>2. k + 1 = x \/ k + 1 < x
      BY <1>1, <2>3
    <3>3. k + 1 = y \/ k + 1 < y
      BY <1>1, <2>6
    <3>4. k + 1 < x => t[k + 1] < t[x]
      BY <1>2, <2>4
    <3>5. k + 1 < y => s[k + 1] < s[y]
      BY <1>2, <2>1
    <3>6. QED
      BY <2>2, <2>5, <3>1, <3>2, <3>3, <3>4, <3>5
  <2>8. \A i \in 1 .. k + 1 : i \in 1 .. k \/ i = k + 1
    BY <1>1
  <2>9. QED
    BY <1>1, <1>4, <2>1, <2>4, <2>7, <2>8
<1>5. m \in Int
  BY <1>1
<1> HIDE DEF T
<1>6. \A k \in 0 .. m : k \in T
  BY <1>3, <1>4, <1>5, Climb
<1>7. m <= n /\ \A i \in 1 .. m : s[i] = t[i]
  <2>1. m \in T
    BY <1>1, <1>6
  <2>2. QED
    BY <2>1 DEF T
<1>8. m = n
  <2> SUFFICES ASSUME m < n
               PROVE  FALSE
    BY <1>1, <1>7
  <2>1. n \in 1 .. n /\ t[n] \in S
    BY <1>1
  <2>2. PICK i \in 1 .. m : s[i] = t[n]
    BY <1>2, <2>1
  <2>3. i \in 1 .. n /\ i < n /\ t[i] = t[n]
    BY <1>1, <1>7, <2>2
  <2>4. t[i] < t[n] /\ t[n] \in Int
    BY <1>2, <2>1, <2>3
  <2>5. QED
    BY <2>3, <2>4
<1>9. QED
  BY <1>1, <1>7, <1>8, SeqEqual DEF m, n

\* The place of an event in a chain follows from the order of events.
LEMMA ListsIndex ==
  ASSUME NEW c, NEW d, NEW s, NEW E, Lists(c, d, s, E), Placed(c, d, E)
  PROVE  /\ Len(s) \in Nat /\ \A x \in 1 .. Len(s) : s[x] \in E
         /\ \A x, y \in 1 .. Len(s) : x < y <=> Earlier(c, d, s[x], s[y])
         /\ \A x, y \in 1 .. Len(s) : s[x] = s[y] => x = y
<1>1. s \in Seq(E) /\ \A i, j \in 1 .. Len(s) : i < j => Earlier(c, d, s[i], s[j])
  BY DEF Lists
<1>2. Len(s) \in Nat /\ \A x \in 1 .. Len(s) : s[x] \in E
  BY <1>1, LenProperties, ElementOfSeq
<1>3. ASSUME NEW x \in 1 .. Len(s), NEW y \in 1 .. Len(s)
      PROVE  /\ Earlier(c, d, s[x], s[y]) => x < y
             /\ s[x] = s[y] => x = y
  <2>1. s[x] \in E /\ s[y] \in E
    BY <1>2
  <2>2. /\ ~Earlier(c, d, s[x], s[x])
        /\ Earlier(c, d, s[x], s[y]) => ~Earlier(c, d, s[y], s[x])
    BY <2>1, EarlierStrict
  <2>3. x < y \/ x = y \/ y < x
    OBVIOUS
  <2>4. /\ x < y => Earlier(c, d, s[x], s[y])
        /\ y < x => Earlier(c, d, s[y], s[x])
    BY <1>1
  <2>5. Earlier(c, d, s[x], s[y]) => x < y
    BY <2>2, <2>3, <2>4
  <2>6. s[x] = s[y] => x = y
    BY <2>2, <2>3, <2>4
  <2>7. QED
    BY <2>5, <2>6
<1>4. QED
  BY <1>1, <1>2, <1>3

\* They follow from the blocks that are open after the event before.
LEMMA OpenedSteps ==
  ASSUME NEW chain, Len(chain) \in Nat
  PROVE  /\ Opened(chain)[0] = << >>
         /\ \A i \in 1 .. Len(chain) :
              Opened(chain)[i] = NextOpen(Opened(chain)[i - 1], chain[i])
<1> DEFINE n == Len(chain)
           Step(x, k) == NextOpen(x, chain[k])
           F(f, m) == [k \in 0 .. m |-> IF k = 0 THEN << >> ELSE Step(f[k - 1], k)]
           T == {m \in 0 .. n : \E f : f = F(f, m)}
<1>1. Opened(chain) = CHOOSE f : f = F(f, n)
  BY DEF Opened
<1>0. n \in Nat
  OBVIOUS
<1> HIDE DEF n, Step
<1>2. 0 \in T
  <2> DEFINE f == [k \in 0 .. 0 |-> << >>]
  <2>1. f = F(f, 0)
    OBVIOUS
  <2> HIDE DEF f, F
  <2>2. QED
    BY <1>0, <2>1
<1>3. ASSUME NEW m \in 0 .. n, m < n, m \in T
      PROVE  m + 1 \in T
  <2>1. PICK f : f = F(f, m)
    BY <1>3
  <2> DEFINE g == [k \in 0 .. m + 1 |-> IF k = m + 1 THEN Step(f[m], m + 1) ELSE f[k]]
  <2>2. \A k \in 0 .. m + 1 : g[k] = F(g, m + 1)[k]
    <3> SUFFICES ASSUME NEW k \in 0 .. m + 1
                 PROVE  g[k] = F(g, m + 1)[k]
      OBVIOUS
    <3>1. CASE k = m + 1
      <4>1. k - 1 = m /\ k # 0 /\ g[m] = f[m]
        BY <1>0, <3>1
      <4>2. QED
        BY <3>1, <4>1
    <3>2. CASE k # m + 1
      <4>1. k \in 0 .. m /\ g[k] = f[k]
        BY <1>0, <3>2
      <4>2. f[k] = F(f, m)[k]
        BY <2>1
      <4>3. k # 0 => g[k - 1] = f[k - 1]
        BY <1>0, <4>1
      <4>4. QED
        BY <4>1, <4>2, <4>3
    <3>3. QED
      BY <3>1, <3>2
  <2>3. g = F(g, m + 1)
    <3>1. DOMAIN g = 0 .. m + 1 /\ g = [k \in 0 .. m + 1 |-> g[k]]
      OBVIOUS
    <3> HIDE DEF g
    <3>2. QED
      BY <2>2, <3>1
  <2> HIDE DEF g, F
  <2>4. QED
    BY <1>0, <1>3, <2>3
<1> HIDE DEF T
<1>4. n \in T
  <2>1. \A m \in 0 .. n : m \in T
    BY <1>0, <1>2, <1>3, Climb
  <2>2. QED
    BY <1>0, <2>1
<1>5. PICK f0 : f0 = F(f0, n)
  <2> HIDE DEF F
  <2>1. QED
    BY <1>4 DEF T
<1> DEFINE f == CHOOSE f1 : f1 = F(f1, n)
<1>6. f = F(f, n)
  <2> HIDE DEF F
  <2>1. QED
    BY <1>5
<1> HIDE DEF f
<1>7. f[0] = << >> /\ \A k \in 1 .. n : f[k] = Step(f[k - 1], k)
  BY <1>0, <1>6
<1>8. f = Opened(chain)
  BY <1>1 DEF f
<1>9. QED
  BY <1>7, <1>8 DEF n, Step

\* The innermost open block is the last one.
LEMMA OpenedIs ==
  ASSUME NEW c, Structured(c), NEW n, NEW j \in Int, NEW d, NEW s, NEW E,
         Lists(c, d, s, E), Placed(c, d, E), Framed(c, n, j, E)
  PROVE  \A i \in 0 .. Len(s) : Increasing(Opened(s)[i], OpenAt(c, s, i))
<1> DEFINE m == Len(s)
           T == {i \in 0 .. m : Increasing(Opened(s)[i], OpenAt(c, s, i))}
<1>0. Len(c) \in Nat
  BY StructuredParts
<1>1. /\ m \in Nat /\ \A x \in 1 .. m : s[x] \in E
      /\ \A x, y \in 1 .. m : x < y <=> Earlier(c, d, s[x], s[y])
      /\ \A x, y \in 1 .. m : s[x] = s[y] => x = y
  BY ListsIndex
<1>2. \A e \in E : \E x \in 1 .. m : s[x] = e
  BY DEF Lists
<1>3. /\ Opened(s)[0] = << >>
      /\ \A i \in 1 .. m : Opened(s)[i] = NextOpen(Opened(s)[i - 1], s[i])
  BY <1>1, OpenedSteps
<1>4. \A b \in Blocks(c) :
        /\ b \in 1 .. Len(c) /\ Closing(c, b) \in b + 1 .. Len(c)
        /\ c[b].op = "enter" /\ c[Closing(c, b)].op = "jump"
        /\ At(c, d, EnterOf(c, b)) = b /\ Rank(c, EnterOf(c, b)) = 1
        /\ At(c, d, JumpOf(c, b)) = Closing(c, b) /\ Rank(c, JumpOf(c, b)) = 1
        /\ EnterOf(c, b).type = "Enter" /\ EnterOf(c, b).blk = b
        /\ JumpOf(c, b).type = "Jump" /\ JumpOf(c, b).blk = b
  BY ClosingFacts, BlockEventFacts
<1> HIDE DEF m
<1>5. 0 \in T
  <2>1. OpenAt(c, s, 0) = {}
    BY DEF OpenAt
  <2>2. Increasing(<< >>, {})
    BY DEF Increasing
  <2>3. Opened(s)[0] = << >>
    BY <1>3
  <2>4. Increasing(Opened(s)[0], OpenAt(c, s, 0))
    BY <2>1, <2>2, <2>3
  <2>5. QED
    BY <1>1, <2>4
<1>6. ASSUME NEW i \in 0 .. m, i < m, i \in T
      PROVE  i + 1 \in T
  <2> DEFINE k == i + 1
             e == s[k]
             q == Opened(s)[i]
             S == OpenAt(c, s, i)
             R == OpenAt(c, s, k)
  <2>1. k \in 1 .. m /\ i = k - 1 /\ k \in 0 .. m /\ (\A x : x \in 1 .. k <=> x \in 1 .. i \/ x = k)
    BY <1>1, <1>6
  <2>10. \A x \in 1 .. i : x \in 1 .. m /\ x < k
    BY <1>1, <1>6
  <2> HIDE DEF k
  <2>2. Opened(s)[k] = NextOpen(q, e)
    BY <1>3, <2>1
  <2>3. Increasing(q, S)
    BY <1>6
  <2>4. S \in SUBSET Int
    BY <1>4 DEF OpenAt
  <2>5. \A y : y \in S <=> y \in Blocks(c) /\ (\E x \in 1 .. i : s[x] = EnterOf(c, y))
                           /\ (\A x \in 1 .. i : s[x] # JumpOf(c, y))
    BY DEF OpenAt
  <2>6. \A y : y \in R <=> y \in Blocks(c)
                           /\ ((\E x \in 1 .. i : s[x] = EnterOf(c, y)) \/ e = EnterOf(c, y))
                           /\ (\A x \in 1 .. i : s[x] # JumpOf(c, y)) /\ e # JumpOf(c, y)
    BY <2>1 DEF OpenAt
  <2>7. e \in E
    BY <1>1, <2>1
  <2> HIDE DEF T, q, S, R
  <2>8. CASE IsReference(e)
    <3>1. \A y \in Blocks(c) : e # EnterOf(c, y) /\ e # JumpOf(c, y)
      BY <2>8, BlockEventIs
    <3>2. \A y : y \in R <=> y \in S
      BY <2>5, <2>6, <3>1
    <3>3. R = S
      BY <3>2
    <3>4. NextOpen(q, e) = q
      BY <2>8 DEF NextOpen, IsReference
    <3>5. QED
      BY <2>1, <2>2, <2>3, <3>3, <3>4 DEF T, q, R, k
  <2>9. ASSUME NEW b \in Blocks(c), e = EnterOf(c, b)
        PROVE  i + 1 \in T
    <3>1. NextOpen(q, e) = Append(q, b)
      BY <1>4, <2>9 DEF NextOpen
    <3>2. \A x \in 1 .. i : s[x] # JumpOf(c, b)
      <4> SUFFICES ASSUME NEW x \in 1 .. i, s[x] = JumpOf(c, b)
                   PROVE  FALSE
        OBVIOUS
      <4>1. Earlier(c, d, JumpOf(c, b), EnterOf(c, b))
        BY <1>1, <2>1, <2>9, <2>10
      <4>2. Closing(c, b) <= b
        BY <1>0, <1>4, <4>1 DEF Earlier
      <4>3. QED
        BY <1>0, <1>4, <4>2
    <3>3. \A y \in S : y < b
      <4> SUFFICES ASSUME NEW y \in S
                   PROVE  y < b
        OBVIOUS
      <4>1. PICK x \in 1 .. i : s[x] = EnterOf(c, y)
        BY <2>5
      <4>2. y \in Blocks(c)
        BY <2>5
      <4>3. Earlier(c, d, EnterOf(c, y), EnterOf(c, b))
        BY <1>1, <2>1, <2>9, <2>10, <4>1
      <4>4. QED
        BY <1>4, <4>2, <4>3 DEF Earlier
    <3>4. \A y : y \in R <=> y \in S \/ y = b
      <4>1. \A y \in Blocks(c) : e = EnterOf(c, y) <=> y = b
        BY <2>9, BlockEventIs
      <4>2. \A y \in Blocks(c) : e # JumpOf(c, y)
        BY <2>9, BlockEventIs
      <4>3. QED
        BY <2>5, <2>6, <3>2, <4>1, <4>2
    <3>5. b \in Int
      BY <1>4
    <3>6. Increasing(Append(q, b), R)
      BY <2>3, <2>4, <3>3, <3>4, <3>5, IncreasingAppend
    <3>7. QED
      BY <2>1, <2>2, <3>1, <3>6 DEF T, R, k
  <2>11. ASSUME NEW b \in Blocks(c), e = JumpOf(c, b)
         PROVE  i + 1 \in T
    <3>1. Closing(c, b) < j /\ Referred(c, n, b) /\ EnterOf(c, b) \in E
      <4>1. JumpOf(c, b) \in E
        BY <2>7, <2>11
      <4>2. Closing(c, b) < j /\ Referred(c, n, b)
        BY <4>1 DEF Framed
      <4>3. b < j
        BY <1>0, <1>4, <4>2
      <4>4. QED
        BY <4>2, <4>3 DEF Framed
    <3>2. PICK x \in 1 .. m : s[x] = EnterOf(c, b)
      BY <1>2, <3>1
    <3>3. x \in 1 .. i
      <4>1. Earlier(c, d, EnterOf(c, b), JumpOf(c, b))
        BY <1>0, <1>4 DEF Earlier
      <4>2. x < k
        BY <1>1, <2>1, <2>11, <3>2, <4>1
      <4>3. QED
        BY <1>1, <2>1, <4>2
    <3>4. \A y \in 1 .. i : s[y] # JumpOf(c, b)
      BY <1>1, <2>1, <2>10, <2>11
    <3>5. b \in S
      BY <2>5, <3>2, <3>3, <3>4
    <3>6. \A y \in S : y = b \/ y < b
      <4> SUFFICES ASSUME NEW y \in S, y # b
                   PROVE  y < b
        OBVIOUS
      <4>1. y \in Blocks(c)
        BY <2>5
      <4>2. PICK z \in 1 .. i : s[z] = EnterOf(c, y)
        BY <2>5
      <4>3. EnterOf(c, y) \in E /\ Earlier(c, d, EnterOf(c, y), JumpOf(c, b))
        BY <1>1, <2>1, <2>10, <2>11, <4>2
      <4>4. y < Closing(c, b)
        BY <1>4, <4>1, <4>3 DEF Earlier
      <4>5. SUFFICES ASSUME b < y
                     PROVE  FALSE
        BY <1>0, <1>4, <4>1
      <4>6. Closing(c, y) < Closing(c, b)
        <5>1. Closing(c, b) < y \/ Closing(c, y) < Closing(c, b)
          BY <4>1, <4>5, ClosingNested
        <5>2. QED
          BY <1>0, <1>4, <4>1, <4>4, <5>1
      <4>7. Closing(c, y) < j
        BY <1>0, <1>4, <3>1, <4>1, <4>6
      <4>8. Referred(c, n, y)
        <5>1. y < j /\ (j <= Closing(c, y) \/ Referred(c, n, y))
          BY <4>1, <4>3 DEF Framed
        <5>2. QED
          BY <1>0, <1>4, <4>1, <4>7, <5>1
      <4>9. JumpOf(c, y) \in E
        BY <4>1, <4>7, <4>8 DEF Framed
      <4>10. PICK w \in 1 .. m : s[w] = JumpOf(c, y)
        BY <1>2, <4>9
      <4>11. Earlier(c, d, JumpOf(c, y), JumpOf(c, b))
        BY <1>4, <4>1, <4>6 DEF Earlier
      <4>12. w < k
        BY <1>1, <2>1, <2>11, <4>10, <4>11
      <4>13. w \in 1 .. i
        BY <1>1, <2>1, <4>12
      <4>14. QED
        BY <2>5, <4>10, <4>13
    <3>7. \A y : y \in R <=> y \in S /\ y # b
      <4>1. \A y \in Blocks(c) : e = JumpOf(c, y) <=> y = b
        BY <2>11, BlockEventIs
      <4>2. \A y \in Blocks(c) : e # EnterOf(c, y)
        BY <2>11, BlockEventIs
      <4>3. QED
        BY <2>5, <2>6, <4>1, <4>2
    <3>8. q # << >> /\ Last(q) = b /\ Increasing(Front(q), R)
      BY <2>3, <2>4, <3>5, <3>6, <3>7, IncreasingFront
    <3>9. NextOpen(q, e) = Front(q)
      BY <1>4, <2>11, <3>8 DEF NextOpen
    <3>10. QED
      BY <2>1, <2>2, <3>8, <3>9 DEF T, R, k
  <2>12. QED
    BY <2>7, <2>8, <2>9, <2>11 DEF Framed
<1> HIDE DEF T
<1>7. \A i \in 0 .. m : i \in T
  BY <1>1, <1>5, <1>6, Climb
<1>8. QED
  BY <1>7 DEF T, m

\* The blocks of a chain that stay open are those that are open.
LEMMA OpenedNesting ==
  ASSUME NEW c, Structured(c), NEW n, NEW j \in Int, NEW d, NEW s, NEW E,
         Lists(c, d, s, E), Placed(c, d, E), Framed(c, n, j, E),
         NEW t, Lists(c, 0, t, OpenEnters(c, j))
  PROVE  Opened(s)[Len(s)] = [i \in DOMAIN t |-> t[i].blk]
<1> DEFINE m == Len(s)
           S == {b \in Blocks(c) : b < j /\ j <= Closing(c, b)}
           q == [i \in DOMAIN t |-> t[i].blk]
<1>0. Len(c) \in Nat
  BY StructuredParts
<1>1. m \in Nat /\ \A x \in 1 .. m : s[x] \in E
  BY ListsIndex
<1>2. \A e \in E : \E x \in 1 .. m : s[x] = e
  BY DEF Lists
<1>3. \A b \in Blocks(c) : b \in 1 .. Len(c) /\ Closing(c, b) \in b + 1 .. Len(c)
  BY ClosingFacts
<1>4. Increasing(Opened(s)[m], OpenAt(c, s, m))
  <2>1. m \in 0 .. m
    BY <1>1
  <2>2. QED
    BY <2>1, OpenedIs
<1>5. \A b : b \in OpenAt(c, s, m) <=> b \in S
  <2> SUFFICES ASSUME NEW b \in Blocks(c)
               PROVE  (\E x \in 1 .. m : s[x] = EnterOf(c, b))
                      /\ (\A x \in 1 .. m : s[x] # JumpOf(c, b))
                      <=> b < j /\ j <= Closing(c, b)
    BY DEF OpenAt
  <2>1. (\E x \in 1 .. m : s[x] = EnterOf(c, b)) <=> EnterOf(c, b) \in E
    BY <1>1, <1>2
  <2>2. (\A x \in 1 .. m : s[x] # JumpOf(c, b)) <=> JumpOf(c, b) \notin E
    BY <1>1, <1>2
  <2>3. /\ EnterOf(c, b) \in E <=> b < j /\ (j <= Closing(c, b) \/ Referred(c, n, b))
        /\ JumpOf(c, b) \in E <=> Closing(c, b) < j /\ Referred(c, n, b)
    BY DEF Framed
  <2>4. j <= Closing(c, b) <=> ~(Closing(c, b) < j)
    BY <1>0, <1>3
  <2>5. QED
    BY <2>1, <2>2, <2>3, <2>4
<1>6. Increasing(Opened(s)[m], S)
  <2>1. OpenAt(c, s, m) = S
    BY <1>5
  <2> HIDE DEF S
  <2>2. QED
    BY <1>4, <2>1
<1>7. /\ t \in Seq(OpenEnters(c, j)) /\ Len(t) \in Nat /\ DOMAIN t = 1 .. Len(t)
      /\ \A i \in 1 .. Len(t) : t[i] \in OpenEnters(c, j)
      /\ \A e \in OpenEnters(c, j) : \E i \in 1 .. Len(t) : t[i] = e
      /\ \A i, k \in 1 .. Len(t) : i < k => Earlier(c, 0, t[i], t[k])
  <2>1. t \in Seq(OpenEnters(c, j))
    BY DEF Lists
  <2>2. QED
    BY <2>1, LenProperties, ElementOfSeq DEF Lists
<1>8. \A e \in OpenEnters(c, j) : /\ e.blk \in S /\ At(c, 0, e) = e.blk /\ Rank(c, e) = 1
  <2> SUFFICES ASSUME NEW e \in OpenEnters(c, j)
               PROVE  e.blk \in S /\ At(c, 0, e) = e.blk /\ Rank(c, e) = 1
    OBVIOUS
  <2>1. PICK b \in Blocks(c) : e = EnterOf(c, b) /\ b < j /\ j <= Closing(c, b)
    BY DEF OpenEnters
  <2>2. e.blk = b /\ At(c, 0, e) = b /\ Rank(c, e) = 1
    BY <2>1, BlockEventFacts
  <2>3. QED
    BY <2>1, <2>2
<1>9. \A b \in S : EnterOf(c, b) \in OpenEnters(c, j) /\ EnterOf(c, b).blk = b
  BY BlockEventFacts DEF OpenEnters
<1>10. Increasing(q, S)
  <2> HIDE DEF S
  <2>1. /\ q \in Seq(S) /\ Len(q) = Len(t)
        /\ \A i \in 1 .. Len(t) : q[i] = t[i].blk
    <3>1. q \in [1 .. Len(t) -> S]
      BY <1>7, <1>8
    <3>2. QED
      BY <1>7, <3>1
  <2> HIDE DEF q
  <2>2. \A b \in S : \E i \in 1 .. Len(q) : q[i] = b
    <3> SUFFICES ASSUME NEW b \in S
                 PROVE  \E i \in 1 .. Len(q) : q[i] = b
      OBVIOUS
    <3>1. PICK i \in 1 .. Len(t) : t[i] = EnterOf(c, b)
      BY <1>7, <1>9
    <3>2. q[i] = b
      BY <1>9, <2>1, <3>1
    <3>3. QED
      BY <2>1, <3>2
  <2>3. ASSUME NEW i \in 1 .. Len(q), NEW k \in 1 .. Len(q), i < k
        PROVE  q[i] < q[k]
    <3>1. /\ i \in 1 .. Len(t) /\ k \in 1 .. Len(t)
          /\ Earlier(c, 0, t[i], t[k])
          /\ t[i] \in OpenEnters(c, j) /\ t[k] \in OpenEnters(c, j)
      BY <1>7, <2>1, <2>3
    <3>2. t[i].blk < t[k].blk
      BY <1>8, <3>1 DEF Earlier
    <3>3. QED
      BY <2>1, <3>1, <3>2
  <2>4. QED
    BY <2>1, <2>2, <2>3 DEF Increasing
<1>11. S \in SUBSET Int
  BY <1>3
<1> HIDE DEF S, q
<1>12. Opened(s)[m] = q
  BY <1>6, <1>10, <1>11, IncreasingUnique
<1>13. QED
  BY <1>12 DEF m, q

\* A block that is closed in a chain encloses a reference.
LEMMA PairsEnclose ==
  ASSUME NEW c, Structured(c), NEW n, NEW j \in Int, NEW d, NEW s, NEW E,
         Lists(c, d, s, E), Placed(c, d, E), Framed(c, n, j, E),
         NEW i \in DOMAIN s, NEW k \in DOMAIN s,
         s[i].type = "Enter", s[k].type = "Jump", s[i].blk = s[k].blk
  PROVE  \E m \in i .. k : IsReference(s[m])
<1>0. Len(c) \in Nat
  BY StructuredParts
<1>1. /\ Len(s) \in Nat /\ \A x \in 1 .. Len(s) : s[x] \in E
      /\ \A x, y \in 1 .. Len(s) : x < y <=> Earlier(c, d, s[x], s[y])
  BY ListsIndex
<1>2. DOMAIN s = 1 .. Len(s) /\ \A e \in E : \E x \in 1 .. Len(s) : s[x] = e
  BY LenProperties DEF Lists
<1>3. s[i] \in E /\ s[k] \in E
  BY <1>1, <1>2
<1>4. \A b \in Blocks(c) : /\ EnterOf(c, b).type = "Enter" /\ EnterOf(c, b).blk = b
                           /\ JumpOf(c, b).type = "Jump" /\ JumpOf(c, b).blk = b
                           /\ At(c, d, EnterOf(c, b)) = b
                           /\ At(c, d, JumpOf(c, b)) = Closing(c, b)
  BY BlockEventFacts
<1>5. PICK b \in Blocks(c) : s[i] = EnterOf(c, b)
  BY <1>3, <1>4 DEF Framed, IsReference
<1>6. PICK x \in Blocks(c) : s[k] = JumpOf(c, x)
  BY <1>3, <1>4 DEF Framed, IsReference
<1>7. x = b
  BY <1>4, <1>5, <1>6
<1>8. Closing(c, b) < j /\ Referred(c, n, b)
  BY <1>3, <1>6, <1>7 DEF Framed
<1>9. PICK g \in References(c, n) : b < At(c, 0, g) /\ At(c, 0, g) < Closing(c, b)
  BY <1>8 DEF Referred
<1>10. /\ g \in AllReferences(c) /\ IsReference(g) /\ At(c, 0, g) \in 1 .. Len(c)
       /\ At(c, d, g) = At(c, 0, g)
  <2>1. g \in AllReferences(c)
    BY ReferencesOf
  <2>2. QED
    BY <2>1, ReferenceFacts DEF IsReference
<1>11. g \in E
  <2>1. At(c, 0, g) < j
    <3>1. Closing(c, b) \in b + 1 .. Len(c) /\ b \in 1 .. Len(c)
      BY ClosingFacts
    <3>2. QED
      BY <1>0, <1>8, <1>9, <1>10, <3>1
  <2>2. QED
    BY <2>1 DEF Framed
<1>12. PICK m \in 1 .. Len(s) : s[m] = g
  BY <1>2, <1>11
<1>13. Earlier(c, d, s[i], s[m]) /\ Earlier(c, d, s[m], s[k])
  BY <1>4, <1>5, <1>6, <1>7, <1>9, <1>10, <1>12 DEF Earlier
<1>14. i < m /\ m < k
  BY <1>1, <1>2, <1>12, <1>13
<1>15. m \in i .. k
  BY <1>1, <1>2, <1>14
<1>16. QED
  BY <1>10, <1>12, <1>15

\* Chains are nested if they list what is recorded.
LEMMA ChainIsNested ==
  ASSUME NEW c, Structured(c), NEW n, NEW pre, NEW j \in Int, NEW U,
         U \subseteq {UseEvent(Dummy)}, NEW chain,
         Lists(c, Opening(c, n), chain, ChainEvents(c, n, pre, j, U)),
         Lists(c, 0, rec.nesting, OpenEnters(c, j))
  PROVE  ChainNested(chain)
<1> DEFINE E == ChainEvents(c, n, pre, j, U)
           d == Opening(c, n)
<1>1. Len(c) \in Nat /\ d \in Int
  BY StructuredParts, OpeningFacts
<1>2. Placed(c, d, E)
  <2>1. Placed(c, d, Seen(c, n, pre, j, RefsTo(c, j)))
    BY <1>1, SeenPlaced
  <2>2. \A e \in U : At(c, d, e) \in Int /\ Rank(c, e) \in Int
    BY <1>1, DummyFacts
  <2>3. QED
    BY <2>1, <2>2 DEF Placed, ChainEvents
<1>3. Framed(c, n, j, E)
  BY SeenFramed DEF ChainEvents
<1>4. Lists(c, d, chain, E)
  OBVIOUS
<1> HIDE DEF E, d
<1>5. Opened(chain)[Len(chain)] = [i \in DOMAIN rec.nesting |-> rec.nesting[i].blk]
  BY <1>2, <1>3, <1>4, OpenedNesting
<1>6. \A i, k \in DOMAIN chain :
        /\ chain[i].type = "Enter" /\ chain[k].type = "Jump"
        /\ chain[i].blk = chain[k].blk
        => \E m \in i .. k : IsReference(chain[m])
  BY <1>2, <1>3, <1>4, PairsEnclose
<1>7. QED
  BY <1>5, <1>6 DEF ChainNested, Opened, NextOpen

\* No block is open past the last node, and every reference is before it.
LEMMA AtTheEnd ==
  ASSUME NEW c, Structured(c)
  PROVE  /\ OpenEnters(c, Len(c) + 1) = {}
         /\ \A n, e : e \in References(c, n) => e \in RefsTo(c, Len(c) + 1)
<1>0. Len(c) \in Nat
  BY StructuredParts
<1>1. \A b \in Blocks(c) : ~(Len(c) + 1 <= Closing(c, b))
  BY <1>0, ClosingFacts
<1>2. OpenEnters(c, Len(c) + 1) = {}
  BY <1>1 DEF OpenEnters
<1>3. ASSUME NEW n, NEW e \in References(c, n)
      PROVE  e \in RefsTo(c, Len(c) + 1)
  <2>1. e \in AllReferences(c)
    BY ReferencesOf
  <2>2. At(c, 0, e) \in 1 .. Len(c)
    BY <2>1, ReferenceFacts
  <2>3. At(c, 0, e) < Len(c) + 1
    BY <1>0, <2>2
  <2>4. QED
    BY <2>1, <2>3 DEF RefsTo
<1>4. QED
  BY <1>2, <1>3

\* Past the last node everything is recorded.
LEMMA VisitedAll ==
  ASSUME NEW c, Structured(c), NEW pre, NEW r, Visited(c, pre, r, Len(c) + 1)
  PROVE  RecordedAll(c, pre, {}, r)
<1> DEFINE j == Len(c) + 1
<1>1. Records(c, pre, r, j, RefsTo(c, j)) /\ StackOK(c, r.stack, j)
  BY DEF Visited
<1>2. r.stack = << >>
  <2>1. r.stack \in Seq(Nat \X Nat) /\ Len(r.stack) = 0
    BY <1>1, DepthFacts DEF StackOK
  <2>2. QED
    BY <2>1, EmptySeq
<1>3. r.nesting = << >>
  <2>1. r.nesting \in Seq({})
    BY <1>1, AtTheEnd DEF Records, Lists
  <2>2. Len(r.nesting) \in Nat /\ \A i \in 1 .. Len(r.nesting) : r.nesting[i] \in {}
    BY <2>1, LenProperties, ElementOfSeq
  <2>3. Len(r.nesting) = 0
    <3>1. 1 \notin 1 .. Len(r.nesting)
      BY <2>2
    <3>2. QED
      BY <2>2, <3>1
  <2>4. QED
    BY <2>1, <2>3, EmptySeq
<1>4. \A n : n \in DOMAIN r.chain <=> References(c, n) # {}
  <2>1. \A n : References(c, n) \cap RefsTo(c, j) # {} <=> References(c, n) # {}
    BY AtTheEnd
  <2>2. QED
    BY <1>1, <2>1 DEF Records
<1>5. \A n : ChainEvents(c, n, pre, j, {}) = Seen(c, n, pre, j, RefsTo(c, j))
  BY DEF ChainEvents
<1>6. QED
  BY <1>1, <1>2, <1>3, <1>4, <1>5 DEF Records, RecordedAll

\* UseDefRecorder::setKeepLive's Use at the end of every chain.
LEMMA EndRecordingAll ==
  ASSUME NEW c, Structured(c), NEW pre, NEW r, Visited(c, pre, r, Len(c) + 1),
         NEW keepEnd \in BOOLEAN
  PROVE  RecordedAll(c, pre, EndUses(keepEnd), EndRecording(r, keepEnd))
<1> DEFINE t == EndRecording(r, keepEnd)
           j == Len(c) + 1
<1>0. Len(c) \in Nat
  BY StructuredParts
<1>1. RecordedAll(c, pre, {}, r)
  BY VisitedAll
<1>2. r = [chain |-> r.chain, nesting |-> r.nesting, stack |-> r.stack, dynamic |-> r.dynamic]
  BY DEF Visited, Records
<1>3. /\ t.nesting = r.nesting /\ t.stack = r.stack
      /\ t.chain = [n \in DOMAIN r.chain |-> EndedChain(r, n, keepEnd)]
  BY <1>2 DEF EndRecording
<1> HIDE DEF t
<1>4. ASSUME NEW n \in DOMAIN r.chain
      PROVE  Lists(c, Opening(c, n), t.chain[n], ChainEvents(c, n, pre, j, EndUses(keepEnd)))
  <2> DEFINE E == ChainEvents(c, n, pre, j, {})
             d == Opening(c, n)
             u == UseEvent(Dummy)
  <2>1. Lists(c, d, r.chain[n], E)
    BY <1>1 DEF RecordedAll
  <2>2. t.chain[n] = EndedChain(r, n, keepEnd)
    BY <1>3
  <2>3. CASE ~keepEnd
    <3>1. t.chain[n] = r.chain[n] /\ EndUses(keepEnd) = {}
      BY <2>2, <2>3 DEF EndedChain, EndUses
    <3>2. QED
      BY <2>1, <3>1
  <2>4. CASE keepEnd
    <3>1. t.chain[n] = Append(r.chain[n], u) /\ EndUses(keepEnd) = {u}
      BY <2>2, <2>4 DEF EndedChain, EndUses
    <3>2. ChainEvents(c, n, pre, j, EndUses(keepEnd)) = E \cup {u}
      BY <3>1 DEF ChainEvents
    <3>3. At(c, d, u) = j
      BY DummyFacts
    <3>4. \A f \in E : At(c, d, f) < j
      <4>1. d \in 0 .. Len(c)
        BY OpeningFacts
      <4>2. \A f \in References(c, n) : At(c, d, f) < j
        <5>1. \A f \in References(c, n) : At(c, d, f) \in 1 .. Len(c)
          BY ReferencesOf, ReferenceFacts
        <5>2. QED
          BY <1>0, <5>1
      <4>3. \A b \in Blocks(c) : At(c, d, EnterOf(c, b)) < j /\ At(c, d, JumpOf(c, b)) < j
        <5>1. \A b \in Blocks(c) : b \in 1 .. Len(c) /\ Closing(c, b) \in b + 1 .. Len(c)
          BY ClosingFacts
        <5>2. \A b \in Blocks(c) : b < j /\ Closing(c, b) < j
          BY <1>0, <5>1
        <5>3. QED
          BY <5>2, BlockEventFacts
      <4>4. At(c, d, DefEvent(Dummy)) < j
        <5>1. d < j
          BY <1>0, <4>1
        <5>2. QED
          BY <5>1, DummyFacts
      <4>5. QED
        BY <4>2, <4>3, <4>4
        DEF ChainEvents, Seen, EntersSeen, JumpsSeen, Prefixed
    <3>5. \A f \in E : Earlier(c, d, f, u)
      BY <3>3, <3>4 DEF Earlier
    <3> HIDE DEF E, d, u
    <3>6. Lists(c, d, Append(r.chain[n], u), E \cup {u})
      BY <2>1, <3>5, ListsAppend
    <3>7. QED
      BY <3>1, <3>2, <3>6 DEF d
  <2>5. QED
    BY <2>3, <2>4
<1>5. \A n : n \in DOMAIN t.chain <=> References(c, n) # {}
  BY <1>1, <1>3 DEF RecordedAll
<1>6. t.nesting = << >> /\ t.stack = << >>
  BY <1>1, <1>3 DEF RecordedAll
<1>7. \A n \in DOMAIN t.chain :
        Lists(c, Opening(c, n), t.chain[n], ChainEvents(c, n, pre, j, EndUses(keepEnd)))
  BY <1>3, <1>4
<1>8. QED
  BY <1>5, <1>6, <1>7 DEF RecordedAll, t

-------------------------------------------------------------------------------
(* The analysis *)

\* The recorder is empty before the first node.
LEMMA InitRecording ==
  ASSUME Init
  PROVE  Recording
<1>1. Structured(code)
  BY CodesAssumption DEF Init
<1>2. Len(code) \in Nat \ {0}
  BY <1>1, StructuredParts
<1>3. Visited(code, prefix, EmptyRecorder, 1)
  BY <1>1, EmptyRecords
<1>4. cur \in 0 .. Len(code) /\ Position = 1
  BY <1>2 DEF Init, Position
<1>5. QED
  BY <1>3, <1>4 DEF Init, Recording

\* Every step of the analysis keeps the recorder right.
LEMMA NextRecording ==
  ASSUME Recording, [Next]_vars
  PROVE  Recording'
<1>1. Structured(code) /\ Len(code) \in Nat \ {0}
  BY CodesAssumption, StructuredParts DEF Recording
<1>2. CASE VisitNode
  <2>1. cur \in 1 .. Len(code) /\ Position = cur /\ Visited(code, prefix, rec, cur)
    BY <1>1, <1>2 DEF Recording, VisitNode, Position
  <2>2. Visited(code, prefix, RecVisit(rec, code, cur, prefix), cur + 1)
    BY <1>1, <2>1, RecVisitRecords DEF Recording
  <2>3. cur' = IF cur < Len(code) THEN cur + 1 ELSE 0
    BY <1>2 DEF VisitNode, Succ
  <2>4. cur' \in 0 .. Len(code) /\ (IF cur' = 0 THEN Len(code) + 1 ELSE cur') = cur + 1
    BY <1>1, <2>1, <2>3
  <2>5. Position' = cur + 1
    BY <1>2, <2>4 DEF VisitNode, Position
  <2>6. Visited(code', prefix', rec', Position')
    BY <1>2, <2>2, <2>5 DEF VisitNode
  <2>7. QED
    BY <1>2, <2>4, <2>6 DEF VisitNode, Recording
<1>3. CASE StartKeepLive
  <2>1. Visited(code, TRUE, rec, Len(code) + 1)
    BY <1>3 DEF StartKeepLive, Recording, Position
  <2>2. RecordedAll(code, TRUE, EndUses(keepLiveAtEnd), EndRecording(rec, keepLiveAtEnd))
    BY <1>1, <2>1, EndRecordingAll DEF Recording
  <2>3. rec' = EndRecording(rec, keepLiveAtEnd)
    BY <1>3 DEF StartKeepLive
  <2>4. QED
    BY <1>3, <2>2, <2>3 DEF StartKeepLive, Recording
<1>4. CASE PassKeepLive
  BY <1>4 DEF PassKeepLive, Recording
<1>5. CASE SetLastUse
  BY <1>5 DEF SetLastUse, Recording
<1>6. CASE UNCHANGED vars
  BY <1>6 DEF vars, Recording, Position
<1>7. QED
  BY <1>2, <1>3, <1>4, <1>5, <1>6 DEF Next

\* A recorder that is right has nested chains.
LEMMA RecordingIsNested ==
  ASSUME Recording
  PROVE  WellNested
<1>1. Structured(code) /\ Len(code) \in Nat \ {0}
  BY CodesAssumption, StructuredParts DEF Recording
<1>2. ASSUME NEW U, U \subseteq {UseEvent(Dummy)}, NEW pre, RecordedAll(code, pre, U, rec)
      PROVE  \A n \in DOMAIN rec.chain : ChainNested(rec.chain[n])
  <2>1. Len(code) + 1 \in Int
    BY <1>1
  <2>2. Lists(code, 0, rec.nesting, OpenEnters(code, Len(code) + 1))
    <3>1. rec.nesting = << >> /\ OpenEnters(code, Len(code) + 1) = {}
      BY <1>1, <1>2, AtTheEnd DEF RecordedAll
    <3>2. QED
      BY <3>1 DEF Lists
  <2>3. QED
    BY <1>1, <1>2, <2>1, <2>2, ChainIsNested DEF RecordedAll
<1>3. CASE phase = "visit"
  <2>1. Visited(code, prefix, rec, Position) /\ Position \in Int
    BY <1>1, <1>3 DEF Recording, Position
  <2>2. /\ Lists(code, 0, rec.nesting, OpenEnters(code, Position))
        /\ \A n \in DOMAIN rec.chain :
             Lists(code, Opening(code, n), rec.chain[n],
                   Seen(code, n, prefix, Position, RefsTo(code, Position)))
    BY <2>1 DEF Visited, Records
  <2>3. \A n : ChainEvents(code, n, prefix, Position, {})
                 = Seen(code, n, prefix, Position, RefsTo(code, Position))
    BY DEF ChainEvents
  <2> DEFINE U == {}
  <2>4. U \subseteq {UseEvent(Dummy)}
    OBVIOUS
  <2>5. \A n \in DOMAIN rec.chain :
          Lists(code, Opening(code, n), rec.chain[n],
                ChainEvents(code, n, prefix, Position, U))
    BY <2>2, <2>3
  <2> HIDE DEF U
  <2>6. \A n \in DOMAIN rec.chain : ChainNested(rec.chain[n])
    BY <1>1, <2>1, <2>2, <2>4, <2>5, ChainIsNested
  <2>7. ASSUME cur = 0
        PROVE  rec.stack = << >> /\ rec.nesting = << >>
    <3>1. Visited(code, prefix, rec, Len(code) + 1)
      BY <2>1, <2>7 DEF Position
    <3>2. QED
      BY <1>1, <3>1, VisitedAll DEF RecordedAll
  <2>8. QED
    BY <2>6, <2>7 DEF WellNested
<1>4. CASE phase # "visit"
  <2>1. RecordedAll(code, TRUE, EndUses(keepLiveAtEnd), rec)
    BY <1>4 DEF Recording
  <2>2. EndUses(keepLiveAtEnd) \subseteq {UseEvent(Dummy)}
    BY DEF EndUses
  <2>3. \A n \in DOMAIN rec.chain : ChainNested(rec.chain[n])
    BY <1>2, <2>1, <2>2
  <2>4. rec.stack = << >> /\ rec.nesting = << >>
    BY <2>1 DEF RecordedAll
  <2>5. QED
    BY <2>3, <2>4 DEF WellNested
<1>5. QED
  BY <1>3, <1>4

\* In every state the chains, the nesting and the stack are what the visited nodes make them.
THEOREM RecordingCorrect == Spec => []Recording
<1>1. Init => Recording
  BY InitRecording
<1>2. Recording /\ [Next]_vars => Recording'
  BY NextRecording
<1>3. QED
  BY <1>1, <1>2, PTL DEF Spec

\* In every chain the blocks are nested and hold a reference, and the stack ends empty.
THEOREM WellNestedCorrect == Spec => []WellNested
<1>1. Recording => WellNested
  BY RecordingIsNested
<1>2. QED
  BY <1>1, RecordingCorrect, PTL

-------------------------------------------------------------------------------
(* Least solutions *)

\* Of some subsets of a finite set, one has no other in it.
LEMMA MinimalSubset ==
  ASSUME NEW S, IsFiniteSet(S)
  PROVE  \A T \in SUBSET SUBSET S :
           T # {} => \E x \in T : \A y \in T : y \subseteq x => y = x
<1> SUFFICES ASSUME NEW T \in SUBSET SUBSET S, T # {}
             PROVE  \E x \in T : \A y \in T : y \subseteq x => y = x
  OBVIOUS
<1> DEFINE R == StrictSubsetOrdering(S)
<1>1. FiniteSubsetsOf(S) = SUBSET S
  BY FS_FiniteSubsetsOfFinite
<1>2. IsWellFoundedOn(R, SUBSET S)
  BY <1>1, FS_StrictSubsetOrderingWellFounded
<1> HIDE DEF R
<1>3. PICK x \in T : \A y \in T : ~(<<y, x>> \in R)
  BY <1>2, WFMin
<1>4. ASSUME NEW y \in T, y \subseteq x PROVE y = x
  <2>1. y \in SUBSET S /\ x \in SUBSET S
    OBVIOUS
  <2>2. y # x => <<y, x>> \in R
    BY <1>4, <2>1 DEF R, StrictSubsetOrdering
  <2>3. QED
    BY <1>3, <2>2
<1>5. QED
  BY <1>4

\* The values of a function with a finite domain are finite in number.
LEMMA ImageFinite ==
  ASSUME NEW f, IsFiniteSet(DOMAIN f)
  PROVE  IsFiniteSet({f[x] : x \in DOMAIN f})
<1> DEFINE T == {f[x] : x \in DOMAIN f}
           g == [x \in DOMAIN f |-> f[x]]
<1>1. g \in [DOMAIN f -> T] /\ \A t \in T : \E x \in DOMAIN f : g[x] = t
  OBVIOUS
<1>2. g \in Surjection(DOMAIN f, T)
  BY <1>1 DEF Surjection
<1> HIDE DEF T, g
<1>3. IsFiniteSet(T)
  BY <1>2, FS_Surjection
<1>4. QED
  BY <1>3 DEF T

\* A graph has finitely many names.
LEMMA NamesFinite ==
  ASSUME NEW c, Structured(c)
  PROVE  IsFiniteSet(NamesOf(c))
<1>0. Len(c) \in Nat /\ DOMAIN c = 1 .. Len(c) /\ \A i \in 1 .. Len(c) : NodeOK(c, i)
  BY StructuredParts
<1>1. IsFiniteSet(1 .. Len(c))
  BY <1>0, FS_Interval
<1>2. IsFiniteSet({c[i].name : i \in ParNodes(c)})
  <2> DEFINE f == [i \in ParNodes(c) |-> c[i].name]
  <2>1. ParNodes(c) \in SUBSET (1 .. Len(c))
    BY <1>0 DEF ParNodes
  <2>2. IsFiniteSet(ParNodes(c))
    BY <1>1, <2>1, FS_Subset
  <2>3. IsFiniteSet({f[x] : x \in DOMAIN f})
    <3>1. DOMAIN f = ParNodes(c)
      OBVIOUS
    <3> HIDE DEF f
    <3>2. IsFiniteSet(DOMAIN f)
      BY <2>2, <3>1
    <3>3. QED
      BY <3>2, ImageFinite
  <2>4. {f[x] : x \in DOMAIN f} = {c[i].name : i \in ParNodes(c)}
    OBVIOUS
  <2>5. QED
    BY <2>3, <2>4
<1>3. \A j \in 1 .. Len(c) : IsFiniteSet(DefsAt(c, j))
  <2> SUFFICES ASSUME NEW j \in 1 .. Len(c)
               PROVE  IsFiniteSet(DefsAt(c, j))
    OBVIOUS
  <2> DEFINE f == c[j].lhs
  <2>1. f \in Seq(STRING)
    BY <1>0 DEF NodeOK
  <2>2. Len(f) \in Nat /\ DOMAIN f = 1 .. Len(f)
    BY <2>1, LenProperties
  <2> HIDE DEF f
  <2>3. IsFiniteSet(DOMAIN f)
    BY <2>2, FS_Interval
  <2>4. IsFiniteSet({f[x] : x \in DOMAIN f})
    BY <2>3, ImageFinite
  <2>5. QED
    BY <2>4 DEF DefsAt, f
<1>4. IsFiniteSet({DefsAt(c, j) : j \in DOMAIN c})
  <2> DEFINE f == [j \in DOMAIN c |-> DefsAt(c, j)]
  <2>1. IsFiniteSet({f[x] : x \in DOMAIN f})
    <3>1. DOMAIN f = 1 .. Len(c)
      BY <1>0
    <3> HIDE DEF f
    <3>2. IsFiniteSet(DOMAIN f)
      BY <1>1, <3>1
    <3>3. QED
      BY <3>2, ImageFinite
  <2>2. {f[x] : x \in DOMAIN f} = {DefsAt(c, j) : j \in DOMAIN c}
    OBVIOUS
  <2>3. QED
    BY <2>1, <2>2
<1>5. IsFiniteSet(UNION {DefsAt(c, j) : j \in DOMAIN c})
  <2> DEFINE S == {DefsAt(c, j) : j \in DOMAIN c}
  <2>1. \A T \in S : IsFiniteSet(T)
    BY <1>0, <1>3
  <2>2. IsFiniteSet(S)
    BY <1>4
  <2> HIDE DEF S
  <2>3. IsFiniteSet(UNION S)
    BY <2>1, <2>2, FS_UNION
  <2>4. QED
    BY <2>3 DEF S
<1>6. IsFiniteSet({c[i].name : i \in ParNodes(c)} \cup UNION {DefsAt(c, j) : j \in DOMAIN c})
  BY <1>2, <1>5, FS_Union
<1>7. QED
  BY <1>6 DEF NamesOf

\* The equations stay within the graph and are monotone.
LEMMA ThroughFacts ==
  ASSUME NEW c, Structured(c), NEW atEnd
  PROVE  /\ \A S : Through(c, S) \subseteq Universe(c, atEnd)
         /\ \A S, T : S \subseteq T => Through(c, S) \subseteq Through(c, T)
<1>0. Len(c) \in Nat /\ DOMAIN c = 1 .. Len(c)
  BY StructuredParts
<1>1. Places(c) \subseteq Universe(c, atEnd)
  BY <1>0 DEF Places, Universe
<1>2. QED
  BY <1>1 DEF Through

\* The function exists, and it gives the least solution.
LEMMA ExtendedFacts ==
  ASSUME NEW c, Structured(c), NEW atEnd, IsFiniteSet(atEnd),
         NEW live \in SUBSET Universe(c, atEnd)
  PROVE  Extended(c, atEnd)[live] = LeastOf(c, atEnd, live)
<1> DEFINE U == Universe(c, atEnd)
           f == Extended(c, atEnd)
           g == [x \in SUBSET U |-> LeastOf(c, atEnd, x)]
<1>0. /\ \A S : Through(c, S) \subseteq U
      /\ \A S, T : S \subseteq T => Through(c, S) \subseteq Through(c, T)
  BY ThroughFacts
<1>1. \A x \in SUBSET U : LeastOf(c, atEnd, x) =
        LET more == Through(c, x) \ x
        IN IF more = {} THEN x ELSE LeastOf(c, atEnd, x \cup more)
  <2> SUFFICES ASSUME NEW x \in SUBSET U, NEW more, more = Through(c, x) \ x
               PROVE  LeastOf(c, atEnd, x) =
                        IF more = {} THEN x ELSE LeastOf(c, atEnd, x \cup more)
    OBVIOUS
  <2>1. CASE more = {}
    <3>1. Through(c, x) \subseteq x
      BY <2>1
    <3>2. LeastOf(c, atEnd, x) = x
      BY <3>1 DEF LeastOf
    <3>3. QED
      BY <2>1, <3>2
  <2>2. CASE more # {}
    <3>1. \A S \in SUBSET U : Through(c, S) \subseteq S =>
            (x \subseteq S <=> x \cup more \subseteq S)
      BY <1>0
    <3>2. LeastOf(c, atEnd, x) = LeastOf(c, atEnd, x \cup more)
      BY <3>1 DEF LeastOf
    <3>3. QED
      BY <2>2, <3>2
  <2>3. QED
    BY <2>1, <2>2
<1>2. \A x \in SUBSET U : x \cup (Through(c, x) \ x) \in SUBSET U
  BY <1>0
<1>3. g = [x \in SUBSET U |->
             LET more == Through(c, x) \ x
             IN IF more = {} THEN x ELSE g[x \cup more]]
  BY <1>1, <1>2
<1>4. f = [x \in SUBSET U |->
             LET more == Through(c, x) \ x
             IN IF more = {} THEN x ELSE f[x \cup more]]
  <2> HIDE DEF g
  <2>1. QED
    BY <1>3 DEF Extended
<1> HIDE DEF f, g
<1>5. \A x \in SUBSET U : f[x] =
        IF Through(c, x) \ x = {} THEN x ELSE f[x \cup (Through(c, x) \ x)]
  BY <1>4
<1>6. IsFiniteSet(U)
  <2>1. Len(c) \in Nat
    BY StructuredParts
  <2>2. IsFiniteSet(0 .. Len(c))
    BY <2>1, FS_Interval
  <2>3. IsFiniteSet(NamesOf(c) \cup atEnd)
    BY NamesFinite, FS_Union
  <2>4. QED
    BY <2>2, <2>3, FS_Product DEF Universe
<1>7. \A x \in SUBSET U : f[x] = LeastOf(c, atEnd, x)
  <2> DEFINE Bad == {x \in SUBSET U : f[x] # LeastOf(c, atEnd, x)}
             T == {U \ x : x \in Bad}
  <2> SUFFICES ASSUME Bad # {}
               PROVE  FALSE
    OBVIOUS
  <2>1. T \in SUBSET SUBSET U /\ T # {}
    OBVIOUS
  <2>2. PICK t \in T : \A y \in T : y \subseteq t => y = t
    <3> HIDE DEF T
    <3>1. QED
      BY <1>6, <2>1, MinimalSubset
  <2>3. PICK x \in Bad : t = U \ x
    OBVIOUS
  <2> DEFINE more == Through(c, x) \ x
             y == x \cup more
  <2>4. x \in SUBSET U /\ f[x] # LeastOf(c, atEnd, x)
    OBVIOUS
  <2>5. y \in SUBSET U
    BY <1>2, <2>4
  <2>6. more # {}
    BY <1>1, <1>5, <2>4
  <2>7. U \ y \subseteq U \ x /\ U \ y # U \ x
    BY <2>4, <2>5, <2>6
  <2>8. y \notin Bad
    BY <2>2, <2>3, <2>7
  <2>9. f[y] = LeastOf(c, atEnd, y)
    BY <2>5, <2>8
  <2>10. f[x] = f[y]
    BY <1>5, <2>4, <2>6
  <2>11. LeastOf(c, atEnd, x) = LeastOf(c, atEnd, y)
    BY <1>1, <2>4, <2>6
  <2>12. QED
    BY <2>4, <2>9, <2>10, <2>11
<1>8. QED
  BY <1>7 DEF f

-------------------------------------------------------------------------------
(* Where a name is live *)

\* The base is in the universe; at a node it holds the names used there.
LEMMA LiveBaseFacts ==
  ASSUME NEW c, Structured(c), NEW atEnd
  PROVE  /\ LiveBase(c, atEnd) \in SUBSET Universe(c, atEnd)
         /\ \A n : <<0, n>> \in LiveBase(c, atEnd) <=> n \in atEnd
         /\ \A n : \A j \in 1 .. Len(c) :
              <<j, n>> \in LiveBase(c, atEnd) <=> UsedAt(c, n, j)
<1>0. Len(c) \in Nat
  BY StructuredParts
<1>1. /\ DOMAIN Consumers(c) = ParNodes(c)
      /\ \A i \in ParNodes(c) : Consumers(c)[i] = Consumer(c, i)
  BY DEF Consumers
<1>2. \A i \in ParNodes(c) : i \in 1 .. Len(c) /\ Consumer(c, i) \in i + 1 .. Len(c)
  BY ConsumerFacts
<1>3. \A i \in ParNodes(c) : Consumer(c, i) \in 1 .. Len(c) /\ Consumer(c, i) # 0
  BY <1>0, <1>2
<1>4. \A i \in ParNodes(c) : c[i].name \in NamesOf(c)
  BY DEF NamesOf
<1>5. \A x : x \in LiveBase(c, atEnd) <=>
         \/ \E n \in atEnd : x = <<0, n>>
         \/ \E i \in ParNodes(c) : x = <<Consumer(c, i), c[i].name>>
  BY <1>1 DEF LiveBase
<1>6. ASSUME NEW x \in LiveBase(c, atEnd)
      PROVE  x \in Universe(c, atEnd)
  <2>1. 0 \in 0 .. Len(c) /\ \A i \in 1 .. Len(c) : i \in 0 .. Len(c)
    BY <1>0
  <2>2. QED
    BY <1>3, <1>4, <1>5, <2>1 DEF Universe
<1>7. ASSUME NEW n
      PROVE  <<0, n>> \in LiveBase(c, atEnd) <=> n \in atEnd
  BY <1>3, <1>5
<1>8. ASSUME NEW n, NEW j \in 1 .. Len(c)
      PROVE  <<j, n>> \in LiveBase(c, atEnd) <=> UsedAt(c, n, j)
  <2>1. j # 0
    BY <1>0
  <2>2. QED
    BY <1>5, <2>1 DEF UsedAt
<1>9. QED
  BY <1>6, <1>7, <1>8

\* Live returns the least solution.
LEMMA LiveIs ==
  ASSUME NEW c, Structured(c), NEW atEnd, IsFiniteSet(atEnd)
  PROVE  Live(c, Consumers(c), atEnd) = LeastOf(c, atEnd, LiveBase(c, atEnd))
<1>1. Live(c, Consumers(c), atEnd) = Extended(c, atEnd)[LiveBase(c, atEnd)]
  BY DEF Live, Extended, LiveBase, Through, Places, Universe
<1>2. QED
  BY <1>1, LiveBaseFacts, ExtendedFacts

\* The least solution solves the equations.
LEMMA LeastSolves ==
  ASSUME NEW c, Structured(c), NEW atEnd, NEW base \in SUBSET Universe(c, atEnd)
  PROVE  LET L == LeastOf(c, atEnd, base) IN
         /\ L \in SUBSET Universe(c, atEnd)
         /\ \A x : x \in L <=> x \in base \/ x \in Through(c, L)
<1> DEFINE L == LeastOf(c, atEnd, base)
           U == Universe(c, atEnd)
<1>0. /\ \A S : Through(c, S) \subseteq U
      /\ \A S, T : S \subseteq T => Through(c, S) \subseteq Through(c, T)
  BY ThroughFacts
<1>1. L \in SUBSET U /\ base \subseteq L
  BY DEF LeastOf
<1>2. \A S \in SUBSET U : base \subseteq S /\ Through(c, S) \subseteq S => L \subseteq S
  BY DEF LeastOf
<1>3. Through(c, L) \subseteq L
  <2>1. \A S \in SUBSET U : base \subseteq S /\ Through(c, S) \subseteq S
          => Through(c, L) \subseteq S
    BY <1>0, <1>2
  <2> HIDE DEF L
  <2>2. Through(c, L) \subseteq U
    BY <1>0
  <2>3. QED
    BY <2>1, <2>2 DEF L, LeastOf
<1> HIDE DEF L
<1>4. L \subseteq base \cup Through(c, L)
  <2> DEFINE S == base \cup Through(c, L)
  <2>1. S \in SUBSET U /\ base \subseteq S
    BY <1>0
  <2>2. S \subseteq L
    BY <1>1, <1>3
  <2>3. Through(c, S) \subseteq Through(c, L)
    BY <1>0, <2>2
  <2>4. Through(c, S) \subseteq S
    BY <2>3
  <2>5. QED
    BY <1>2, <2>1, <2>4
<1>5. QED
  BY <1>1, <1>3, <1>4 DEF L

\* Control goes to the next place or back to the entrance of a loop.
LEMMA ThroughPlaces ==
  ASSUME NEW c, Structured(c), NEW n \in NamesOf(c), NEW j \in 1 .. Len(c), NEW S
  PROVE  <<j, n>> \in Through(c, S) <=>
           /\ n \notin DefsAt(c, j)
           /\ \/ <<PlaceOf(c, j + 1), n>> \in S
              \/ LoopEnd(c, j) /\ <<PlaceOf(c, c[j].blk), n>> \in S
<1>0. Len(c) \in Nat /\ DOMAIN c = 1 .. Len(c) /\ NodeOK(c, j)
  BY StructuredParts
<1>1. Succ(c, j, FALSE) = PlaceOf(c, j + 1)
  BY <1>0 DEF Succ, PlaceOf
<1>2. LoopEnd(c, j) => Succ(c, j, TRUE) = PlaceOf(c, c[j].blk)
  <2> SUFFICES ASSUME LoopEnd(c, j)
               PROVE  Succ(c, j, TRUE) = PlaceOf(c, c[j].blk)
    OBVIOUS
  <2>1. c[j].blk \in 1 .. j - 1
    BY <1>0 DEF LoopEnd, NodeOK
  <2>2. c[j].blk # Len(c) + 1
    BY <1>0, <2>1
  <2>3. QED
    BY <2>2 DEF Succ, PlaceOf
<1>3. \A s : s \in SuccSet(c, j) <=>
         s = PlaceOf(c, j + 1) \/ (LoopEnd(c, j) /\ s = PlaceOf(c, c[j].blk))
  BY <1>1, <1>2 DEF SuccSet, LoopEnd
<1>4. <<j, n>> \in Places(c)
  BY <1>0 DEF Places
<1>5. QED
  BY <1>3, <1>4 DEF Through

\* The equations of liveness, for one name.
LEMMA LivePlacesFacts ==
  ASSUME NEW c, Structured(c), NEW atEnd, IsFiniteSet(atEnd), NEW n \in NamesOf(c)
  PROVE  LET L == LivePlaces(c, n, atEnd) IN
         /\ L \in SUBSET (1 .. Len(c) + 1)
         /\ Len(c) + 1 \in L <=> n \in atEnd
         /\ \A j \in 1 .. Len(c) :
              j \in L <=> \/ UsedAt(c, n, j)
                          \/ /\ n \notin DefsAt(c, j)
                             /\ j + 1 \in L \/ (LoopEnd(c, j) /\ c[j].blk \in L)
<1> DEFINE M == Live(c, Consumers(c), atEnd)
           L == LivePlaces(c, n, atEnd)
           base == LiveBase(c, atEnd)
<1>0. Len(c) \in Nat /\ DOMAIN c = 1 .. Len(c) /\ \A i \in 1 .. Len(c) : NodeOK(c, i)
  BY StructuredParts
<1>1. M = LeastOf(c, atEnd, base)
  BY LiveIs
<1>2. base \in SUBSET Universe(c, atEnd)
  BY LiveBaseFacts
<1>3. \A x : x \in M <=> x \in base \/ x \in Through(c, M)
  <2> HIDE DEF base, M
  <2>1. QED
    BY <1>1, <1>2, LeastSolves
<1>4. \A x : x \in Through(c, M) => x[1] \in 1 .. Len(c)
  BY <1>0 DEF Through, Places
<1>5. \A j \in 1 .. Len(c) + 1 : j \in L <=> <<PlaceOf(c, j), n>> \in M
  BY DEF LivePlaces
<1> HIDE DEF M
<1>6. Len(c) + 1 \in L <=> n \in atEnd
  <2>1. Len(c) + 1 \in 1 .. Len(c) + 1 /\ PlaceOf(c, Len(c) + 1) = 0
    BY <1>0 DEF PlaceOf
  <2>2. Len(c) + 1 \in L <=> <<0, n>> \in M
    BY <1>5, <2>1
  <2>3. <<0, n>> \notin Through(c, M)
    <3>1. 0 \notin 1 .. Len(c)
      BY <1>0
    <3>2. QED
      BY <1>4, <3>1
  <2>4. <<0, n>> \in base <=> n \in atEnd
    BY LiveBaseFacts
  <2>5. QED
    BY <1>3, <2>2, <2>3, <2>4
<1>7. ASSUME NEW j \in 1 .. Len(c)
      PROVE  j \in L <=> \/ UsedAt(c, n, j)
                         \/ /\ n \notin DefsAt(c, j)
                            /\ j + 1 \in L \/ (LoopEnd(c, j) /\ c[j].blk \in L)
  <2>1. j \in 1 .. Len(c) + 1 /\ j + 1 \in 1 .. Len(c) + 1 /\ PlaceOf(c, j) = j
    BY <1>0 DEF PlaceOf
  <2>2. LoopEnd(c, j) => c[j].blk \in 1 .. Len(c) + 1
    <3> SUFFICES ASSUME LoopEnd(c, j)
                 PROVE  c[j].blk \in 1 .. Len(c) + 1
      OBVIOUS
    <3>1. c[j].blk \in 1 .. j - 1
      BY <1>0 DEF LoopEnd, NodeOK
    <3>2. QED
      BY <1>0, <3>1
  <2>3. j \in L <=> <<j, n>> \in base \/ <<j, n>> \in Through(c, M)
    BY <1>3, <1>5, <2>1
  <2>4. <<j, n>> \in base <=> UsedAt(c, n, j)
    BY LiveBaseFacts
  <2>5. <<j, n>> \in Through(c, M) <=>
          /\ n \notin DefsAt(c, j)
          /\ \/ <<PlaceOf(c, j + 1), n>> \in M
             \/ LoopEnd(c, j) /\ <<PlaceOf(c, c[j].blk), n>> \in M
    BY ThroughPlaces
  <2>6. /\ j + 1 \in L <=> <<PlaceOf(c, j + 1), n>> \in M
        /\ LoopEnd(c, j) => (c[j].blk \in L <=> <<PlaceOf(c, c[j].blk), n>> \in M)
    BY <1>5, <2>1, <2>2
  <2>7. QED
    BY <2>3, <2>4, <2>5, <2>6
<1>8. L \in SUBSET (1 .. Len(c) + 1)
  BY DEF LivePlaces
<1>9. QED
  BY <1>6, <1>7, <1>8

\* No other solution has less places.
LEMMA LiveLeast ==
  ASSUME NEW c, Structured(c), NEW atEnd, IsFiniteSet(atEnd), NEW n \in NamesOf(c),
         NEW S,
         n \in atEnd => Len(c) + 1 \in S,
         \A j \in 1 .. Len(c) :
           \/ UsedAt(c, n, j)
           \/ /\ n \notin DefsAt(c, j)
              /\ j + 1 \in S \/ (LoopEnd(c, j) /\ c[j].blk \in S)
           => j \in S
  PROVE  LivePlaces(c, n, atEnd) \subseteq S
<1> DEFINE M == Live(c, Consumers(c), atEnd)
           base == LiveBase(c, atEnd)
           U == Universe(c, atEnd)
           R == {x \in U : x[2] = n => \E j \in S : j \in 1 .. Len(c) + 1 /\ x[1] = PlaceOf(c, j)}
<1>0. Len(c) \in Nat /\ DOMAIN c = 1 .. Len(c) /\ \A i \in 1 .. Len(c) : NodeOK(c, i)
  BY StructuredParts
<1>1. M = LeastOf(c, atEnd, base)
  BY LiveIs
<1>2. base \in SUBSET U /\ \A T : Through(c, T) \subseteq U
  BY LiveBaseFacts, ThroughFacts
<1>3. \A j \in 1 .. Len(c) + 1, k \in 1 .. Len(c) + 1 :
        PlaceOf(c, j) = PlaceOf(c, k) => j = k
  BY <1>0 DEF PlaceOf
<1>4. \A j \in 1 .. Len(c) + 1 : <<PlaceOf(c, j), n>> \in R => j \in S
  BY <1>3
<1>5. \A j \in 1 .. Len(c) : PlaceOf(c, j) = j /\ j \in 1 .. Len(c) + 1
  BY <1>0 DEF PlaceOf
<1>6. base \subseteq R
  <2> SUFFICES ASSUME NEW x \in base, x[2] = n
               PROVE  \E j \in S : j \in 1 .. Len(c) + 1 /\ x[1] = PlaceOf(c, j)
    BY <1>2
  <2>1. x = <<x[1], n>> /\ x[1] \in 0 .. Len(c)
    BY <1>2 DEF Universe
  <2>2. CASE x[1] = 0
    <3>1. n \in atEnd
      BY <2>1, <2>2, LiveBaseFacts
    <3>2. Len(c) + 1 \in 1 .. Len(c) + 1 /\ PlaceOf(c, Len(c) + 1) = 0
      BY <1>0 DEF PlaceOf
    <3>3. QED
      BY <2>2, <3>1, <3>2
  <2>3. CASE x[1] # 0
    <3>1. x[1] \in 1 .. Len(c)
      BY <1>0, <2>1, <2>3
    <3>2. UsedAt(c, n, x[1])
      BY <2>1, <3>1, LiveBaseFacts
    <3>3. x[1] \in S
      BY <3>1, <3>2
    <3>4. QED
      BY <1>5, <3>1, <3>3
  <2>4. QED
    BY <2>2, <2>3
<1>7. Through(c, R) \subseteq R
  <2> SUFFICES ASSUME NEW x \in Through(c, R), x[2] = n
               PROVE  \E j \in S : j \in 1 .. Len(c) + 1 /\ x[1] = PlaceOf(c, j)
    BY <1>2
  <2>1. x[1] \in 1 .. Len(c) /\ x = <<x[1], n>>
    BY <1>0 DEF Through, Places
  <2> DEFINE j == x[1]
  <2>2. /\ n \notin DefsAt(c, j)
        /\ \/ <<PlaceOf(c, j + 1), n>> \in R
           \/ LoopEnd(c, j) /\ <<PlaceOf(c, c[j].blk), n>> \in R
    <3> HIDE DEF R
    <3>1. <<j, n>> \in Through(c, R) /\ j \in 1 .. Len(c)
      BY <2>1
    <3> HIDE DEF j
    <3>2. QED
      BY <3>1, ThroughPlaces
  <2>3. j + 1 \in 1 .. Len(c) + 1
    BY <1>0, <2>1
  <2>4. LoopEnd(c, j) => c[j].blk \in 1 .. Len(c) + 1
    <3> SUFFICES ASSUME LoopEnd(c, j)
                 PROVE  c[j].blk \in 1 .. Len(c) + 1
      OBVIOUS
    <3>1. j \in 1 .. Len(c)
      BY <2>1
    <3> HIDE DEF j
    <3>2. c[j].blk \in 1 .. j - 1
      BY <1>0, <3>1 DEF LoopEnd, NodeOK
    <3>3. QED
      BY <1>0, <3>1, <3>2
  <2>5. j + 1 \in S \/ (LoopEnd(c, j) /\ c[j].blk \in S)
    <3> HIDE DEF R, j
    <3>1. QED
      BY <1>4, <2>2, <2>3, <2>4
  <2>6. j \in S
    BY <2>1, <2>2, <2>5
  <2>7. QED
    BY <1>5, <2>1, <2>6
<1>8. M \subseteq R
  <2>1. R \in SUBSET U
    OBVIOUS
  <2> HIDE DEF R
  <2>2. QED
    BY <1>1, <1>6, <1>7, <2>1 DEF LeastOf
<1>9. QED
  <2> HIDE DEF R
  <2>1. \A j \in 1 .. Len(c) + 1 : <<PlaceOf(c, j), n>> \in M => j \in S
    BY <1>4, <1>8
  <2>2. QED
    BY <2>1 DEF LivePlaces

\* The names of a graph are those with a reference.
LEMMA NamesIs ==
  ASSUME NEW c, Structured(c), NEW n
  PROVE  n \in NamesOf(c) <=> References(c, n) # {}
<1>0. Len(c) \in Nat /\ DOMAIN c = 1 .. Len(c) /\ \A i \in 1 .. Len(c) : NodeOK(c, i)
  BY StructuredParts
<1>1. \A j \in 1 .. Len(c) : DOMAIN c[j].lhs = 1 .. Len(c[j].lhs)
  BY <1>0, LenProperties DEF NodeOK
<1>2. ASSUME NEW i \in ParNodes(c), c[i].name = n
      PROVE  References(c, n) # {}
  <2>1. NameOf(c, <<i, 0>>) = n
    BY <1>2 DEF NameOf
  <2>2. QED
    BY <2>1, UseFacts
<1>3. ASSUME NEW j \in 1 .. Len(c), NEW k \in 1 .. Len(c[j].lhs), c[j].lhs[k] = n
      PROVE  References(c, n) # {}
  BY <1>3, DefFacts
<1>4. ASSUME NEW e \in References(c, n)
      PROVE  n \in NamesOf(c)
  <2>1. e \in AllReferences(c) /\ NameOf(c, e.par) = n
    BY ReferencesOf
  <2>2. CASE \E i \in ParNodes(c) : e = UseEvent(<<i, 0>>)
    <3>1. PICK i \in ParNodes(c) : e = UseEvent(<<i, 0>>)
      BY <2>2
    <3>2. e.par = <<i, 0>>
      BY <3>1, UseFacts
    <3>3. c[i].name = n
      BY <2>1, <3>2 DEF NameOf
    <3>4. QED
      BY <3>3 DEF NamesOf
  <2>3. CASE \E j \in 1 .. Len(c) : \E k \in 1 .. Len(c[j].lhs) : e = DefEvent(<<j, k>>)
    <3>1. PICK j \in 1 .. Len(c) : \E k \in 1 .. Len(c[j].lhs) : e = DefEvent(<<j, k>>)
      BY <2>3
    <3>2. PICK k \in 1 .. Len(c[j].lhs) : e = DefEvent(<<j, k>>)
      BY <3>1
    <3>3. e.par = <<j, k>>
      BY <3>2, DefFacts
    <3>4. k # 0
      <4>1. Len(c[j].lhs) \in Nat
        BY <1>0, LenProperties DEF NodeOK
      <4>2. QED
        BY <4>1
    <3>5. c[j].lhs[k] = n
      BY <2>1, <3>3, <3>4 DEF NameOf
    <3>6. n \in DefsAt(c, j)
      BY <1>1, <3>5 DEF DefsAt
    <3>7. QED
      BY <1>0, <3>6 DEF NamesOf
  <2>4. QED
    BY <2>1, <2>2, <2>3, ReferenceIs
<1>5. ASSUME n \in NamesOf(c)
      PROVE  References(c, n) # {}
  <2>1. \/ \E i \in ParNodes(c) : c[i].name = n
        \/ \E j \in 1 .. Len(c) : n \in DefsAt(c, j)
    BY <1>0, <1>5 DEF NamesOf
  <2>2. QED
    BY <1>1, <1>2, <1>3, <2>1 DEF DefsAt
<1>6. QED
  BY <1>4, <1>5

\* Where a name is used and where it is assigned.
LEMMA UsedIs ==
  ASSUME NEW c, Structured(c), NEW n, NEW j
  PROVE  UsedAt(c, n, j) <=>
           \E e \in References(c, n) : e.type = "Use" /\ At(c, 0, e) = j
<1>1. ASSUME NEW i \in ParNodes(c), Consumer(c, i) = j, c[i].name = n
      PROVE  \E e \in References(c, n) : e.type = "Use" /\ At(c, 0, e) = j
  <2>1. NameOf(c, <<i, 0>>) = n
    BY <1>1 DEF NameOf
  <2>2. QED
    BY <1>1, <2>1, UseFacts
<1>2. ASSUME NEW e \in References(c, n), e.type = "Use", At(c, 0, e) = j
      PROVE  UsedAt(c, n, j)
  <2>1. e \in AllReferences(c) /\ NameOf(c, e.par) = n
    BY ReferencesOf
  <2>2. e.par \in Occurrences(c) /\ e.par[2] = 0 /\ Consumer(c, e.par[1]) = j
    BY <1>2, <2>1, ReferenceFacts
  <2>3. e.par[1] \in ParNodes(c) /\ c[e.par[1]].name = n
    BY <2>1, <2>2, OccurrenceFacts DEF NameOf
  <2>4. QED
    BY <2>2, <2>3 DEF UsedAt
<1>3. QED
  BY <1>1, <1>2 DEF UsedAt

\* A node assigns a name if a Def of it is at the node.
LEMMA DefinedIs ==
  ASSUME NEW c, Structured(c), NEW n, NEW j \in 1 .. Len(c)
  PROVE  n \in DefsAt(c, j) <=>
           \E e \in References(c, n) : e.type = "Def" /\ At(c, 0, e) = j
<1>0. NodeOK(c, j) /\ Len(c[j].lhs) \in Nat /\ DOMAIN c[j].lhs = 1 .. Len(c[j].lhs)
  <2>1. NodeOK(c, j)
    BY StructuredParts
  <2>2. QED
    BY <2>1, LenProperties DEF NodeOK
<1>1. ASSUME NEW k \in 1 .. Len(c[j].lhs), c[j].lhs[k] = n
      PROVE  \E e \in References(c, n) : e.type = "Def" /\ At(c, 0, e) = j
  BY <1>1, DefFacts
<1>2. ASSUME NEW e \in References(c, n), e.type = "Def", At(c, 0, e) = j
      PROVE  n \in DefsAt(c, j)
  <2>1. e \in AllReferences(c) /\ NameOf(c, e.par) = n
    BY ReferencesOf
  <2>2. e.par \in Occurrences(c) /\ e.par[2] # 0 /\ e.par[1] = j
    BY <1>2, <2>1, ReferenceFacts
  <2>3. e.par[2] \in 1 .. Len(c[j].lhs) /\ c[j].lhs[e.par[2]] = n
    BY <2>1, <2>2, OccurrenceFacts DEF NameOf
  <2>4. QED
    BY <1>0, <2>3 DEF DefsAt
<1>3. QED
  BY <1>0, <1>1, <1>2 DEF DefsAt

\* A name is not live where it is not used and no path leads to where it is live.
LEMMA LiveGap ==
  ASSUME NEW c, Structured(c), NEW atEnd, IsFiniteSet(atEnd), NEW n \in NamesOf(c),
         NEW a \in 1 .. Len(c), NEW z \in a .. Len(c),
         \A i \in a .. z : ~UsedAt(c, n, i) /\ (LoopEnd(c, i) => a <= c[i].blk),
         NEW x \in a .. z, x \in LivePlaces(c, n, atEnd)
  PROVE  z + 1 \in LivePlaces(c, n, atEnd)
<1> DEFINE L == LivePlaces(c, n, atEnd)
           S == L \ (a .. z)
<1>0. Len(c) \in Nat /\ \A i \in 1 .. Len(c) : NodeOK(c, i)
  BY StructuredParts
<1>1. /\ Len(c) + 1 \in L <=> n \in atEnd
      /\ \A j \in 1 .. Len(c) :
           j \in L <=> \/ UsedAt(c, n, j)
                       \/ /\ n \notin DefsAt(c, j)
                          /\ j + 1 \in L \/ (LoopEnd(c, j) /\ c[j].blk \in L)
  BY LivePlacesFacts
<1> SUFFICES ASSUME z + 1 \notin L
             PROVE  FALSE
  OBVIOUS
<1> HIDE DEF L
<1>2. n \in atEnd => Len(c) + 1 \in S
  BY <1>0, <1>1
<1>3. ASSUME NEW j \in 1 .. Len(c),
             \/ UsedAt(c, n, j)
             \/ /\ n \notin DefsAt(c, j)
                /\ j + 1 \in S \/ (LoopEnd(c, j) /\ c[j].blk \in S)
      PROVE  j \in S
  <2>1. j \in L
    BY <1>1, <1>3
  <2>2. CASE j \in a .. z
    <3>1. j + 1 \notin S
      BY <1>0, <2>2
    <3>2. LoopEnd(c, j) => c[j].blk \in a .. z
      <4> SUFFICES ASSUME LoopEnd(c, j)
                   PROVE  c[j].blk \in a .. z
        OBVIOUS
      <4>1. c[j].blk \in 1 .. j - 1 /\ a <= c[j].blk
        BY <1>0, <2>2 DEF NodeOK, LoopEnd
      <4>2. QED
        BY <1>0, <2>2, <4>1
    <3>3. QED
      BY <1>3, <2>2, <3>1, <3>2
  <2>3. QED
    BY <2>1, <2>2
<1>4. L \subseteq S
  <2> HIDE DEF S
  <2>1. QED
    BY <1>2, <1>3, LiveLeast DEF L
<1>5. QED
  BY <1>4 DEF L

\* A name that is live is live at the places before it that do not assign it.
LEMMA LiveDown ==
  ASSUME NEW c, Structured(c), NEW atEnd, IsFiniteSet(atEnd), NEW n \in NamesOf(c),
         NEW a \in 1 .. Len(c) + 1, NEW z \in a .. Len(c) + 1,
         \A i \in a .. z - 1 : n \notin DefsAt(c, i),
         z \in LivePlaces(c, n, atEnd)
  PROVE  a \in LivePlaces(c, n, atEnd)
<1> DEFINE L == LivePlaces(c, n, atEnd)
<1>0. Len(c) \in Nat
  BY StructuredParts
<1>1. \A j \in 1 .. Len(c) : n \notin DefsAt(c, j) /\ j + 1 \in L => j \in L
  BY LivePlacesFacts
<1>2. z \in L
  OBVIOUS
<1> HIDE DEF L
<1>3. \A i \in a .. z : a < i /\ i \in L => i - 1 \in L
  <2> SUFFICES ASSUME NEW i \in a .. z, a < i, i \in L
               PROVE  i - 1 \in L
    OBVIOUS
  <2>1. i - 1 \in 1 .. Len(c) /\ i - 1 \in a .. z - 1 /\ (i - 1) + 1 = i
    BY <1>0
  <2>2. QED
    BY <1>1, <2>1
<1>4. a \in Int /\ z \in Int /\ a \in a .. z
  BY <1>0
<1>5. \A i \in a .. z : i \in L
  BY <1>2, <1>3, <1>4, Descend
<1>6. QED
  BY <1>4, <1>5 DEF L

\* A name is live at the start if its first reference is a Use.
LEMMA LiveAtStart ==
  ASSUME NEW c, Structured(c), NEW atEnd, IsFiniteSet(atEnd), NEW n \in NamesOf(c)
  PROVE  1 \in LivePlaces(c, n, atEnd) <=> FirstOf(c, n).type = "Use"
<1> DEFINE L == LivePlaces(c, n, atEnd)
           f == FirstOf(c, n)
           p == At(c, 0, f)
<1>0. Len(c) \in Nat \ {0} /\ \A i \in 1 .. Len(c) : NodeOK(c, i)
  BY StructuredParts
<1>1. /\ f \in References(c, n)
      /\ \A g \in References(c, n) : g = f \/ Earlier(c, 0, f, g)
  BY NamesIs, FirstExists DEF IsFirst
<1>2. \A g \in References(c, n) :
        /\ At(c, 0, g) \in 1 .. Len(c) /\ Rank(c, g) \in Nat
        /\ g.type = "Use" => Rank(c, g) < Len(c)
        /\ g.type = "Def" => Len(c) < Rank(c, g)
        /\ g.type \in {"Use", "Def"}
  <2> SUFFICES ASSUME NEW g \in References(c, n)
               PROVE  /\ At(c, 0, g) \in 1 .. Len(c) /\ Rank(c, g) \in Nat
                      /\ g.type = "Use" => Rank(c, g) < Len(c)
                      /\ g.type = "Def" => Len(c) < Rank(c, g)
                      /\ g.type \in {"Use", "Def"}
    OBVIOUS
  <2>1. g \in AllReferences(c)
    BY ReferencesOf
  <2>2. /\ g.par \in Occurrences(c)
        /\ g.type = IF g.par[2] = 0 THEN "Use" ELSE "Def"
        /\ Rank(c, g) = IF g.par[2] = 0 THEN Len(c) - g.par[1] ELSE Len(c) + g.par[2]
        /\ At(c, 0, g) \in 1 .. Len(c) /\ Rank(c, g) \in Nat
    BY <2>1, ReferenceFacts
  <2>3. g.par[1] \in 1 .. Len(c) /\ g.par[2] \in Nat
    BY <2>2, OccurrenceFacts
  <2>4. QED
    BY <1>0, <2>2, <2>3
<1>3. p \in 1 .. Len(c)
  BY <1>1, <1>2
<1>4. \A g \in References(c, n) : p <= At(c, 0, g)
  <2> SUFFICES ASSUME NEW g \in References(c, n)
               PROVE  p <= At(c, 0, g)
    OBVIOUS
  <2>1. g = f \/ p < At(c, 0, g) \/ p = At(c, 0, g)
    BY <1>1 DEF Earlier
  <2>2. At(c, 0, g) \in 1 .. Len(c)
    BY <1>2
  <2> HIDE DEF p
  <2>3. CASE g = f
    BY <1>3, <2>3 DEF p
  <2>4. QED
    BY <1>0, <1>3, <2>1, <2>2, <2>3
<1>5. \A i \in 1 .. p - 1 : ~UsedAt(c, n, i) /\ n \notin DefsAt(c, i)
  <2> SUFFICES ASSUME NEW i \in 1 .. p - 1
               PROVE  ~UsedAt(c, n, i) /\ n \notin DefsAt(c, i)
    OBVIOUS
  <2> HIDE DEF p
  <2>1. i \in 1 .. Len(c) /\ ~(p <= i)
    BY <1>0, <1>3
  <2>2. \A g \in References(c, n) : At(c, 0, g) # i
    BY <1>4, <2>1
  <2>3. QED
    BY <2>1, <2>2, UsedIs, DefinedIs
<1>6. ASSUME f.type = "Use"
      PROVE  1 \in L
  <2>1. UsedAt(c, n, p)
    BY <1>1, <1>6, UsedIs
  <2>2. p \in L
    BY <1>3, <2>1, LivePlacesFacts
  <2> HIDE DEF p
  <2>3. 1 \in 1 .. Len(c) + 1 /\ p \in 1 .. Len(c) + 1
    BY <1>0, <1>3
  <2>4. QED
    BY <1>5, <2>2, <2>3, LiveDown
<1>7. ASSUME f.type # "Use"
      PROVE  1 \notin L
  <2>1. f.type = "Def"
    BY <1>1, <1>2, <1>7
  <2>2. n \in DefsAt(c, p)
    BY <1>1, <1>3, <2>1, DefinedIs
  <2>3. ~UsedAt(c, n, p)
    <3> SUFFICES ASSUME NEW g \in References(c, n), g.type = "Use", At(c, 0, g) = p
                 PROVE  FALSE
      BY UsedIs
    <3>1. g # f
      BY <2>1
    <3>2. Rank(c, f) < Rank(c, g) \/ p < At(c, 0, g)
      BY <1>1, <3>1 DEF Earlier
    <3>3. Rank(c, f) < Rank(c, g)
      <4>1. ~(p < p)
        <5> HIDE DEF p
        <5>1. QED
          BY <1>3
      <4>2. QED
        BY <3>2, <4>1
    <3>4. Rank(c, g) < Len(c) /\ Len(c) < Rank(c, f) /\ Rank(c, g) \in Nat /\ Rank(c, f) \in Nat
      BY <1>1, <1>2, <2>1
    <3>5. QED
      BY <1>0, <3>3, <3>4
  <2>4. p \notin L
    BY <1>3, <2>2, <2>3, LivePlacesFacts
  <2> HIDE DEF L, p
  <2>5. CASE p = 1
    BY <2>4, <2>5
  <2>6. CASE p # 1
    <3> SUFFICES ASSUME 1 \in L
                 PROVE  FALSE
      OBVIOUS
    <3> DEFINE z == p - 1
    <3>1. 1 \in 1 .. Len(c) /\ z \in 1 .. Len(c) /\ 1 \in 1 .. z /\ z + 1 = p
      BY <1>0, <1>3, <2>6
    <3>2. \A i \in 1 .. z : LoopEnd(c, i) => 1 <= c[i].blk
      <4> SUFFICES ASSUME NEW i \in 1 .. z, LoopEnd(c, i)
                   PROVE  1 <= c[i].blk
        OBVIOUS
      <4>1. i \in 1 .. Len(c)
        BY <1>0, <3>1
      <4>2. c[i].blk \in 1 .. i - 1
        BY <1>0, <4>1 DEF LoopEnd, NodeOK
      <4>3. QED
        BY <4>1, <4>2
    <3>3. \A i \in 1 .. z : ~UsedAt(c, n, i)
      BY <1>5
    <3> HIDE DEF z
    <3>4. z + 1 \in L
      BY <3>1, <3>2, <3>3, LiveGap DEF L
    <3>5. QED
      BY <2>4, <3>1, <3>4
  <2>7. QED
    BY <2>5, <2>6
<1>8. QED
  BY <1>6, <1>7

-------------------------------------------------------------------------------
(* Inputs *)

\* The references in a chain, with the dummies told apart.
LEMMA ReferencesIn ==
  ASSUME NEW c, Structured(c), NEW n, NEW pre, NEW U, U \subseteq {UseEvent(Dummy)}, NEW e,
         e \in ChainEvents(c, n, pre, Len(c) + 1, U)
  PROVE  /\ IsReference(e) /\ e.par # Dummy <=> e \in References(c, n)
         /\ IsReference(e) /\ e.par = Dummy =>
              (pre /\ e = DefEvent(Dummy)) \/ (e \in U /\ e = UseEvent(Dummy))
<1>1. ASSUME NEW g \in References(c, n)
      PROVE  IsReference(g) /\ g.par # Dummy
  <2>1. g \in AllReferences(c)
    BY ReferencesOf
  <2>2. g.par \in Occurrences(c) /\ g.type = IF g.par[2] = 0 THEN "Use" ELSE "Def"
    BY <2>1, ReferenceFacts
  <2>3. g.par # Dummy
    BY <2>2, OccurrenceFacts
  <2>4. QED
    BY <2>2, <2>3 DEF IsReference
<1>2. \A b \in Blocks(c) : ~IsReference(EnterOf(c, b)) /\ ~IsReference(JumpOf(c, b))
  BY BlockEventIs
<1>3. /\ IsReference(DefEvent(Dummy)) /\ DefEvent(Dummy).par = Dummy
      /\ IsReference(UseEvent(Dummy)) /\ UseEvent(Dummy).par = Dummy
  BY DummyFacts DEF IsReference
<1>4. \/ e \in References(c, n)
      \/ \E b \in Blocks(c) : e = EnterOf(c, b) \/ e = JumpOf(c, b)
      \/ pre /\ e = DefEvent(Dummy)
      \/ e \in U /\ e = UseEvent(Dummy)
  BY DEF ChainEvents, Seen, EntersSeen, JumpsSeen, Prefixed
<1>5. QED
  BY <1>1, <1>2, <1>3, <1>4

\* The first reference in a chain.
LEMMA FirstIndex ==
  ASSUME NEW c, Structured(c), NEW n \in NamesOf(c), NEW pre, NEW s,
         Lists(c, Opening(c, n), s, ChainEvents(c, n, pre, Len(c) + 1, {}))
  PROVE  /\ DOMAIN s = 1 .. Len(s) /\ Len(s) \in Nat
         /\ \A x \in DOMAIN s : s[x] \in ChainEvents(c, n, pre, Len(c) + 1, {})
         /\ FirstOf(c, n) \in References(c, n)
         /\ \E i \in DOMAIN s :
              /\ s[i] = FirstOf(c, n)
              /\ \A x \in DOMAIN s : s[x] \in References(c, n) => i <= x
<1> DEFINE E == ChainEvents(c, n, pre, Len(c) + 1, {})
           d == Opening(c, n)
           f == FirstOf(c, n)
<1>0. Len(c) \in Nat /\ d \in Int
  BY StructuredParts, OpeningFacts
<1>1. E = Seen(c, n, pre, Len(c) + 1, RefsTo(c, Len(c) + 1))
  BY DEF ChainEvents
<1>2. Placed(c, d, E)
  BY <1>0, <1>1, SeenPlaced
<1>3. /\ f \in References(c, n)
      /\ \A g \in References(c, n) : g = f \/ Earlier(c, 0, f, g)
  BY NamesIs, FirstExists DEF IsFirst
<1>4. f \in E
  BY <1>1, <1>3, AtTheEnd DEF Seen
<1>5. \A g \in References(c, n) : g = f \/ Earlier(c, d, f, g)
  BY <1>3, ReferencesOf, EarlierReferences
<1>6. Lists(c, d, s, E)
  OBVIOUS
<1> HIDE DEF E, d
<1>7. /\ Len(s) \in Nat /\ \A x \in 1 .. Len(s) : s[x] \in E
      /\ \A x, y \in 1 .. Len(s) : x < y <=> Earlier(c, d, s[x], s[y])
      /\ \A x, y \in 1 .. Len(s) : s[x] = s[y] => x = y
  BY <1>2, <1>6, ListsIndex
<1>8. DOMAIN s = 1 .. Len(s) /\ \A e \in E : \E x \in 1 .. Len(s) : s[x] = e
  BY <1>6, LenProperties DEF Lists
<1>9. PICK i \in 1 .. Len(s) : s[i] = f
  BY <1>4, <1>8
<1>10. \A x \in 1 .. Len(s) : s[x] \in References(c, n) => i <= x
  <2> SUFFICES ASSUME NEW x \in 1 .. Len(s), s[x] \in References(c, n)
               PROVE  i = x \/ i < x
    BY <1>7
  <2>1. s[x] = f \/ Earlier(c, d, f, s[x])
    BY <1>5
  <2>2. QED
    BY <1>7, <1>9, <2>1
<1>11. QED
  BY <1>3, <1>7, <1>8, <1>9, <1>10 DEF E

\* A name is an input if its first reference is a Use.
LEMMA InputSetIs ==
  ASSUME NEW c, Structured(c), NEW pre, NEW r, RecordedAll(c, pre, {}, r)
  PROVE  InputSet(r) = {n \in NamesOf(c) : FirstOf(c, n).type = "Use"}
<1>1. \A n : n \in DOMAIN r.chain <=> n \in NamesOf(c)
  BY NamesIs DEF RecordedAll
<1>2. ASSUME NEW n \in DOMAIN r.chain
      PROVE  r.chain[n][FirstReference(r.chain[n])].type = FirstOf(c, n).type
  <2> DEFINE s == r.chain[n]
             E == ChainEvents(c, n, pre, Len(c) + 1, {})
  <2>1. Lists(c, Opening(c, n), s, E) /\ n \in NamesOf(c)
    BY <1>1, <1>2 DEF RecordedAll
  <2>2. /\ DOMAIN s = 1 .. Len(s) /\ Len(s) \in Nat
        /\ \A x \in DOMAIN s : s[x] \in E
        /\ FirstOf(c, n) \in References(c, n)
        /\ \E i \in DOMAIN s :
             /\ s[i] = FirstOf(c, n)
             /\ \A x \in DOMAIN s : s[x] \in References(c, n) => i <= x
    <3> HIDE DEF s
    <3>1. QED
      BY <2>1, FirstIndex
  <2>3. PICK i \in DOMAIN s :
             /\ s[i] = FirstOf(c, n)
             /\ \A x \in DOMAIN s : s[x] \in References(c, n) => i <= x
    BY <2>2
  <2> HIDE DEF s
  <2>4. \A x \in DOMAIN s : x \in RealReferences(s) <=> s[x] \in References(c, n)
    BY <2>2, ReferencesIn DEF RealReferences
  <2>5. /\ i \in RealReferences(s) /\ \A x \in RealReferences(s) : i <= x
        /\ RealReferences(s) \subseteq Nat
    BY <2>2, <2>3, <2>4 DEF RealReferences
  <2>6. \A x \in RealReferences(s) : (\A y \in RealReferences(s) : x <= y) => x = i
    <3> SUFFICES ASSUME NEW x \in RealReferences(s), \A y \in RealReferences(s) : x <= y
                 PROVE  x = i
      OBVIOUS
    <3>1. x <= i /\ i <= x /\ x \in Nat /\ i \in Nat
      BY <2>5
    <3>2. QED
      BY <3>1
  <2>7. FirstReference(s) = i
    BY <2>5, <2>6 DEF FirstReference
  <2>8. QED
    BY <2>3, <2>7 DEF s
<1>3. QED
  BY <1>1, <1>2 DEF InputSet

\* calc::ioTypes finds the names whose first reference is a Use.
LEMMA IoTypesIs ==
  ASSUME NEW c, Structured(c), NEW r, RecordedAll(c, FALSE, {}, r)
  PROVE  {n \in DOMAIN r.chain : IoType(r, n).input # "None"}
           = {n \in NamesOf(c) : FirstOf(c, n).type = "Use"}
<1>1. \A n : n \in DOMAIN r.chain <=> n \in NamesOf(c)
  BY NamesIs DEF RecordedAll
<1>2. ASSUME NEW n \in DOMAIN r.chain
      PROVE  IoType(r, n).input # "None" <=> FirstOf(c, n).type = "Use"
  <2> DEFINE s == r.chain[n]
             E == ChainEvents(c, n, FALSE, Len(c) + 1, {})
             useFirst == \E u \in {i \in DOMAIN s : s[i].type = "Use"} :
                           \A d \in {i \in DOMAIN s : s[i].type = "Def"} : u < d
  <2>1. Lists(c, Opening(c, n), s, E) /\ n \in NamesOf(c)
    BY <1>1, <1>2 DEF RecordedAll
  <2>2. IoType(r, n).input # "None" <=> useFirst
    BY DEF IoType
  <2>3. /\ DOMAIN s = 1 .. Len(s) /\ Len(s) \in Nat
        /\ \A x \in DOMAIN s : s[x] \in E
        /\ FirstOf(c, n) \in References(c, n)
        /\ \E i \in DOMAIN s :
             /\ s[i] = FirstOf(c, n)
             /\ \A x \in DOMAIN s : s[x] \in References(c, n) => i <= x
    <3> HIDE DEF s
    <3>1. QED
      BY <2>1, FirstIndex
  <2>4. PICK i \in DOMAIN s :
             /\ s[i] = FirstOf(c, n)
             /\ \A x \in DOMAIN s : s[x] \in References(c, n) => i <= x
    BY <2>3
  <2> HIDE DEF s
  <2>5. \A x \in DOMAIN s : s[x].type \in {"Use", "Def"} <=> s[x] \in References(c, n)
    <3> SUFFICES ASSUME NEW x \in DOMAIN s
                 PROVE  IsReference(s[x]) <=> s[x] \in References(c, n)
      BY DEF IsReference
    <3> DEFINE U == {}
               pre == FALSE
               e == s[x]
    <3>1. e \in ChainEvents(c, n, pre, Len(c) + 1, U)
      BY <2>3
    <3>2. U \subseteq {UseEvent(Dummy)} /\ ~pre /\ e \notin U
      OBVIOUS
    <3> HIDE DEF U, pre, e
    <3>3. /\ IsReference(e) /\ e.par # Dummy <=> e \in References(c, n)
          /\ ~(IsReference(e) /\ e.par = Dummy)
      BY <3>1, <3>2, ReferencesIn
    <3>4. QED
      BY <3>3 DEF e
  <2>6. i \in Nat /\ \A x \in DOMAIN s : x \in Nat
    BY <2>3
  <2>7. FirstOf(c, n).type \in {"Use", "Def"}
    BY <2>3, <2>4, <2>5
  <2>8. ASSUME FirstOf(c, n).type = "Use"
        PROVE  useFirst
    <3>1. ASSUME NEW d \in DOMAIN s, s[d].type = "Def"
          PROVE  i < d
      <4>1. i <= d /\ i # d
        BY <2>4, <2>5, <2>8, <3>1
      <4>2. QED
        BY <2>6, <4>1
    <3>2. QED
      BY <2>4, <2>8, <3>1
  <2>9. ASSUME useFirst, FirstOf(c, n).type = "Def"
        PROVE  FALSE
    <3>1. PICK u \in DOMAIN s : s[u].type = "Use" /\ u < i
      BY <2>4, <2>9
    <3>2. i <= u
      BY <2>4, <2>5, <3>1
    <3>3. QED
      BY <2>6, <3>1, <3>2
  <2>10. QED
    BY <2>2, <2>7, <2>8, <2>9
<1>3. QED
  BY <1>1, <1>2

\* The names live at the start are those whose first reference is a Use.
LEMMA NeededAtStartIs ==
  ASSUME NEW c, Structured(c)
  PROVE  NeededAtStart(c) = {n \in NamesOf(c) : FirstOf(c, n).type = "Use"}
<1>1. ASSUME NEW n \in NamesOf(c)
      PROVE  <<1, n>> \in Live(c, Consumers(c), {}) <=> FirstOf(c, n).type = "Use"
  <2>1. IsFiniteSet({})
    BY FS_EmptySet
  <2>2. 1 \in LivePlaces(c, n, {}) <=> FirstOf(c, n).type = "Use"
    BY <2>1, LiveAtStart
  <2>3. Len(c) \in Nat \ {0}
    BY StructuredParts
  <2>4. 1 \in 1 .. Len(c) + 1 /\ PlaceOf(c, 1) = 1
    BY <2>3 DEF PlaceOf
  <2>5. QED
    BY <2>2, <2>4 DEF LivePlaces
<1>2. QED
  BY <1>1 DEF NeededAtStart

\* The inputs follow from chains that are right.
LEMMA RecordingFindsInputs ==
  ASSUME Recording
  PROVE  InputsExact
<1> SUFFICES ASSUME phase = "visit", cur = 0
             PROVE  NeededAtStart(code) =
                      IF prefix THEN InputSet(rec)
                      ELSE {n \in DOMAIN rec.chain : IoType(rec, n).input # "None"}
  BY DEF InputsExact
<1>1. Structured(code) /\ prefix \in BOOLEAN
  BY CodesAssumption DEF Recording
<1>2. Visited(code, prefix, rec, Len(code) + 1)
  BY DEF Recording, Position
<1>3. RecordedAll(code, prefix, {}, rec)
  BY <1>1, <1>2, VisitedAll
<1>4. CASE prefix
  BY <1>1, <1>3, <1>4, InputSetIs, NeededAtStartIs
<1>5. CASE ~prefix
  <2>1. RecordedAll(code, FALSE, {}, rec)
    BY <1>1, <1>3, <1>5
  <2>2. {n \in DOMAIN rec.chain : IoType(rec, n).input # "None"}
          = {n \in NamesOf(code) : FirstOf(code, n).type = "Use"}
    BY <1>1, <2>1, IoTypesIs
  <2>3. NeededAtStart(code) = {n \in NamesOf(code) : FirstOf(code, n).type = "Use"}
    BY <1>1, NeededAtStartIs
  <2>4. QED
    BY <1>5, <2>2, <2>3
<1>6. QED
  BY <1>4, <1>5

\* calc::inputSet and calc::ioTypes find exactly the names whose initial value is used.
THEOREM InputsCorrect == Spec => []InputsExact
<1>1. Recording => InputsExact
  BY RecordingFindsInputs
<1>2. QED
  BY <1>1, RecordingCorrect, PTL

-------------------------------------------------------------------------------
(* One pass over a chain *)

\* The value for an event follows from that for the next one.
LEMMA BeforeNext ==
  ASSUME NEW chain, Len(chain) \in Nat, NEW k
  PROVE  LET f == BeforeOf(chain, k)
             n == Len(chain)
         IN /\ f = [i \in 1 .. n + 1 |-> f[i]]
            /\ f[n + 1] = FALSE
            /\ \A i \in 1 .. n : f[i] = Merged(chain[i], k[i], f[i + 1])
<1> DEFINE n == Len(chain)
           F(f, m) == [i \in m .. n + 1 |->
                         IF i = n + 1 THEN FALSE ELSE Merged(chain[i], k[i], f[i + 1])]
           T == {m \in 1 .. n + 1 : \E f : f = F(f, m)}
<1>0. n \in Nat
  OBVIOUS
<1> HIDE DEF n
<1>1. n + 1 \in T
  <2> DEFINE f == [i \in n + 1 .. n + 1 |-> FALSE]
  <2>1. \A i \in n + 1 .. n + 1 : i = n + 1
    BY <1>0
  <2>2. f = F(f, n + 1)
    BY <2>1
  <2>3. n + 1 \in 1 .. n + 1
    BY <1>0
  <2> HIDE DEF f, F
  <2>4. QED
    BY <2>2, <2>3
<1>2. ASSUME NEW i \in 1 .. n + 1, 1 < i, i \in T
      PROVE  i - 1 \in T
  <2>1. PICK f : f = F(f, i)
    BY <1>2
  <2> DEFINE g == [x \in i - 1 .. n + 1 |->
                     IF x = n + 1 THEN FALSE ELSE Merged(chain[x], k[x], f[x + 1])]
  <2>2. \A x \in i .. n + 1 : f[x] = IF x = n + 1 THEN FALSE ELSE Merged(chain[x], k[x], f[x + 1])
    BY <2>1
  <2>3. \A x \in i .. n + 1 : x \in i - 1 .. n + 1
    BY <1>0
  <2>4. \A x \in i .. n + 1 : g[x] = f[x]
    BY <2>2, <2>3
  <2>5. \A x \in i - 1 .. n + 1 : x = n + 1 \/ x + 1 \in i .. n + 1
    BY <1>0
  <2>6. g = F(g, i - 1)
    <3>1. \A x \in i - 1 .. n + 1 : x = n + 1 \/ f[x + 1] = g[x + 1]
      BY <2>4, <2>5
    <3> DEFINE h == [x \in i - 1 .. n + 1 |->
                       IF x = n + 1 THEN FALSE ELSE Merged(chain[x], k[x], g[x + 1])]
    <3>2. \A x \in i - 1 .. n + 1 : g[x] = h[x]
      <4> SUFFICES ASSUME NEW x \in i - 1 .. n + 1
                   PROVE  g[x] = h[x]
        OBVIOUS
      <4>1. CASE x = n + 1
        BY <4>1
      <4>2. CASE x # n + 1
        <5>1. f[x + 1] = g[x + 1]
          BY <3>1, <4>2
        <5>2. g[x] = Merged(chain[x], k[x], f[x + 1])
          BY <4>2
        <5> HIDE DEF g
        <5>3. h[x] = Merged(chain[x], k[x], g[x + 1])
          BY <4>2
        <5>4. QED
          BY <5>1, <5>2, <5>3
      <4>3. QED
        BY <4>1, <4>2
    <3>3. g = [x \in i - 1 .. n + 1 |-> g[x]]
      OBVIOUS
    <3> HIDE DEF g
    <3>4. h = [x \in i - 1 .. n + 1 |-> h[x]]
      OBVIOUS
    <3> HIDE DEF h
    <3>5. g = h
      BY <3>2, <3>3, <3>4
    <3>6. QED
      BY <3>5 DEF h
  <2>7. i - 1 \in 1 .. n + 1
    BY <1>0, <1>2
  <2> HIDE DEF g, F
  <2>8. QED
    BY <2>6, <2>7
<1>3. \A i \in 1 .. n + 1 : i \in T
  <2>1. 1 \in Int /\ n + 1 \in Int
    BY <1>0
  <2> HIDE DEF T
  <2>2. QED
    BY <1>1, <1>2, <2>1, Descend
<1>4. \E f : f = F(f, 1)
  <2>1. 1 \in 1 .. n + 1
    BY <1>0
  <2>2. QED
    BY <1>3, <2>1
<1> DEFINE g == BeforeOf(chain, k)
<1>5. g = F(g, 1)
  BY <1>4 DEF BeforeOf, n
<1> HIDE DEF g
<1>6. g = [i \in 1 .. n + 1 |->
             IF i = n + 1 THEN FALSE ELSE Merged(chain[i], k[i], g[i + 1])]
  BY <1>5
<1>7. n + 1 \in 1 .. n + 1 /\ \A i \in 1 .. n : i \in 1 .. n + 1 /\ i # n + 1
  BY <1>0
<1>8. g = [i \in 1 .. n + 1 |-> g[i]]
  BY <1>6
<1>9. g[n + 1] = FALSE
  BY <1>6, <1>7
<1>10. \A i \in 1 .. n : g[i] = Merged(chain[i], k[i], g[i + 1])
  BY <1>6, <1>7
<1>11. QED
  BY <1>8, <1>9, <1>10 DEF g, n

\* They are Booleans, and follow from the value of the next event.
LEMMA BeforeSteps ==
  ASSUME NEW chain, Len(chain) \in Nat, NEW k \in [1 .. Len(chain) -> BOOLEAN]
  PROVE  LET f == BeforeOf(chain, k) IN
         /\ f \in [1 .. Len(chain) + 1 -> BOOLEAN]
         /\ ~f[Len(chain) + 1]
         /\ \A i \in 1 .. Len(chain) :
              /\ chain[i].type = "Use" => f[i]
              /\ chain[i].type = "Def" => ~f[i]
              /\ chain[i].type \notin {"Use", "Def"} => (f[i] <=> k[i] \/ f[i + 1])
<1> DEFINE n == Len(chain)
           f == BeforeOf(chain, k)
<1>0. n \in Nat
  OBVIOUS
<1>1. /\ f = [i \in 1 .. n + 1 |-> f[i]]
      /\ f[n + 1] = FALSE
      /\ \A i \in 1 .. n : f[i] = Merged(chain[i], k[i], f[i + 1])
  BY BeforeNext
<1> HIDE DEF n, f
<1>2. f[n + 1] = FALSE
  BY <1>1
<1>3. \A i \in 1 .. n : i \in 1 .. n + 1 /\ i # n + 1 /\ i + 1 \in 1 .. n + 1
  BY <1>0
<1>4. \A i \in 1 .. n : f[i] = Merged(chain[i], k[i], f[i + 1])
  BY <1>1
<1>5. \A i \in 1 .. n : k[i] \in BOOLEAN
  BY DEF n
<1>6. \A i \in 1 .. n + 1 : f[i] \in BOOLEAN
  <2> DEFINE T == {i \in 1 .. n + 1 : f[i] \in BOOLEAN}
  <2>1. n + 1 \in T
    <3>1. n + 1 \in 1 .. n + 1
      BY <1>0
    <3>2. f[n + 1] \in BOOLEAN
      BY <1>2
    <3>3. QED
      BY <3>1, <3>2
  <2>2. ASSUME NEW i \in 1 .. n + 1, 1 < i, i \in T
        PROVE  i - 1 \in T
    <3>1. i - 1 \in 1 .. n /\ i - 1 \in 1 .. n + 1 /\ (i - 1) + 1 = i
      BY <1>0, <2>2
    <3>2. f[i - 1] = Merged(chain[i - 1], k[i - 1], f[i])
      BY <1>4, <3>1
    <3>3. f[i - 1] \in BOOLEAN
      BY <1>5, <2>2, <3>1, <3>2 DEF Merged
    <3>4. QED
      BY <3>1, <3>3
  <2>3. 1 \in Int /\ n + 1 \in Int
    BY <1>0
  <2> HIDE DEF T
  <2>4. \A i \in 1 .. n + 1 : i \in T
    BY <2>1, <2>2, <2>3, Descend
  <2>5. QED
    BY <2>4 DEF T
<1>7. f \in [1 .. n + 1 -> BOOLEAN]
  BY <1>1, <1>6
<1>8. ~f[n + 1]
  BY <1>2
<1>9. ASSUME NEW i \in 1 .. n
      PROVE  /\ chain[i].type = "Use" => f[i]
             /\ chain[i].type = "Def" => ~f[i]
             /\ chain[i].type \notin {"Use", "Def"} => (f[i] <=> k[i] \/ f[i + 1])
  <2>1. CASE chain[i].type = "Use"
    <3>1. f[i] = TRUE
      BY <1>4, <2>1 DEF Merged
    <3>2. QED
      BY <2>1, <3>1
  <2>2. CASE chain[i].type = "Def"
    <3>1. f[i] = FALSE
      BY <1>4, <2>2 DEF Merged
    <3>2. QED
      BY <2>2, <3>1
  <2>3. CASE chain[i].type \notin {"Use", "Def"}
    <3>1. f[i] = (k[i] \/ f[i + 1])
      BY <1>4, <2>3 DEF Merged
    <3>2. f[i] <=> k[i] \/ f[i + 1]
      BY <3>1
    <3>3. QED
      BY <2>3, <3>2
  <2>4. QED
    BY <2>1, <2>2, <2>3
<1>10. QED
  BY <1>7, <1>8, <1>9 DEF n, f

\* The marks after a pass: an event is kept if it was, if the value is live at the
\* next event, or if it is the last of a loop whose Enter is kept.
LEMMA PassIs ==
  ASSUME NEW chain, Len(chain) \in Nat, NEW k \in [1 .. Len(chain) -> BOOLEAN]
  PROVE  LET f == BeforeOf(chain, k)
             p == KeepLivePass(chain, k)
         IN /\ p \in [1 .. Len(chain) -> BOOLEAN]
            /\ \A i \in 1 .. Len(chain) :
                 p[i] <=> \/ k[i] \/ f[i + 1]
                          \/ \E e \in 1 .. Len(chain) :
                               /\ chain[e].type = "Enter" /\ chain[e].back
                               /\ k[e] \/ f[e + 1]
                               /\ i = JumpOfEnter(chain, e) - 1
<1> DEFINE n == Len(chain)
           f == BeforeOf(chain, k)
           kept == [i \in 1 .. n |-> k[i] \/ f[i + 1]]
           looped == {JumpOfEnter(chain, i) - 1 : i \in
                        {j \in 1 .. n : chain[j].type = "Enter" /\ chain[j].back /\ kept[j]}}
<1>1. KeepLivePass(chain, k) = [i \in 1 .. n |-> kept[i] \/ i \in looped]
  BY DEF KeepLivePass, BeforeOf, Merged
<1> HIDE DEF f
<1>2. \A i \in 1 .. n : kept[i] <=> k[i] \/ f[i + 1]
  OBVIOUS
<1>3. \A i : i \in looped <=>
        \E e \in 1 .. n : /\ chain[e].type = "Enter" /\ chain[e].back
                          /\ kept[e] /\ i = JumpOfEnter(chain, e) - 1
  OBVIOUS
<1> HIDE DEF kept, looped
<1>4. KeepLivePass(chain, k) \in [1 .. n -> BOOLEAN]
  BY <1>1
<1>5. \A i \in 1 .. n : KeepLivePass(chain, k)[i] <=> kept[i] \/ i \in looped
  BY <1>1
<1>6. \A i \in 1 .. n : i \in looped <=>
        \E e \in 1 .. n : /\ chain[e].type = "Enter" /\ chain[e].back
                          /\ k[e] \/ f[e + 1]
                          /\ i = JumpOfEnter(chain, e) - 1
  BY <1>2, <1>3
<1>7. QED
  BY <1>2, <1>4, <1>5, <1>6 DEF f

-------------------------------------------------------------------------------
(* The chain of a name when everything is recorded *)

\* What is in the chain, in its order.
LEMMA EndEventsAre ==
  ASSUME NEW c, Structured(c), NEW n, NEW atEnd, NEW e
  PROVE  e \in EndEvents(c, n, atEnd) <=>
           \/ e \in References(c, n)
           \/ \E b \in Blocks(c) : Referred(c, n, b) /\ (e = EnterOf(c, b) \/ e = JumpOf(c, b))
           \/ Opening(c, n) # 0 /\ e = DefEvent(Dummy)
           \/ n \in atEnd /\ e = UseEvent(Dummy)
<1> DEFINE j == Len(c) + 1
<1>0. Len(c) \in Nat
  BY StructuredParts
<1>1. \A b \in Blocks(c) : b < j /\ Closing(c, b) < j /\ ~(j <= Closing(c, b))
  <2>1. \A b \in Blocks(c) : b \in 1 .. Len(c) /\ Closing(c, b) \in b + 1 .. Len(c)
    BY ClosingFacts
  <2>2. QED
    BY <1>0, <2>1
<1>2. e \in References(c, n) => e \in RefsTo(c, j)
  BY AtTheEnd
<1> HIDE DEF j
<1>3. e \in EntersSeen(c, n, j) <=> \E b \in Blocks(c) : Referred(c, n, b) /\ e = EnterOf(c, b)
  BY <1>1 DEF EntersSeen
<1>4. e \in JumpsSeen(c, n, j) <=> \E b \in Blocks(c) : Referred(c, n, b) /\ e = JumpOf(c, b)
  BY <1>1 DEF JumpsSeen
<1>5. e \in Prefixed(c, n, TRUE) <=> Opening(c, n) # 0 /\ e = DefEvent(Dummy)
  BY DEF Prefixed
<1>6. e \in EndUses(n \in atEnd) <=> n \in atEnd /\ e = UseEvent(Dummy)
  BY DEF EndUses
<1>7. e \in EndEvents(c, n, atEnd) <=>
         \/ e \in References(c, n) /\ e \in RefsTo(c, j)
         \/ e \in EntersSeen(c, n, j) \/ e \in JumpsSeen(c, n, j)
         \/ e \in Prefixed(c, n, TRUE) \/ e \in EndUses(n \in atEnd)
  BY DEF EndEvents, ChainEvents, Seen, j
<1>8. QED
  BY <1>2, <1>3, <1>4, <1>5, <1>6, <1>7

\* All of its events have a place.
LEMMA EndPlaced ==
  ASSUME NEW c, Structured(c), NEW n, NEW atEnd
  PROVE  Placed(c, Opening(c, n), EndEvents(c, n, atEnd))
<1> DEFINE d == Opening(c, n)
           j == Len(c) + 1
<1>1. Len(c) \in Nat /\ d \in Int
  BY StructuredParts, OpeningFacts
<1>2. Placed(c, d, Seen(c, n, TRUE, j, RefsTo(c, j)))
  BY <1>1, SeenPlaced
<1>3. \A e \in EndUses(n \in atEnd) : e = UseEvent(Dummy)
  BY DEF EndUses
<1>4. At(c, d, UseEvent(Dummy)) \in Int /\ Rank(c, UseEvent(Dummy)) \in Int
  BY <1>1, DummyFacts
<1> HIDE DEF d
<1>5. \A e \in EndEvents(c, n, atEnd) :
        e \in Seen(c, n, TRUE, j, RefsTo(c, j)) \/ e \in EndUses(n \in atEnd)
  BY DEF EndEvents, ChainEvents
<1>6. QED
  BY <1>2, <1>3, <1>4, <1>5 DEF Placed, d

\* It lists the events once each and in their order.
LEMMA EndChainFacts ==
  ASSUME NEW c, Structured(c), NEW n, NEW atEnd, NEW s, EndChain(c, n, atEnd, s)
  PROVE  /\ Len(s) \in Nat /\ DOMAIN s = 1 .. Len(s)
         /\ \A x \in 1 .. Len(s) : s[x] \in EndEvents(c, n, atEnd)
         /\ \A e \in EndEvents(c, n, atEnd) : \E x \in 1 .. Len(s) : s[x] = e
         /\ \A x, y \in 1 .. Len(s) : x < y <=> Earlier(c, Opening(c, n), s[x], s[y])
         /\ \A x, y \in 1 .. Len(s) : s[x] = s[y] => x = y
<1> DEFINE E == EndEvents(c, n, atEnd)
           d == Opening(c, n)
<1>1. Lists(c, d, s, E) /\ Placed(c, d, E)
  BY EndPlaced DEF EndChain
<1> HIDE DEF E, d
<1>2. DOMAIN s = 1 .. Len(s) /\ \A e \in E : \E x \in 1 .. Len(s) : s[x] = e
  BY <1>1, LenProperties DEF Lists
<1>3. /\ Len(s) \in Nat /\ \A x \in 1 .. Len(s) : s[x] \in E
      /\ \A x, y \in 1 .. Len(s) : x < y <=> Earlier(c, d, s[x], s[y])
      /\ \A x, y \in 1 .. Len(s) : s[x] = s[y] => x = y
  BY <1>1, ListsIndex
<1>4. QED
  BY <1>2, <1>3 DEF E, d

\* The opening of a name that has one is a loop around its first reference.
LEMMA OpeningIs ==
  ASSUME NEW c, Structured(c), NEW n \in NamesOf(c), Opening(c, n) # 0
  PROVE  LET d == Opening(c, n)
             f == FirstOf(c, n)
         IN /\ d \in Blocks(c) /\ HasBackBranch(c[d].kind) /\ Referred(c, n, d)
            /\ f \in References(c, n) /\ f.type = "Use"
            /\ d < At(c, 0, f) /\ At(c, 0, f) < Closing(c, d)
            /\ \A g \in References(c, n) : At(c, 0, f) <= At(c, 0, g)
            /\ \A b \in Blocks(c) :
                 HasBackBranch(c[b].kind) /\ Referred(c, n, b) => d <= b
<1> DEFINE d == Opening(c, n)
           f == FirstOf(c, n)
           p == At(c, 0, f)
<1>0. Len(c) \in Nat
  BY StructuredParts
<1>1. f \in References(c, n) /\ \A g \in References(c, n) : g = f \/ Earlier(c, 0, f, g)
  BY NamesIs, FirstExists DEF IsFirst
<1>2. \A g \in References(c, n) : At(c, 0, g) \in 1 .. Len(c)
  BY ReferencesOf, ReferenceFacts
<1>3. \A g \in References(c, n) : p <= At(c, 0, g)
  <2> SUFFICES ASSUME NEW g \in References(c, n)
               PROVE  p <= At(c, 0, g)
    OBVIOUS
  <2>1. g = f \/ p < At(c, 0, g) \/ p = At(c, 0, g)
    BY <1>1 DEF Earlier
  <2>2. p \in 1 .. Len(c) /\ At(c, 0, g) \in 1 .. Len(c)
    BY <1>1, <1>2
  <2> HIDE DEF p
  <2>3. CASE g = f
    BY <2>2, <2>3 DEF p
  <2>4. QED
    BY <1>0, <2>1, <2>2, <2>3
<1>4. f.type = "Use" /\ d \in LoopsAround(c, p) /\ \A x \in LoopsAround(c, p) : d <= x
  BY OpeningFacts
<1> HIDE DEF d, p
<1>5. d \in Blocks(c) /\ HasBackBranch(c[d].kind) /\ d < p /\ p < Closing(c, d)
  BY <1>4 DEF LoopsAround
<1>6. Referred(c, n, d)
  BY <1>1, <1>5 DEF Referred, p
<1>7. ASSUME NEW b \in Blocks(c), HasBackBranch(c[b].kind), Referred(c, n, b)
      PROVE  d <= b
  <2>1. PICK g \in References(c, n) : b < At(c, 0, g) /\ At(c, 0, g) < Closing(c, b)
    BY <1>7 DEF Referred
  <2>2. p <= At(c, 0, g)
    BY <1>3
  <2>3. /\ b \in 1 .. Len(c) /\ Closing(c, b) \in b + 1 .. Len(c)
        /\ d \in 1 .. Len(c) /\ p \in 1 .. Len(c) /\ At(c, 0, g) \in 1 .. Len(c)
    BY <1>1, <1>2, <1>5, ClosingFacts DEF p
  <2>4. CASE b < p
    <3>1. p < Closing(c, b)
      BY <1>0, <2>1, <2>2, <2>3
    <3>2. b \in LoopsAround(c, p)
      BY <1>7, <2>4, <3>1 DEF LoopsAround
    <3>3. QED
      BY <1>4, <3>2
  <2>5. CASE ~(b < p)
    BY <1>0, <1>5, <2>3, <2>5
  <2>6. QED
    BY <2>4, <2>5
<1>8. QED
  BY <1>1, <1>3, <1>4, <1>5, <1>6, <1>7 DEF d, p

\* Where the events of a chain are.
LEMMA EventPlaces ==
  ASSUME NEW c, Structured(c), NEW n, NEW atEnd, NEW s, EndChain(c, n, atEnd, s),
         NEW x \in 1 .. Len(s), NEW p, p = PlaceAt(c, n, s, x)
  PROVE  /\ p \in 1 .. Len(c) + 1
         /\ s[x].type \in {"Use", "Def", "Enter", "Jump"}
         /\ s[x].type = "Use" =>
              \/ s[x] \in References(c, n) /\ p \in 1 .. Len(c) /\ UsedAt(c, n, p)
              \/ n \in atEnd /\ s[x] = UseEvent(Dummy) /\ p = Len(c) + 1
         /\ s[x].type = "Def" =>
              \/ s[x] \in References(c, n) /\ p \in 1 .. Len(c) /\ n \in DefsAt(c, p)
              \/ Opening(c, n) # 0 /\ s[x] = DefEvent(Dummy) /\ p = Opening(c, n)
         /\ s[x].type = "Enter" => p \in Blocks(c) /\ Referred(c, n, p) /\ s[x] = EnterOf(c, p)
         /\ s[x].type = "Jump" =>
              \E b \in Blocks(c) : /\ Referred(c, n, b) /\ s[x] = JumpOf(c, b)
                                   /\ p = Closing(c, b)
<1> DEFINE d == Opening(c, n)
           e == s[x]
<1>0. Len(c) \in Nat /\ d \in 0 .. Len(c)
  BY StructuredParts, OpeningFacts
<1>1. /\ p = At(c, d, e)
      /\ \/ e \in References(c, n)
         \/ \E b \in Blocks(c) : Referred(c, n, b) /\ (e = EnterOf(c, b) \/ e = JumpOf(c, b))
         \/ d # 0 /\ e = DefEvent(Dummy)
         \/ n \in atEnd /\ e = UseEvent(Dummy)
  BY EndChainFacts, EndEventsAre DEF PlaceAt
<1> HIDE DEF d, e
<1>2. CASE e \in References(c, n)
  <2>1. e \in AllReferences(c)
    BY <1>2, ReferencesOf
  <2>2. p \in 1 .. Len(c) /\ p = At(c, 0, e) /\ e.type \in {"Use", "Def"}
    BY <1>1, <2>1, ReferenceFacts
  <2>3. p \in 1 .. Len(c) + 1
    BY <1>0, <2>2
  <2>4. e.type = "Use" => UsedAt(c, n, p)
    BY <1>2, <2>2, UsedIs
  <2>5. e.type = "Def" => n \in DefsAt(c, p)
    BY <1>2, <2>2, DefinedIs
  <2>6. QED
    BY <1>2, <2>2, <2>3, <2>4, <2>5 DEF e
<1>3. CASE \E b \in Blocks(c) : Referred(c, n, b) /\ (e = EnterOf(c, b) \/ e = JumpOf(c, b))
  <2>1. PICK b \in Blocks(c) : Referred(c, n, b) /\ (e = EnterOf(c, b) \/ e = JumpOf(c, b))
    BY <1>3
  <2>2. b \in 1 .. Len(c) /\ Closing(c, b) \in b + 1 .. Len(c)
    BY ClosingFacts
  <2>3. b \in 1 .. Len(c) + 1 /\ Closing(c, b) \in 1 .. Len(c) + 1
    BY <1>0, <2>2
  <2>4. CASE e = EnterOf(c, b)
    <3>1. p = b /\ e.type = "Enter"
      BY <1>1, <2>4, BlockEventFacts
    <3>2. QED
      BY <2>1, <2>3, <2>4, <3>1 DEF e
  <2>5. CASE e = JumpOf(c, b)
    <3>1. p = Closing(c, b) /\ e.type = "Jump"
      BY <1>1, <2>5, BlockEventFacts
    <3>2. QED
      BY <2>1, <2>3, <2>5, <3>1 DEF e
  <2>6. QED
    BY <2>1, <2>4, <2>5
<1>4. CASE d # 0 /\ e = DefEvent(Dummy)
  <2>1. p = d /\ e.type = "Def"
    BY <1>1, <1>4, DummyFacts
  <2>2. p \in 1 .. Len(c) + 1
    BY <1>0, <1>4, <2>1
  <2>3. QED
    BY <1>4, <2>1, <2>2 DEF d, e
<1>5. CASE n \in atEnd /\ e = UseEvent(Dummy)
  <2>1. p = Len(c) + 1 /\ e.type = "Use"
    BY <1>1, <1>5, DummyFacts
  <2>2. p \in 1 .. Len(c) + 1
    BY <1>0, <2>1
  <2>3. QED
    BY <1>5, <2>1, <2>2 DEF e
<1>6. QED
  BY <1>1, <1>2, <1>3, <1>4, <1>5

\* Events are in the order of their nodes and, of one node, of their ranks.
LEMMA PlacesOrdered ==
  ASSUME NEW c, Structured(c), NEW n, NEW atEnd, NEW s, EndChain(c, n, atEnd, s),
         NEW x \in 1 .. Len(s), NEW y \in 1 .. Len(s), x < y
  PROVE  /\ PlaceAt(c, n, s, x) <= PlaceAt(c, n, s, y)
         /\ PlaceAt(c, n, s, x) = PlaceAt(c, n, s, y) => Rank(c, s[x]) < Rank(c, s[y])
<1> DEFINE p == PlaceAt(c, n, s, x)
           q == PlaceAt(c, n, s, y)
<1>0. Len(c) \in Nat
  BY StructuredParts
<1>1. p \in 1 .. Len(c) + 1 /\ q \in 1 .. Len(c) + 1
  BY EventPlaces
<1>2. p < q \/ (p = q /\ Rank(c, s[x]) < Rank(c, s[y]))
  BY EndChainFacts DEF PlaceAt, Earlier
<1> HIDE DEF p, q
<1>3. p <= q /\ (p = q => Rank(c, s[x]) < Rank(c, s[y]))
  BY <1>0, <1>1, <1>2
<1>4. QED
  BY <1>3 DEF p, q

\* The ranks of block events and of the Def of the prologue.
LEMMA RanksAre ==
  ASSUME NEW c, Structured(c), NEW n, NEW atEnd, NEW s, EndChain(c, n, atEnd, s),
         NEW x \in 1 .. Len(s)
  PROVE  /\ Rank(c, s[x]) \in Nat
         /\ s[x].type \in {"Enter", "Jump"} => Rank(c, s[x]) = 1
         /\ s[x] = DefEvent(Dummy) => Rank(c, s[x]) = 0
<1>0. Len(c) \in Nat
  BY StructuredParts
<1>1. \/ s[x] \in References(c, n)
      \/ \E b \in Blocks(c) : s[x] = EnterOf(c, b) \/ s[x] = JumpOf(c, b)
      \/ s[x] = DefEvent(Dummy)
      \/ s[x] = UseEvent(Dummy)
  BY EndChainFacts, EndEventsAre
<1>2. CASE s[x] \in References(c, n)
  <2>1. s[x] \in AllReferences(c)
    BY <1>2, ReferencesOf
  <2>2. Rank(c, s[x]) \in Nat /\ s[x].type \in {"Use", "Def"}
    BY <2>1, ReferenceFacts
  <2>3. s[x] # DefEvent(Dummy)
    <3>1. s[x].par \in Occurrences(c)
      BY <2>1, ReferenceFacts
    <3>2. s[x].par # Dummy
      BY <3>1, OccurrenceFacts
    <3>3. QED
      BY <3>2, DummyFacts
  <2>4. QED
    BY <2>2, <2>3
<1>3. CASE \E b \in Blocks(c) : s[x] = EnterOf(c, b) \/ s[x] = JumpOf(c, b)
  <2>1. Rank(c, s[x]) = 1 /\ s[x].type \in {"Enter", "Jump"}
    BY <1>3, BlockEventFacts
  <2>2. s[x] # DefEvent(Dummy)
    BY <2>1, DummyFacts
  <2>3. QED
    BY <2>1, <2>2
<1>4. CASE s[x] = DefEvent(Dummy)
  <2>1. Rank(c, s[x]) = 0 /\ s[x].type = "Def"
    BY <1>4, DummyFacts
  <2>2. QED
    BY <1>4, <2>1
<1>5. CASE s[x] = UseEvent(Dummy)
  <2>1. Rank(c, s[x]) = Len(c) - 0 /\ s[x].type = "Use"
    BY <1>5, DummyFacts
  <2>2. s[x] # DefEvent(Dummy)
    BY <2>1, DummyFacts
  <2>3. QED
    BY <1>0, <2>1, <2>2
<1>6. QED
  BY <1>1, <1>2, <1>3, <1>4, <1>5

\* A node without an event does not use or assign the name.
LEMMA NoEventAt ==
  ASSUME NEW c, Structured(c), NEW n, NEW atEnd, NEW s, EndChain(c, n, atEnd, s),
         NEW i \in 1 .. Len(c), \A x \in 1 .. Len(s) : PlaceAt(c, n, s, x) # i
  PROVE  ~UsedAt(c, n, i) /\ n \notin DefsAt(c, i)
<1>1. \A e \in References(c, n) : At(c, 0, e) # i
  <2> SUFFICES ASSUME NEW e \in References(c, n)
               PROVE  At(c, 0, e) # i
    OBVIOUS
  <2>0. e \in EndEvents(c, n, atEnd)
    BY EndEventsAre
  <2>1. PICK x \in 1 .. Len(s) : s[x] = e
    BY <2>0, EndChainFacts
  <2>2. PlaceAt(c, n, s, x) = At(c, 0, e)
    BY <2>1, ReferencesOf, ReferenceFacts DEF PlaceAt
  <2>3. QED
    BY <2>2
<1>2. QED
  BY <1>1, UsedIs, DefinedIs

\* No node between those of two successive events has an event.
LEMMA BetweenEvents ==
  ASSUME NEW c, Structured(c), NEW n, NEW atEnd, NEW s, EndChain(c, n, atEnd, s),
         NEW x \in 1 .. Len(s), NEW i \in Int, PlaceAt(c, n, s, x) < i,
         x < Len(s) => i < PlaceAt(c, n, s, x + 1)
  PROVE  \A y \in 1 .. Len(s) : PlaceAt(c, n, s, y) # i
<1> SUFFICES ASSUME NEW y \in 1 .. Len(s), PlaceAt(c, n, s, y) = i
             PROVE  FALSE
  OBVIOUS
<1> DEFINE p == PlaceAt(c, n, s, x)
           q == PlaceAt(c, n, s, x + 1)
           N == Len(s)
<1>0. Len(c) \in Nat /\ N \in Nat
  BY StructuredParts, EndChainFacts
<1>1. p \in 1 .. Len(c) + 1
  BY EventPlaces
<1>2. p < i /\ (x < N => i < q)
  OBVIOUS
<1>3. y <= x => i <= p
  <2> SUFFICES ASSUME y <= x
               PROVE  i <= p
    OBVIOUS
  <2>1. CASE y = x
    BY <2>1
  <2>2. CASE y # x
    <3>1. y < x
      BY <1>0, <2>2 DEF N
    <3>2. QED
      BY <3>1, PlacesOrdered
  <2>3. QED
    BY <2>1, <2>2
<1>4. x < y => x < N /\ q <= i /\ q \in 1 .. Len(c) + 1
  <2> SUFFICES ASSUME x < y
               PROVE  x < N /\ q <= i /\ q \in 1 .. Len(c) + 1
    OBVIOUS
  <2>1. x < N /\ x + 1 \in 1 .. N
    BY <1>0 DEF N
  <2>2. q \in 1 .. Len(c) + 1
    BY <2>1, EventPlaces DEF N
  <2>3. CASE y = x + 1
    BY <2>1, <2>2, <2>3
  <2>4. CASE y # x + 1
    <3>1. x + 1 < y
      BY <1>0, <2>4 DEF N
    <3>2. QED
      BY <2>1, <2>2, <3>1, PlacesOrdered DEF N
  <2>5. QED
    BY <2>3, <2>4
<1>5. x \in Int /\ y \in Int
  BY <1>0
<1> HIDE DEF p, q, N
<1>6. QED
  BY <1>0, <1>1, <1>2, <1>3, <1>4, <1>5

\* Events that follow are not before the opening either.
LEMMA NotEarly ==
  ASSUME NEW c, Structured(c), NEW n, NEW atEnd, NEW s, EndChain(c, n, atEnd, s),
         NEW x \in 1 .. Len(s), ~Early(c, n, s, x)
  PROVE  /\ Opening(c, n) <= PlaceAt(c, n, s, x)
         /\ \A y \in 1 .. Len(s) : x < y => ~Early(c, n, s, y)
<1> DEFINE d == Opening(c, n)
           p == PlaceAt(c, n, s, x)
<1>0. Len(c) \in Nat /\ d \in 0 .. Len(c)
  BY StructuredParts, OpeningFacts
<1>1. p \in 1 .. Len(c) + 1
  BY EventPlaces
<1>2. d <= p
  <2>1. ~(p < d)
    BY DEF Early
  <2> HIDE DEF d, p
  <2>2. QED
    BY <1>0, <1>1, <2>1
<1>3. ASSUME NEW y \in 1 .. Len(s), x < y, Early(c, n, s, y)
      PROVE  FALSE
  <2> DEFINE q == PlaceAt(c, n, s, y)
  <2>1. p <= q /\ (p = q => Rank(c, s[x]) < Rank(c, s[y]))
    BY <1>3, PlacesOrdered
  <2>2. q < d \/ s[y] = DefEvent(Dummy)
    BY <1>3 DEF Early
  <2>3. q \in 1 .. Len(c) + 1
    BY EventPlaces
  <2>4. s[y] = DefEvent(Dummy) => q = d /\ Rank(c, s[y]) = 0
    BY DummyFacts DEF PlaceAt
  <2>5. Rank(c, s[x]) \in Nat
    BY RanksAre
  <2> HIDE DEF d, p, q
  <2>6. s[y] = DefEvent(Dummy)
    BY <1>0, <1>1, <1>2, <2>1, <2>2, <2>3
  <2>7. p = q
    BY <1>0, <1>1, <1>2, <2>1, <2>3, <2>4, <2>6
  <2>8. Rank(c, s[x]) < 0
    BY <2>1, <2>4, <2>6, <2>7
  <2>9. QED
    BY <2>5, <2>8
<1>4. QED
  BY <1>2, <1>3

\* The event of a block is the only one of its node.
LEMMA BlockEventAlone ==
  ASSUME NEW c, Structured(c), NEW n, NEW atEnd, NEW s, EndChain(c, n, atEnd, s),
         NEW x \in 1 .. Len(s), s[x].type \in {"Enter", "Jump"}
  PROVE  /\ PlaceAt(c, n, s, x) \in 1 .. Len(c)
         /\ c[PlaceAt(c, n, s, x)].op = IF s[x].type = "Enter" THEN "enter" ELSE "jump"
         /\ ~UsedAt(c, n, PlaceAt(c, n, s, x)) /\ n \notin DefsAt(c, PlaceAt(c, n, s, x))
         /\ \A y \in 1 .. Len(s) :
              PlaceAt(c, n, s, y) = PlaceAt(c, n, s, x) => y = x \/ s[y] = DefEvent(Dummy)
<1> DEFINE p == PlaceAt(c, n, s, x)
<1>0. Len(c) \in Nat /\ n \in NamesOf(c)
  BY StructuredParts DEF EndChain
<1>1. \/ p \in Blocks(c) /\ s[x] = EnterOf(c, p)
      \/ \E b \in Blocks(c) : s[x] = JumpOf(c, b) /\ p = Closing(c, b)
  BY EventPlaces
<1>2. p \in 1 .. Len(c) /\ c[p].op = IF s[x].type = "Enter" THEN "enter" ELSE "jump"
  <2>1. CASE p \in Blocks(c) /\ s[x] = EnterOf(c, p)
    <3>1. s[x].type = "Enter" /\ p \in 1 .. Len(c) /\ c[p].op = "enter"
      BY <2>1, BlockEventFacts, ClosingFacts
    <3>2. QED
      BY <3>1
  <2>2. CASE \E b \in Blocks(c) : s[x] = JumpOf(c, b) /\ p = Closing(c, b)
    <3>1. PICK b \in Blocks(c) : s[x] = JumpOf(c, b) /\ p = Closing(c, b)
      BY <2>2
    <3>2. s[x].type = "Jump"
      BY <3>1, BlockEventFacts
    <3>3. b \in 1 .. Len(c) /\ Closing(c, b) \in b + 1 .. Len(c) /\ c[Closing(c, b)].op = "jump"
      BY ClosingFacts
    <3>4. p \in 1 .. Len(c) /\ c[p].op = "jump"
      <4>1. Closing(c, b) \in 1 .. Len(c)
        BY <1>0, <3>3
      <4>2. QED
        BY <3>1, <3>3, <4>1
    <3>5. QED
      BY <3>2, <3>4
  <2>3. QED
    BY <1>1, <2>1, <2>2
<1> HIDE DEF p
<1>3. \A g \in References(c, n) : At(c, 0, g) # p
  <2> SUFFICES ASSUME NEW g \in References(c, n)
               PROVE  At(c, 0, g) # p
    OBVIOUS
  <2>1. g \in AllReferences(c)
    BY ReferencesOf
  <2>2. c[At(c, 0, g)].op \in {"nonass", "expr", "ass"}
    BY <2>1, ReferenceFacts
  <2>3. c[p].op \in {"enter", "jump"}
    BY <1>2
  <2>4. QED
    BY <2>2, <2>3
<1>4. ~UsedAt(c, n, p) /\ n \notin DefsAt(c, p)
  BY <1>2, <1>3, UsedIs, DefinedIs
<1>5. ASSUME NEW y \in 1 .. Len(s), PlaceAt(c, n, s, y) = p, s[y] # DefEvent(Dummy)
      PROVE  y = x
  <2>1. s[y].type \in {"Enter", "Jump"}
    <3>1. /\ s[y].type \in {"Use", "Def", "Enter", "Jump"}
          /\ s[y].type = "Use" => UsedAt(c, n, p) \/ p = Len(c) + 1
          /\ s[y].type = "Def" => n \in DefsAt(c, p) \/ s[y] = DefEvent(Dummy)
      BY <1>5, EventPlaces
    <3>2. p # Len(c) + 1
      BY <1>0, <1>2
    <3>3. QED
      BY <1>4, <1>5, <3>1, <3>2
  <2>2. Rank(c, s[x]) = 1 /\ Rank(c, s[y]) = 1
    BY <2>1, RanksAre
  <2>3. x < y => Rank(c, s[x]) < Rank(c, s[y])
    BY <1>5, PlacesOrdered DEF p
  <2>4. y < x => Rank(c, s[y]) < Rank(c, s[x])
    BY <1>5, PlacesOrdered DEF p
  <2>5. x \in Int /\ y \in Int
    BY EndChainFacts
  <2>6. QED
    BY <2>2, <2>3, <2>4, <2>5
<1>6. QED
  BY <1>2, <1>4, <1>5 DEF p

-------------------------------------------------------------------------------
(* The marks are sound *)

\* A name that is live at an event is live after the event before it.
LEMMA LiveBetween ==
  ASSUME NEW c, Structured(c), NEW n, NEW atEnd, IsFiniteSet(atEnd), NEW s,
         EndChain(c, n, atEnd, s), NEW x \in 1 .. Len(s), x < Len(s),
         NEW q, q = PlaceAt(c, n, s, x + 1), PlaceAt(c, n, s, x) < q
  PROVE  /\ PlaceAt(c, n, s, x) + 1 \in 1 .. Len(c) + 1
         /\ q \in PlaceAt(c, n, s, x) + 1 .. Len(c) + 1
         /\ \A i \in PlaceAt(c, n, s, x) + 1 .. q - 1 :
              /\ i \in 1 .. Len(c) /\ ~UsedAt(c, n, i) /\ n \notin DefsAt(c, i)
              /\ \A y \in 1 .. Len(s) : PlaceAt(c, n, s, y) # i
         /\ q \in LivePlaces(c, n, atEnd) =>
              PlaceAt(c, n, s, x) + 1 \in LivePlaces(c, n, atEnd)
<1> DEFINE p == PlaceAt(c, n, s, x)
           L == LivePlaces(c, n, atEnd)
<1>0. Len(c) \in Nat /\ n \in NamesOf(c) /\ Len(s) \in Nat
  BY StructuredParts, EndChainFacts DEF EndChain
<1>1. p \in 1 .. Len(c) + 1
  BY EventPlaces
<1>2. x + 1 \in 1 .. Len(s) /\ q \in 1 .. Len(c) + 1
  <2>1. x + 1 \in 1 .. Len(s)
    BY <1>0
  <2>2. QED
    BY <2>1, EventPlaces
<1>3. p < q
  OBVIOUS
<1>4. \A i \in Int : p < i /\ i < q => \A y \in 1 .. Len(s) : PlaceAt(c, n, s, y) # i
  BY BetweenEvents
<1> HIDE DEF p
<1>5. p + 1 \in 1 .. Len(c) + 1 /\ q \in p + 1 .. Len(c) + 1
  BY <1>0, <1>1, <1>2, <1>3
<1>6. ASSUME NEW i \in p + 1 .. q - 1
      PROVE  /\ i \in 1 .. Len(c) /\ ~UsedAt(c, n, i) /\ n \notin DefsAt(c, i)
             /\ \A y \in 1 .. Len(s) : PlaceAt(c, n, s, y) # i
  <2>1. i \in 1 .. Len(c) /\ p < i /\ i < q
    BY <1>0, <1>1, <1>2
  <2>2. \A y \in 1 .. Len(s) : PlaceAt(c, n, s, y) # i
    BY <1>4, <2>1
  <2>3. ~UsedAt(c, n, i) /\ n \notin DefsAt(c, i)
    BY <2>1, <2>2, NoEventAt
  <2>4. QED
    BY <2>1, <2>2, <2>3
<1>7. ASSUME q \in L
      PROVE  p + 1 \in L
  <2> DEFINE a == p + 1
  <2>1. a \in 1 .. Len(c) + 1 /\ q \in a .. Len(c) + 1
    BY <1>5
  <2>2. \A i \in a .. q - 1 : n \notin DefsAt(c, i)
    BY <1>6
  <2> HIDE DEF a
  <2>3. a \in L
    BY <1>0, <1>7, <2>1, <2>2, LiveDown
  <2>4. QED
    BY <2>3 DEF a
<1>8. QED
  BY <1>5, <1>6, <1>7 DEF p

\* A name is live where it is used.
LEMMA LiveAtUse ==
  ASSUME NEW c, Structured(c), NEW n, NEW atEnd, IsFiniteSet(atEnd), NEW s,
         EndChain(c, n, atEnd, s), NEW x \in 1 .. Len(s), s[x].type = "Use"
  PROVE  PlaceAt(c, n, s, x) \in LivePlaces(c, n, atEnd)
<1> DEFINE p == PlaceAt(c, n, s, x)
<1>1. n \in NamesOf(c)
  BY DEF EndChain
<1>2. (p \in 1 .. Len(c) /\ UsedAt(c, n, p)) \/ (n \in atEnd /\ p = Len(c) + 1)
  BY EventPlaces
<1> HIDE DEF p
<1>3. p \in LivePlaces(c, n, atEnd)
  BY <1>1, <1>2, LivePlacesFacts
<1>4. QED
  BY <1>3 DEF p

\* Whether a name is live at a block, from whether it is live after the event.
LEMMA LiveAtBlock ==
  ASSUME NEW c, Structured(c), NEW n, NEW atEnd, IsFiniteSet(atEnd), NEW s,
         EndChain(c, n, atEnd, s), NEW x \in 1 .. Len(s), s[x].type \in {"Enter", "Jump"},
         ~Early(c, n, s, x)
  PROVE  /\ ~SameNode(c, n, s, x)
         /\ LiveEvent(c, n, atEnd, s, x) <=> PlaceAt(c, n, s, x) + 1 \in LivePlaces(c, n, atEnd)
         /\ LiveEvent(c, n, atEnd, s, x) => PlaceAt(c, n, s, x) \in LivePlaces(c, n, atEnd)
<1> DEFINE p == PlaceAt(c, n, s, x)
<1>0. n \in NamesOf(c) /\ Len(s) \in Nat
  BY EndChainFacts DEF EndChain
<1>1. /\ p \in 1 .. Len(c) /\ n \notin DefsAt(c, p)
      /\ \A y \in 1 .. Len(s) :
           PlaceAt(c, n, s, y) = p => y = x \/ s[y] = DefEvent(Dummy)
  BY BlockEventAlone
<1>2. ~SameNode(c, n, s, x)
  <2> SUFFICES ASSUME SameNode(c, n, s, x)
               PROVE  FALSE
    OBVIOUS
  <2>1. x < Len(s) /\ PlaceAt(c, n, s, x + 1) = p
    BY DEF SameNode
  <2>2. x + 1 \in 1 .. Len(s) /\ x < x + 1 /\ x + 1 # x
    BY <1>0, <2>1
  <2>3. s[x + 1] = DefEvent(Dummy)
    BY <1>1, <2>1, <2>2
  <2>4. Early(c, n, s, x + 1)
    BY <2>3 DEF Early
  <2>5. QED
    BY <2>2, <2>4, NotEarly
<1>3. LiveEvent(c, n, atEnd, s, x) <=> p + 1 \in LivePlaces(c, n, atEnd)
  BY <1>2 DEF LiveEvent
<1> HIDE DEF p
<1>4. p + 1 \in LivePlaces(c, n, atEnd) => p \in LivePlaces(c, n, atEnd)
  BY <1>0, <1>1, LivePlacesFacts
<1>5. QED
  BY <1>2, <1>3, <1>4 DEF p

\* If the marks say no more than what is live, neither does what a pass returns.
LEMMA BeforeIsLive ==
  ASSUME NEW c, Structured(c), NEW n, NEW atEnd, IsFiniteSet(atEnd), NEW s,
         EndChain(c, n, atEnd, s), NEW k \in [1 .. Len(s) -> BOOLEAN],
         \A x \in 1 .. Len(s) : k[x] => LiveEvent(c, n, atEnd, s, x)
  PROVE  \A x \in 1 .. Len(s) : BeforeOf(s, k)[x + 1] => LiveEvent(c, n, atEnd, s, x)
<1> DEFINE f == BeforeOf(s, k)
           N == Len(s)
           T == {x \in 1 .. N : f[x + 1] => LiveEvent(c, n, atEnd, s, x)}
<1>0. N \in Nat
  BY EndChainFacts
<1>1. /\ ~f[N + 1]
      /\ \A i \in 1 .. N :
           /\ s[i].type = "Def" => ~f[i]
           /\ s[i].type \notin {"Use", "Def"} => (f[i] <=> k[i] \/ f[i + 1])
  BY <1>0, BeforeSteps
<1> HIDE DEF f
<1>2. 1 <= N => N \in T
  BY <1>0, <1>1
<1>3. ASSUME NEW i \in 1 .. N, 1 < i, i \in T
      PROVE  i - 1 \in T
  <2> DEFINE x == i - 1
             p == PlaceAt(c, n, s, x)
             q == PlaceAt(c, n, s, i)
  <2>1. x \in 1 .. N /\ x < N /\ x + 1 = i /\ x < i
    BY <1>0, <1>3
  <2> SUFFICES ASSUME f[i], ~Early(c, n, s, x)
               PROVE  LiveEvent(c, n, atEnd, s, x)
    <3>1. Early(c, n, s, x) => LiveEvent(c, n, atEnd, s, x)
      BY DEF LiveEvent
    <3> HIDE DEF x
    <3>2. f[x + 1] => LiveEvent(c, n, atEnd, s, x)
      BY <2>1, <3>1
    <3>3. x \in T
      BY <2>1, <3>2
    <3>4. QED
      BY <3>3 DEF x
  <2> HIDE DEF x
  <2>2. ~Early(c, n, s, i)
    BY <2>1, NotEarly DEF N
  <2>3. p <= q /\ p \in Int /\ q \in Int
    BY <2>1, PlacesOrdered, EventPlaces DEF N
  <2>4. ASSUME p # q, q \in LivePlaces(c, n, atEnd)
        PROVE  LiveEvent(c, n, atEnd, s, x)
    <3>1. p < q
      <4> HIDE DEF p, q
      <4>1. QED
        BY <2>3, <2>4
    <3>2. p + 1 \in LivePlaces(c, n, atEnd)
      BY <2>1, <2>4, <3>1, LiveBetween DEF N
    <3>3. ~SameNode(c, n, s, x)
      BY <2>1, <2>4 DEF SameNode
    <3>4. QED
      BY <3>2, <3>3 DEF LiveEvent
  <2>5. CASE s[i].type = "Use"
    <3>1. q \in LivePlaces(c, n, atEnd)
      BY <2>5, LiveAtUse DEF N
    <3>2. p = q => LiveEvent(c, n, atEnd, s, x)
      BY <2>1, <2>5 DEF LiveEvent, SameNode, N
    <3>3. QED
      BY <2>4, <3>1, <3>2
  <2>6. CASE s[i].type = "Def"
    BY <1>1, <2>6
  <2>7. CASE s[i].type \in {"Enter", "Jump"}
    <3>1. k[i] \/ f[i + 1]
      BY <1>1, <2>7
    <3>2. LiveEvent(c, n, atEnd, s, i)
      BY <1>3, <3>1 DEF N
    <3>3. q \in LivePlaces(c, n, atEnd)
      BY <2>2, <2>7, <3>2, LiveAtBlock DEF N
    <3>4. p # q
      <4> SUFFICES ASSUME p = q
                   PROVE  FALSE
        OBVIOUS
      <4>1. x = i \/ s[x] = DefEvent(Dummy)
        BY <2>1, <2>7, BlockEventAlone DEF N
      <4>2. s[x] # DefEvent(Dummy)
        BY DEF Early
      <4>3. x # i
        BY <2>1
      <4>4. QED
        BY <4>1, <4>2, <4>3
    <3>5. QED
      BY <2>4, <3>3, <3>4
  <2>8. s[i].type \in {"Use", "Def", "Enter", "Jump"}
    BY EventPlaces DEF N
  <2>9. QED
    BY <2>5, <2>6, <2>7, <2>8
<1>4. \A i \in 1 .. N : i \in T
  <2> HIDE DEF T, N
  <2>1. 1 \in Int /\ N \in Int
    BY <1>0
  <2>2. QED
    BY <1>2, <1>3, <2>1, Descend
<1>5. QED
  BY <1>4 DEF f

\* The Jump that a pass finds for the Enter of a block.
LEMMA JumpOfEnterIs ==
  ASSUME NEW c, Structured(c), NEW n, NEW atEnd, NEW s, EndChain(c, n, atEnd, s),
         NEW x \in 1 .. Len(s), NEW b \in Blocks(c), s[x] = EnterOf(c, b)
  PROVE  /\ PlaceAt(c, n, s, x) = b /\ Referred(c, n, b)
         /\ \E y \in 1 .. Len(s) :
              /\ s[y] = JumpOf(c, b) /\ x < y /\ JumpOfEnter(s, x) = y
              /\ PlaceAt(c, n, s, y) = Closing(c, b)
<1>0. Len(c) \in Nat /\ Len(s) \in Nat
  BY StructuredParts, EndChainFacts
<1>1. s[x].type = "Enter" /\ s[x].blk = b /\ PlaceAt(c, n, s, x) = b
  BY BlockEventFacts DEF PlaceAt
<1>2. Referred(c, n, b)
  BY <1>1, EventPlaces
<1>3. JumpOf(c, b) \in EndEvents(c, n, atEnd)
  BY <1>2, EndEventsAre
<1>4. PICK y \in 1 .. Len(s) : s[y] = JumpOf(c, b)
  BY <1>3, EndChainFacts
<1>5. s[y].type = "Jump" /\ s[y].blk = b /\ PlaceAt(c, n, s, y) = Closing(c, b)
  BY <1>4, BlockEventFacts DEF PlaceAt
<1>6. x < y
  <2>1. b \in 1 .. Len(c) /\ Closing(c, b) \in b + 1 .. Len(c)
    BY ClosingFacts
  <2>2. b < Closing(c, b)
    BY <1>0, <2>1
  <2>3. Earlier(c, Opening(c, n), s[x], s[y])
    BY <1>1, <1>5, <2>2 DEF Earlier, PlaceAt
  <2>4. QED
    BY <2>3, EndChainFacts
<1>7. ASSUME NEW j \in x .. Len(s), s[j].type = "Jump", s[j].blk = s[x].blk
      PROVE  j = y
  <2>1. j \in 1 .. Len(s)
    BY <1>0
  <2>2. PICK a \in Blocks(c) : s[j] = JumpOf(c, a)
    BY <1>7, <2>1, EventPlaces
  <2>3. a = b
    BY <1>1, <1>7, <2>2, BlockEventFacts
  <2>4. QED
    BY <1>4, <2>1, <2>2, <2>3, EndChainFacts
<1>8. y \in x .. Len(s)
  BY <1>0, <1>6
<1>9. JumpOfEnter(s, x) = y
  BY <1>1, <1>5, <1>7, <1>8 DEF JumpOfEnter
<1>10. QED
  BY <1>1, <1>2, <1>4, <1>5, <1>6, <1>9

\* The Enter of a loop is not before the opening of the name.
LEMMA LoopNotEarly ==
  ASSUME NEW c, Structured(c), NEW n, NEW atEnd, NEW s, EndChain(c, n, atEnd, s),
         NEW x \in 1 .. Len(s), NEW b \in Blocks(c), s[x] = EnterOf(c, b),
         HasBackBranch(c[b].kind)
  PROVE  ~Early(c, n, s, x) /\ Opening(c, n) <= b
<1> DEFINE d == Opening(c, n)
<1>0. Len(c) \in Nat /\ n \in NamesOf(c) /\ d \in 0 .. Len(c) /\ b \in 1 .. Len(c)
  BY StructuredParts, OpeningFacts, ClosingFacts DEF EndChain
<1>1. PlaceAt(c, n, s, x) = b /\ Referred(c, n, b)
  BY JumpOfEnterIs
<1>2. d # 0 => d <= b
  BY <1>0, <1>1, OpeningIs
<1> HIDE DEF d
<1>3. d <= b /\ ~(b < d)
  BY <1>0, <1>2
<1>4. s[x] # DefEvent(Dummy)
  BY BlockEventFacts, DummyFacts
<1>5. QED
  BY <1>1, <1>3, <1>4 DEF Early, d

\* What keeps the Enter of a loop is live at its Jump.
LEMMA LoopedIsLive ==
  ASSUME NEW c, Structured(c), NEW n, NEW atEnd, IsFiniteSet(atEnd), NEW s,
         EndChain(c, n, atEnd, s), NEW e \in 1 .. Len(s),
         s[e].type = "Enter", s[e].back, LiveEvent(c, n, atEnd, s, e),
         NEW x \in 1 .. Len(s), x = JumpOfEnter(s, e) - 1
  PROVE  LiveEvent(c, n, atEnd, s, x)
<1> DEFINE L == LivePlaces(c, n, atEnd)
<1>0. Len(c) \in Nat /\ Len(s) \in Nat /\ n \in NamesOf(c)
  BY StructuredParts, EndChainFacts DEF EndChain
<1>1. PICK b \in Blocks(c) : s[e] = EnterOf(c, b)
  BY EventPlaces
<1>2. HasBackBranch(c[b].kind)
  BY <1>1, BlockEventFacts
<1>3. PICK y \in 1 .. Len(s) : /\ s[y] = JumpOf(c, b) /\ e < y /\ JumpOfEnter(s, e) = y
                               /\ PlaceAt(c, n, s, y) = Closing(c, b)
  BY <1>1, JumpOfEnterIs
<1>4. PlaceAt(c, n, s, e) = b /\ ~Early(c, n, s, e)
  BY <1>1, <1>2, JumpOfEnterIs, LoopNotEarly
<1>5. b \in L
  BY <1>4, LiveAtBlock
<1> DEFINE q == Closing(c, b)
<1>6. q \in 1 .. Len(c) /\ LoopEnd(c, q) /\ c[q].blk = b
  <2>1. /\ q \in b + 1 .. Len(c) /\ b \in 1 .. Len(c)
        /\ c[q].op = "jump" /\ c[q].blk = b /\ c[q].kind = c[b].kind
    BY ClosingFacts
  <2> HIDE DEF q
  <2>2. QED
    BY <1>0, <1>2, <2>1 DEF LoopEnd
<1>7. /\ s[y].type = "Jump" /\ n \notin DefsAt(c, q)
      /\ \A z \in 1 .. Len(s) : PlaceAt(c, n, s, z) = q => z = y \/ s[z] = DefEvent(Dummy)
  <2>1. s[y].type = "Jump"
    BY <1>3, BlockEventFacts
  <2>2. QED
    BY <1>3, <2>1, BlockEventAlone
<1> HIDE DEF q
<1>8. q \in L
  BY <1>0, <1>5, <1>6, <1>7, LivePlacesFacts
<1>9. x + 1 = y /\ x < Len(s) /\ x < y /\ (x = e \/ e < x)
  BY <1>0, <1>3
<1>10. ~Early(c, n, s, x)
  BY <1>4, <1>9, NotEarly
<1>11. PlaceAt(c, n, s, x) # q
  <2>1. x # y
    BY <1>9
  <2>2. s[x] # DefEvent(Dummy)
    BY <1>10 DEF Early
  <2>3. QED
    BY <1>7, <2>1, <2>2
<1>12. PlaceAt(c, n, s, x) < q
  <2>1. PlaceAt(c, n, s, x) <= q
    BY <1>3, <1>9, PlacesOrdered DEF q
  <2>2. PlaceAt(c, n, s, x) \in Int
    BY EventPlaces
  <2>3. QED
    BY <1>6, <1>11, <2>1, <2>2
<1>13. q = PlaceAt(c, n, s, x + 1)
  BY <1>3, <1>9 DEF q
<1>14. PlaceAt(c, n, s, x) + 1 \in L
  BY <1>8, <1>9, <1>12, <1>13, LiveBetween
<1>15. ~SameNode(c, n, s, x)
  BY <1>11, <1>13 DEF SameNode
<1>16. QED
  BY <1>14, <1>15 DEF LiveEvent

\* A pass marks no more than what is live.
LEMMA PassIsSound ==
  ASSUME NEW c, Structured(c), NEW n, NEW atEnd, IsFiniteSet(atEnd), NEW s,
         EndChain(c, n, atEnd, s), NEW k \in [1 .. Len(s) -> BOOLEAN],
         \A x \in 1 .. Len(s) : k[x] => LiveEvent(c, n, atEnd, s, x)
  PROVE  /\ KeepLivePass(s, k) \in [1 .. Len(s) -> BOOLEAN]
         /\ \A x \in 1 .. Len(s) : KeepLivePass(s, k)[x] => LiveEvent(c, n, atEnd, s, x)
<1> DEFINE f == BeforeOf(s, k)
           p == KeepLivePass(s, k)
<1>1. Len(s) \in Nat
  BY EndChainFacts
<1>2. \A x \in 1 .. Len(s) : f[x + 1] => LiveEvent(c, n, atEnd, s, x)
  BY BeforeIsLive
<1>3. /\ p \in [1 .. Len(s) -> BOOLEAN]
      /\ \A i \in 1 .. Len(s) :
           p[i] <=> \/ k[i] \/ f[i + 1]
                    \/ \E e \in 1 .. Len(s) :
                         /\ s[e].type = "Enter" /\ s[e].back
                         /\ k[e] \/ f[e + 1]
                         /\ i = JumpOfEnter(s, e) - 1
  <2>1. /\ KeepLivePass(s, k) \in [1 .. Len(s) -> BOOLEAN]
        /\ \A i \in 1 .. Len(s) :
             KeepLivePass(s, k)[i] <=>
               \/ k[i] \/ BeforeOf(s, k)[i + 1]
               \/ \E e \in 1 .. Len(s) :
                    /\ s[e].type = "Enter" /\ s[e].back
                    /\ k[e] \/ BeforeOf(s, k)[e + 1]
                    /\ i = JumpOfEnter(s, e) - 1
    <3> HIDE DEF f, p
    <3>1. QED
      BY <1>1, PassIs
  <2>2. QED
    BY <2>1
<1> HIDE DEF f, p
<1>4. ASSUME NEW x \in 1 .. Len(s), p[x]
      PROVE  LiveEvent(c, n, atEnd, s, x)
  <2>1. CASE k[x] \/ f[x + 1]
    BY <1>2, <2>1
  <2>2. CASE \E e \in 1 .. Len(s) : /\ s[e].type = "Enter" /\ s[e].back
                                    /\ k[e] \/ f[e + 1]
                                    /\ x = JumpOfEnter(s, e) - 1
    <3>1. PICK e \in 1 .. Len(s) : /\ s[e].type = "Enter" /\ s[e].back
                                   /\ k[e] \/ f[e + 1]
                                   /\ x = JumpOfEnter(s, e) - 1
      BY <2>2
    <3>2. LiveEvent(c, n, atEnd, s, e)
      BY <1>2, <3>1
    <3>3. QED
      BY <3>1, <3>2, LoopedIsLive
  <2>3. QED
    BY <1>3, <1>4, <2>1, <2>2
<1>5. QED
  BY <1>3, <1>4 DEF p

\* A block around a block with a reference has that reference.
LEMMA ReferredOuter ==
  ASSUME NEW c, Structured(c), NEW n, NEW a \in Blocks(c), Referred(c, n, a),
         NEW b \in Blocks(c), b <= a, Closing(c, a) <= Closing(c, b)
  PROVE  Referred(c, n, b)
<1>0. Len(c) \in Nat
  BY StructuredParts
<1>1. PICK g \in References(c, n) : a < At(c, 0, g) /\ At(c, 0, g) < Closing(c, a)
  BY DEF Referred
<1>2. At(c, 0, g) \in 1 .. Len(c)
  BY ReferencesOf, ReferenceFacts
<1>3. /\ a \in 1 .. Len(c) /\ Closing(c, a) \in a + 1 .. Len(c)
      /\ b \in 1 .. Len(c) /\ Closing(c, b) \in b + 1 .. Len(c)
  BY ClosingFacts
<1>4. b < At(c, 0, g) /\ At(c, 0, g) < Closing(c, b)
  BY <1>0, <1>1, <1>2, <1>3
<1>5. QED
  BY <1>4 DEF Referred

\* A block that holds the entrance of a block with a reference has a reference.
LEMMA ReferredWithin ==
  ASSUME NEW c, Structured(c), NEW n, NEW a \in Blocks(c), Referred(c, n, a),
         NEW b \in Blocks(c), b <= a, a <= Closing(c, b)
  PROVE  Referred(c, n, b)
<1>0. Len(c) \in Nat
  BY StructuredParts
<1>1. a \in 1 .. Len(c) /\ b \in 1 .. Len(c) /\ Closing(c, b) \in b + 1 .. Len(c)
  BY ClosingFacts
<1>2. CASE a = b
  BY <1>2
<1>3. CASE a # b
  <2>1. b < a
    BY <1>1, <1>3
  <2>2. Closing(c, b) < a \/ Closing(c, a) < Closing(c, b)
    BY <2>1, ClosingNested
  <2>3. Closing(c, a) \in a + 1 .. Len(c)
    BY ClosingFacts
  <2>4. Closing(c, a) <= Closing(c, b)
    BY <1>0, <1>1, <2>2, <2>3
  <2>5. QED
    BY <2>4, ReferredOuter
<1>4. QED
  BY <1>2, <1>3

\* A block without a reference to the name has no event in its chain.
LEMMA BlockEmpty ==
  ASSUME NEW c, Structured(c), NEW n, NEW atEnd, NEW s, EndChain(c, n, atEnd, s),
         NEW b \in Blocks(c), ~Referred(c, n, b), NEW x \in 1 .. Len(s)
  PROVE  PlaceAt(c, n, s, x) < b \/ Closing(c, b) < PlaceAt(c, n, s, x)
<1> DEFINE p == PlaceAt(c, n, s, x)
           z == Closing(c, b)
           d == Opening(c, n)
<1>0. Len(c) \in Nat /\ n \in NamesOf(c)
  BY StructuredParts DEF EndChain
<1>1. p \in 1 .. Len(c) + 1
  BY EventPlaces
<1>2. /\ b \in 1 .. Len(c) /\ z \in b + 1 .. Len(c)
      /\ c[b].op = "enter" /\ c[z].op = "jump"
  BY ClosingFacts
<1> SUFFICES ASSUME b <= p, p <= z
             PROVE  FALSE
  <2> HIDE DEF p, z
  <2>1. p < b \/ z < p
    BY <1>0, <1>1, <1>2
  <2>2. QED
    BY <2>1 DEF p, z
<1>3. \A a \in Blocks(c) : Referred(c, n, a) => ~(b <= a /\ a <= z)
  BY ReferredWithin
<1>4. CASE s[x] \in References(c, n)
  <2>1. s[x] \in AllReferences(c)
    BY <1>4, ReferencesOf
  <2>2. p = At(c, 0, s[x]) /\ c[p].op \in {"nonass", "expr", "ass"}
    BY <2>1, ReferenceFacts DEF PlaceAt
  <2>3. p # b /\ p # z
    BY <1>2, <2>2
  <2>4. b < p /\ p < z
    <3> HIDE DEF p, z
    <3>1. QED
      BY <1>0, <1>1, <1>2, <2>3
  <2>5. QED
    BY <1>4, <2>2, <2>4 DEF Referred
<1>5. CASE p = Len(c) + 1
  <2> HIDE DEF p, z
  <2>1. QED
    BY <1>0, <1>2, <1>5
<1>6. CASE d # 0 /\ p = d
  <2>1. d \in Blocks(c) /\ Referred(c, n, d)
    BY <1>0, <1>6, OpeningIs
  <2>2. QED
    BY <1>3, <1>6, <2>1
<1>7. CASE s[x].type = "Enter"
  <2>1. p \in Blocks(c) /\ Referred(c, n, p)
    BY <1>7, EventPlaces
  <2>2. QED
    BY <1>3, <2>1
<1>8. CASE s[x].type = "Jump"
  <2>1. PICK a \in Blocks(c) : Referred(c, n, a) /\ p = Closing(c, a)
    BY <1>8, EventPlaces
  <2>2. a \in 1 .. Len(c) /\ Closing(c, a) \in a + 1 .. Len(c)
    BY ClosingFacts
  <2>3. b <= a => FALSE
    <3> SUFFICES ASSUME b <= a
                 PROVE  FALSE
      OBVIOUS
    <3>1. Closing(c, a) <= Closing(c, b)
      BY <2>1
    <3>2. QED
      BY <2>1, <3>1, ReferredOuter
  <2>4. a < b => FALSE
    <3> SUFFICES ASSUME a < b
                 PROVE  FALSE
      OBVIOUS
    <3>1. p < b \/ z < p
      BY <2>1, ClosingNested
    <3> HIDE DEF p, z
    <3>2. QED
      BY <1>0, <1>1, <1>2, <3>1
  <2>5. QED
    BY <1>2, <2>2, <2>3, <2>4
<1>9. QED
  BY <1>4, <1>5, <1>6, <1>7, <1>8, EventPlaces

-------------------------------------------------------------------------------
(* The marks are complete *)

\* When a pass changes nothing, what is found live before an event marks the one before it.
LEMMA ActiveKept ==
  ASSUME NEW c, Structured(c), NEW n, NEW atEnd, NEW s, EndChain(c, n, atEnd, s),
         NEW k, Stable(s, k), NEW x \in 1 .. Len(s)
  PROVE  /\ BeforeOf(s, k)[x + 1] => k[x]
         /\ x < Len(s) /\ Active(c, s, k, x + 1) => k[x]
<1> DEFINE f == BeforeOf(s, k)
<1>0. Len(s) \in Nat
  BY EndChainFacts
<1>1. \A i \in 1 .. Len(s) :
        k[i] <=> \/ k[i] \/ f[i + 1]
                 \/ \E e \in 1 .. Len(s) :
                      /\ s[e].type = "Enter" /\ s[e].back
                      /\ k[e] \/ f[e + 1]
                      /\ i = JumpOfEnter(s, e) - 1
  BY <1>0, PassIs DEF Stable
<1> HIDE DEF f
<1>2. f[x + 1] => k[x]
  BY <1>1
<1>3. ASSUME x < Len(s), NEW b \in Blocks(c), HasBackBranch(c[b].kind),
             s[x + 1] = JumpOf(c, b), NEW e \in 1 .. Len(s), s[e] = EnterOf(c, b), k[e]
      PROVE  k[x]
  <2>1. s[e].type = "Enter" /\ s[e].back
    BY <1>3, BlockEventFacts
  <2>2. PICK y \in 1 .. Len(s) : s[y] = JumpOf(c, b) /\ JumpOfEnter(s, e) = y
    BY <1>3, JumpOfEnterIs
  <2>3. x + 1 \in 1 .. Len(s)
    BY <1>0, <1>3
  <2>4. y = x + 1
    BY <1>3, <2>2, <2>3, EndChainFacts
  <2>5. x = JumpOfEnter(s, e) - 1
    BY <1>0, <2>2, <2>4
  <2>6. QED
    BY <1>1, <1>3, <2>1, <2>5
<1>4. QED
  BY <1>2, <1>3 DEF Active, f

\* There is a first event that is not before a node.
LEMMA NextExists ==
  ASSUME NEW c, Structured(c), NEW n, NEW atEnd, NEW s, EndChain(c, n, atEnd, s),
         NEW j \in Int, NEW x \in 1 .. Len(s), j <= PlaceAt(c, n, s, x)
  PROVE  \E q \in 1 .. Len(s) : q <= x /\ NextEvent(c, n, s, j, q)
<1> DEFINE T == {y \in 1 .. Len(s) : j <= PlaceAt(c, n, s, y)}
<1>0. Len(s) \in Nat
  BY EndChainFacts
<1>1. T \in SUBSET Nat /\ T # {}
  BY <1>0
<1>2. PICK q \in T : \A y \in T : q <= y
  <2> HIDE DEF T
  <2>1. QED
    BY <1>1, Smallest
<1>3. ASSUME NEW y \in 1 .. Len(s), y < q
      PROVE  PlaceAt(c, n, s, y) < j
  <2>1. y \notin T
    BY <1>0, <1>2, <1>3
  <2>2. ~(j <= PlaceAt(c, n, s, y)) /\ PlaceAt(c, n, s, y) \in Int
    BY <2>1, EventPlaces
  <2>3. QED
    BY <2>2
<1>4. q \in 1 .. Len(s) /\ j <= PlaceAt(c, n, s, q) /\ q <= x
  BY <1>2
<1>5. QED
  BY <1>3, <1>4 DEF NextEvent

\* There is only one.
LEMMA NextUnique ==
  ASSUME NEW c, Structured(c), NEW n, NEW atEnd, NEW s, EndChain(c, n, atEnd, s),
         NEW j \in Int, NEW x, NextEvent(c, n, s, j, x), NEW q, NextEvent(c, n, s, j, q)
  PROVE  x = q
<1>1. Len(s) \in Nat /\ x \in 1 .. Len(s) /\ q \in 1 .. Len(s)
  BY EndChainFacts DEF NextEvent
<1>2. PlaceAt(c, n, s, x) \in Int /\ PlaceAt(c, n, s, q) \in Int
  BY <1>1, EventPlaces
<1>3. /\ x < q => PlaceAt(c, n, s, x) < j
      /\ q < x => PlaceAt(c, n, s, q) < j
      /\ j <= PlaceAt(c, n, s, x) /\ j <= PlaceAt(c, n, s, q)
  BY <1>1 DEF NextEvent
<1>4. ~(x < q) /\ ~(q < x)
  BY <1>2, <1>3
<1>5. QED
  BY <1>1, <1>4

\* Of one node, the Uses are before the Defs.
LEMMA RankOfType ==
  ASSUME NEW c, Structured(c), NEW n, NEW atEnd, NEW s, EndChain(c, n, atEnd, s),
         NEW x \in 1 .. Len(s)
  PROVE  /\ s[x].type = "Use" => Rank(c, s[x]) <= Len(c)
         /\ s[x].type = "Def" /\ s[x] # DefEvent(Dummy) => Len(c) < Rank(c, s[x])
<1>0. Len(c) \in Nat
  BY StructuredParts
<1>1. CASE s[x] \in References(c, n)
  <2>1. s[x] \in AllReferences(c)
    BY <1>1, ReferencesOf
  <2>2. /\ s[x].par \in Occurrences(c)
        /\ s[x].type = IF s[x].par[2] = 0 THEN "Use" ELSE "Def"
        /\ Rank(c, s[x]) = IF s[x].par[2] = 0 THEN Len(c) - s[x].par[1]
                           ELSE Len(c) + s[x].par[2]
    BY <2>1, ReferenceFacts
  <2>3. s[x].par[1] \in 1 .. Len(c) /\ s[x].par[2] \in Nat
    BY <2>2, OccurrenceFacts
  <2>4. QED
    BY <1>0, <2>2, <2>3
<1>2. CASE s[x] = UseEvent(Dummy)
  <2>1. Rank(c, s[x]) = Len(c) - 0 /\ s[x].type = "Use"
    BY <1>2, DummyFacts
  <2>2. QED
    BY <1>0, <2>1
<1>3. QED
  BY <1>1, <1>2, EventPlaces

\* Every Use is at a place where the marks say that the name is live.
LEMMA ReachedAtUse ==
  ASSUME NEW c, Structured(c), NEW n, NEW atEnd, NEW s, EndChain(c, n, atEnd, s),
         NEW k, Stable(s, k), NEW x \in 1 .. Len(s), s[x].type = "Use"
  PROVE  PlaceAt(c, n, s, x) \in Reached(c, n, s, k)
<1> DEFINE j == PlaceAt(c, n, s, x)
           d == Opening(c, n)
<1>0. Len(c) \in Nat /\ d \in Int /\ Len(s) \in Nat
  BY StructuredParts, OpeningFacts, EndChainFacts
<1>1. j \in 1 .. Len(c) + 1
  BY EventPlaces
<1>2. CASE j <= d
  BY <1>1, <1>2 DEF Reached
<1>3. CASE ~(j <= d)
  <2>1. j \in Int
    BY <1>1
  <2>2. PICK q \in 1 .. Len(s) : q <= x /\ NextEvent(c, n, s, j, q)
    BY <2>1, NextExists
  <2>3. s[q].type = "Use"
    <3>1. CASE q = x
      BY <3>1
    <3>2. CASE q # x
      <4>1. q < x
        BY <1>0, <2>2, <3>2
      <4>2. PlaceAt(c, n, s, q) = j
        <5>1. j <= PlaceAt(c, n, s, q) /\ PlaceAt(c, n, s, q) <= j
          BY <2>2, <4>1, PlacesOrdered DEF NextEvent
        <5>2. PlaceAt(c, n, s, q) \in Int
          BY EventPlaces
        <5> HIDE DEF j
        <5>3. QED
          BY <2>1, <5>1, <5>2
      <4>3. Rank(c, s[q]) < Rank(c, s[x])
        BY <4>1, <4>2, PlacesOrdered
      <4>4. s[q].type \in {"Enter", "Jump"} => FALSE
        <5> SUFFICES ASSUME s[q].type \in {"Enter", "Jump"}
                     PROVE  FALSE
          OBVIOUS
        <5>1. x = q \/ s[x] = DefEvent(Dummy)
          BY <4>2, BlockEventAlone
        <5>2. QED
          BY <3>2, <5>1, DummyFacts
      <4>5. s[q].type = "Def" => FALSE
        <5> SUFFICES ASSUME s[q].type = "Def"
                     PROVE  FALSE
          OBVIOUS
        <5>1. CASE s[q] = DefEvent(Dummy)
          <6>1. j = d
            BY <4>2, <5>1, DummyFacts DEF PlaceAt
          <6> HIDE DEF j, d
          <6>2. QED
            BY <1>0, <1>3, <6>1
        <5>2. CASE s[q] # DefEvent(Dummy)
          <6>1. Len(c) < Rank(c, s[q]) /\ Rank(c, s[x]) <= Len(c)
            BY <5>2, RankOfType
          <6>2. Rank(c, s[q]) \in Nat /\ Rank(c, s[x]) \in Nat
            BY RanksAre
          <6>3. QED
            BY <1>0, <4>3, <6>1, <6>2
        <5>3. QED
          BY <5>1, <5>2
      <4>6. QED
        BY <4>4, <4>5, EventPlaces
    <3>3. QED
      BY <3>1, <3>2
  <2>4. BeforeOf(s, k)[q]
    BY <1>0, <2>3, BeforeSteps DEF Stable
  <2>5. QED
    BY <2>1, <2>2, <2>4 DEF Reached, Active
<1>4. QED
  BY <1>2, <1>3

\* The marks carry liveness over a node that does not assign the name.
LEMMA ReachedAtPlain ==
  ASSUME NEW c, Structured(c), NEW n, NEW atEnd, NEW s, EndChain(c, n, atEnd, s),
         NEW k, Stable(s, k), NEW j \in 1 .. Len(c), Opening(c, n) < j,
         ~UsedAt(c, n, j), n \notin DefsAt(c, j), j + 1 \in Reached(c, n, s, k)
  PROVE  j \in Reached(c, n, s, k)
<1> DEFINE d == Opening(c, n)
           p(x) == PlaceAt(c, n, s, x)
<1>0. Len(c) \in Nat /\ d \in Int /\ Len(s) \in Nat
  BY StructuredParts, OpeningFacts, EndChainFacts
<1>1. PICK q \in 1 .. Len(s) : NextEvent(c, n, s, j + 1, q) /\ Active(c, s, k, q)
  <2>1. ~(j + 1 <= d)
    BY <1>0
  <2>2. QED
    BY <2>1 DEF Reached
<1>2. j + 1 <= p(q) /\ \A y \in 1 .. Len(s) : y < q => p(y) < j + 1
  BY <1>1 DEF NextEvent
<1>3. \A y \in 1 .. Len(s) : p(y) \in Int
  BY EventPlaces
<1>4. CASE \A y \in 1 .. Len(s) : p(y) # j
  <2> HIDE DEF p
  <2>1. j <= p(q)
    BY <1>2, <1>3
  <2>2. \A y \in 1 .. Len(s) : y < q => p(y) < j
    BY <1>2, <1>3, <1>4
  <2>3. NextEvent(c, n, s, j, q)
    BY <2>1, <2>2 DEF NextEvent, p
  <2>4. QED
    BY <1>1, <2>3 DEF Reached
<1>5. CASE \E y \in 1 .. Len(s) : p(y) = j
  <2>1. PICK y \in 1 .. Len(s) : p(y) = j
    BY <1>5
  <2>2. s[y].type \in {"Enter", "Jump"}
    <3>1. /\ s[y].type \in {"Use", "Def", "Enter", "Jump"}
          /\ s[y].type = "Use" => UsedAt(c, n, j) \/ j = Len(c) + 1
          /\ s[y].type = "Def" => n \in DefsAt(c, j) \/ j = d
      BY <2>1, EventPlaces
    <3>2. j # Len(c) + 1 /\ j # d
      BY <1>0
    <3>3. QED
      BY <3>1, <3>2
  <2>3. \A x \in 1 .. Len(s) : p(x) = j => x = y
    <3> SUFFICES ASSUME NEW x \in 1 .. Len(s), p(x) = j
                 PROVE  x = y
      OBVIOUS
    <3>1. x = y \/ s[x] = DefEvent(Dummy)
      BY <2>1, <2>2, BlockEventAlone
    <3>2. s[x] = DefEvent(Dummy) => j = d
      BY DummyFacts DEF PlaceAt
    <3>3. j # d
      BY <1>0
    <3>4. QED
      BY <3>1, <3>2, <3>3
  <2>4. y < q
    <3>1. q < y => p(q) <= j
      BY <2>1, PlacesOrdered
    <3>2. q = y => p(q) = j
      BY <2>1
    <3> HIDE DEF p
    <3>3. ~(q < y) /\ q # y
      BY <1>2, <1>3, <3>1, <3>2
    <3>4. QED
      BY <1>0, <3>3
  <2>5. q = y + 1
    <3> SUFFICES ASSUME y + 1 # q
                 PROVE  FALSE
      OBVIOUS
    <3> DEFINE z == y + 1
    <3>1. z \in 1 .. Len(s) /\ y < z /\ z < q /\ z # y
      BY <1>0, <2>4
    <3> HIDE DEF z
    <3>2. j <= p(z)
      BY <2>1, <3>1, PlacesOrdered
    <3>3. p(z) # j
      BY <2>3, <3>1
    <3>4. p(z) < j + 1
      BY <1>2, <3>1
    <3> HIDE DEF p
    <3>5. QED
      BY <1>3, <3>1, <3>2, <3>3, <3>4
  <2>6. k[y]
    <3>1. y < Len(s)
      BY <1>0, <2>5
    <3>2. QED
      BY <1>1, <2>5, <3>1, ActiveKept
  <2>7. BeforeOf(s, k)[y]
    BY <1>0, <2>2, <2>6, BeforeSteps DEF Stable
  <2>8. NextEvent(c, n, s, j, y)
    <3>1. ASSUME NEW x \in 1 .. Len(s), x < y
          PROVE  p(x) < j
      <4>1. p(x) <= j
        BY <2>1, <3>1, PlacesOrdered
      <4>2. p(x) # j
        BY <1>0, <2>3, <3>1
      <4> HIDE DEF p
      <4>3. QED
        BY <1>3, <4>1, <4>2
    <3>2. j <= p(y)
      BY <2>1
    <3>3. QED
      BY <3>1, <3>2 DEF NextEvent
  <2>9. QED
    BY <2>7, <2>8 DEF Reached, Active
<1>6. QED
  BY <1>4, <1>5

\* The loop that is the opening of the name is kept: the first reference in it
\* is a Use.
LEMMA OpeningKept ==
  ASSUME NEW c, Structured(c), NEW n, NEW atEnd, NEW s, EndChain(c, n, atEnd, s),
         NEW k, Stable(s, k), Opening(c, n) # 0,
         NEW e \in 1 .. Len(s), s[e] = EnterOf(c, Opening(c, n))
  PROVE  k[e]
<1> DEFINE d == Opening(c, n)
           f == FirstOf(c, n)
           B == BeforeOf(s, k)
<1>0. Len(c) \in Nat /\ Len(s) \in Nat /\ n \in NamesOf(c)
  BY StructuredParts, EndChainFacts DEF EndChain
<1>1. /\ d \in Blocks(c) /\ HasBackBranch(c[d].kind)
      /\ f \in References(c, n) /\ f.type = "Use"
      /\ d < At(c, 0, f)
      /\ \A g \in References(c, n) : At(c, 0, f) <= At(c, 0, g)
  BY <1>0, OpeningIs
<1>2. PICK y \in 1 .. Len(s) : s[y] = f
  <2>1. f \in EndEvents(c, n, atEnd)
    BY <1>1, EndEventsAre
  <2>2. QED
    BY <2>1, EndChainFacts
<1>3. PlaceAt(c, n, s, e) = d
  BY <1>1, JumpOfEnterIs
<1>4. \A x \in 1 .. Len(s) : s[x] \in References(c, n) => PlaceAt(c, n, s, x) = At(c, 0, s[x])
  BY ReferencesOf, ReferenceFacts DEF PlaceAt
<1>5. e < y
  <2>1. Earlier(c, d, s[e], s[y])
    <3>1. PlaceAt(c, n, s, e) < PlaceAt(c, n, s, y)
      BY <1>1, <1>2, <1>3, <1>4
    <3>2. QED
      BY <3>1 DEF PlaceAt, Earlier
  <2>2. QED
    BY <2>1, EndChainFacts
<1>6. ~Early(c, n, s, e)
  BY <1>1, LoopNotEarly
<1>7. /\ \A i \in 1 .. Len(s) :
           /\ s[i].type = "Use" => B[i]
           /\ s[i].type \notin {"Use", "Def"} => (B[i] <=> k[i] \/ B[i + 1])
  BY <1>0, BeforeSteps DEF Stable
<1>8. \A i \in 1 .. Len(s) : e < i /\ i < y => s[i].type # "Def"
  <2> SUFFICES ASSUME NEW i \in 1 .. Len(s), e < i, i < y, s[i].type = "Def"
               PROVE  FALSE
    OBVIOUS
  <2>1. s[i] # DefEvent(Dummy)
    BY <1>6, NotEarly DEF Early
  <2>2. s[i] \in References(c, n)
    BY <2>1, EventPlaces
  <2>3. PlaceAt(c, n, s, y) <= PlaceAt(c, n, s, i)
    BY <1>1, <1>2, <1>4, <2>2
  <2>4. PlaceAt(c, n, s, i) <= PlaceAt(c, n, s, y)
    BY PlacesOrdered
  <2>5. PlaceAt(c, n, s, i) = PlaceAt(c, n, s, y)
    <3>1. PlaceAt(c, n, s, i) \in Int /\ PlaceAt(c, n, s, y) \in Int
      BY EventPlaces
    <3>2. QED
      BY <2>3, <2>4, <3>1
  <2>6. Rank(c, s[i]) < Rank(c, s[y])
    BY <2>5, PlacesOrdered
  <2>7. Len(c) < Rank(c, s[i]) /\ Rank(c, s[y]) <= Len(c)
    BY <1>1, <1>2, <2>1, RankOfType
  <2>8. Rank(c, s[i]) \in Nat /\ Rank(c, s[y]) \in Nat
    BY RanksAre
  <2>9. QED
    BY <1>0, <2>6, <2>7, <2>8
<1> DEFINE T == {i \in e + 1 .. y : B[i]}
<1>9. e + 1 <= y => y \in T
  BY <1>0, <1>1, <1>2, <1>5, <1>7
<1>10. ASSUME NEW i \in e + 1 .. y, e + 1 < i, i \in T
       PROVE  i - 1 \in T
  <2> DEFINE x == i - 1
  <2>1. x \in 1 .. Len(s) /\ x \in e + 1 .. y /\ x + 1 = i /\ e < x /\ x < y
    BY <1>0, <1>10
  <2>2. B[i]
    BY <1>10
  <2> HIDE DEF B, x
  <2>3. s[x].type \in {"Use", "Def", "Enter", "Jump"}
    BY <2>1, EventPlaces
  <2>4. B[x]
    BY <1>7, <1>8, <2>1, <2>2, <2>3
  <2>5. QED
    BY <2>1, <2>4 DEF x
<1>11. \A i \in e + 1 .. y : i \in T
  <2> HIDE DEF T
  <2>1. e + 1 \in Int /\ y \in Int
    BY <1>0
  <2>2. QED
    BY <1>9, <1>10, <2>1, Descend
<1>12. B[e + 1]
  <2>1. e + 1 \in e + 1 .. y
    BY <1>0, <1>5
  <2>2. QED
    BY <1>11, <2>1
<1>13. QED
  BY <1>12, ActiveKept

\* The marks carry liveness over the back branch of a loop.
LEMMA ReachedAtLoop ==
  ASSUME NEW c, Structured(c), NEW n, NEW atEnd, NEW s, EndChain(c, n, atEnd, s),
         NEW k, Stable(s, k), NEW j \in 1 .. Len(c), Opening(c, n) < j,
         LoopEnd(c, j), c[j].blk \in Reached(c, n, s, k)
  PROVE  j \in Reached(c, n, s, k)
<1> DEFINE d == Opening(c, n)
           b == c[j].blk
           p(x) == PlaceAt(c, n, s, x)
<1>0. Len(c) \in Nat /\ d \in 0 .. Len(c) /\ Len(s) \in Nat /\ n \in NamesOf(c)
  BY StructuredParts, OpeningFacts, EndChainFacts DEF EndChain
<1>1. b \in Blocks(c) /\ Closing(c, b) = j
  BY ClosingOfJump DEF LoopEnd
<1>2. b \in 1 .. Len(c) /\ c[j].kind = c[b].kind /\ b < j
  <2>1. b \in 1 .. Len(c) /\ Closing(c, b) \in b + 1 .. Len(c) /\ c[Closing(c, b)].kind = c[b].kind
    BY <1>1, ClosingFacts
  <2>2. QED
    BY <1>0, <1>1, <2>1
<1>3. HasBackBranch(c[b].kind)
  BY <1>2 DEF LoopEnd
<1>4. \A y \in 1 .. Len(s) : p(y) \in Int
  BY EventPlaces
<1>5. b <= d \/ \E q \in 1 .. Len(s) : NextEvent(c, n, s, b, q) /\ Active(c, s, k, q)
  BY DEF Reached
<1> HIDE DEF b
<1>6. CASE ~Referred(c, n, b)
  <2>1. ~(b <= d)
    <3> SUFFICES ASSUME b <= d
                 PROVE  FALSE
      OBVIOUS
    <3>1. d # 0
      BY <1>2
    <3>2. d \in Blocks(c) /\ Referred(c, n, d)
      BY <1>0, <3>1, OpeningIs
    <3>3. d <= Closing(c, b)
      BY <1>0, <1>1
    <3> HIDE DEF d
    <3>4. QED
      BY <1>1, <1>6, <3>2, <3>3, ReferredWithin
  <2>2. PICK q \in 1 .. Len(s) : NextEvent(c, n, s, b, q) /\ Active(c, s, k, q)
    BY <1>5, <2>1
  <2>3. \A y \in 1 .. Len(s) : p(y) < b \/ j < p(y)
    BY <1>1, <1>6, BlockEmpty
  <2>4. b <= p(q) /\ \A y \in 1 .. Len(s) : y < q => p(y) < b
    BY <2>2 DEF NextEvent
  <2> HIDE DEF p
  <2>5. j <= p(q) /\ \A y \in 1 .. Len(s) : y < q => p(y) < j
    BY <1>2, <1>4, <2>3, <2>4
  <2>6. NextEvent(c, n, s, j, q)
    BY <2>5 DEF NextEvent, p
  <2>7. QED
    BY <2>2, <2>6 DEF Reached
<1>7. CASE Referred(c, n, b)
  <2>1. EnterOf(c, b) \in EndEvents(c, n, atEnd)
    BY <1>1, <1>7, EndEventsAre
  <2>2. PICK e \in 1 .. Len(s) : s[e] = EnterOf(c, b)
    BY <2>1, EndChainFacts
  <2>3. PICK y \in 1 .. Len(s) : s[y] = JumpOf(c, b) /\ p(y) = j
    BY <1>1, <2>2, JumpOfEnterIs
  <2>4. p(e) = b /\ d <= b
    BY <1>1, <1>3, <2>2, JumpOfEnterIs, LoopNotEarly
  <2>5. s[e].type = "Enter" /\ s[y].type = "Jump"
    BY <1>1, <2>2, <2>3, BlockEventFacts
  <2>6. k[e]
    <3>1. CASE b <= d
      <4>1. b = d /\ d # 0
        BY <1>0, <1>2, <2>4, <3>1
      <4>2. QED
        BY <2>2, <4>1, OpeningKept
    <3>2. CASE ~(b <= d)
      <4>1. PICK q \in 1 .. Len(s) : NextEvent(c, n, s, b, q) /\ Active(c, s, k, q)
        BY <1>5, <3>2
      <4>2. NextEvent(c, n, s, b, e)
        <5>1. ASSUME NEW x \in 1 .. Len(s), x < e
              PROVE  p(x) < b
          <6>1. p(x) <= b
            BY <2>4, <5>1, PlacesOrdered
          <6>2. p(x) # b
            <7> SUFFICES ASSUME p(x) = b
                         PROVE  FALSE
              OBVIOUS
            <7>1. x = e \/ s[x] = DefEvent(Dummy)
              BY <2>4, <2>5, BlockEventAlone
            <7>2. s[x] = DefEvent(Dummy) => b = d
              BY DummyFacts DEF PlaceAt
            <7>3. b # d /\ x # e
              BY <1>0, <1>2, <3>2, <5>1
            <7>4. QED
              BY <7>1, <7>2, <7>3
          <6> HIDE DEF p
          <6>3. QED
            BY <1>2, <1>4, <6>1, <6>2
        <5>2. b <= p(e)
          BY <1>2, <2>4
        <5>3. QED
          BY <5>1, <5>2 DEF NextEvent
      <4>3. q = e
        <5>1. b \in Int
          BY <1>2
        <5>2. QED
          BY <4>1, <4>2, <5>1, NextUnique
      <4>4. BeforeOf(s, k)[e]
        <5>1. \A a \in Blocks(c) : s[e] # JumpOf(c, a)
          BY <2>5, BlockEventFacts
        <5>2. QED
          BY <4>1, <4>3, <5>1 DEF Active
      <4>5. BeforeOf(s, k)[e] <=> k[e] \/ BeforeOf(s, k)[e + 1]
        BY <1>0, <2>5, BeforeSteps DEF Stable
      <4>6. QED
        BY <4>4, <4>5, ActiveKept
    <3>3. QED
      BY <3>1, <3>2
  <2>7. Active(c, s, k, y)
    BY <1>1, <1>3, <2>2, <2>3, <2>6 DEF Active
  <2>8. NextEvent(c, n, s, j, y)
    <3>1. ASSUME NEW x \in 1 .. Len(s), x < y
          PROVE  p(x) < j
      <4>1. p(x) <= j
        BY <2>3, <3>1, PlacesOrdered
      <4>2. p(x) # j
        <5> SUFFICES ASSUME p(x) = j
                     PROVE  FALSE
          OBVIOUS
        <5>1. x = y \/ s[x] = DefEvent(Dummy)
          BY <2>3, <2>5, BlockEventAlone
        <5>2. s[x] = DefEvent(Dummy) => j = d
          BY DummyFacts DEF PlaceAt
        <5>3. j # d /\ x # y
          BY <1>0, <3>1
        <5>4. QED
          BY <5>1, <5>2, <5>3
      <4> HIDE DEF p
      <4>3. QED
        BY <1>4, <4>1, <4>2
    <3>2. j <= p(y)
      BY <2>3
    <3>3. QED
      BY <3>1, <3>2 DEF NextEvent
  <2>9. QED
    BY <2>7, <2>8 DEF Reached
<1>8. QED
  BY <1>6, <1>7

\* What is live is reached by the marks.
LEMMA LiveIsReached ==
  ASSUME NEW c, Structured(c), NEW n, NEW atEnd, IsFiniteSet(atEnd), NEW s,
         EndChain(c, n, atEnd, s), NEW k, Stable(s, k)
  PROVE  LivePlaces(c, n, atEnd) \subseteq Reached(c, n, s, k)
<1> DEFINE R == Reached(c, n, s, k)
           d == Opening(c, n)
<1>0. Len(c) \in Nat /\ n \in NamesOf(c) /\ d \in Int
  BY StructuredParts, OpeningFacts DEF EndChain
<1>1. ASSUME n \in atEnd
      PROVE  Len(c) + 1 \in R
  <2>1. UseEvent(Dummy) \in EndEvents(c, n, atEnd)
    BY <1>1, EndEventsAre
  <2>2. PICK x \in 1 .. Len(s) : s[x] = UseEvent(Dummy)
    BY <2>1, EndChainFacts
  <2>3. s[x].type = "Use" /\ PlaceAt(c, n, s, x) = Len(c) + 1
    BY <2>2, DummyFacts DEF PlaceAt
  <2>4. QED
    BY <2>3, ReachedAtUse
<1>2. ASSUME NEW j \in 1 .. Len(c), UsedAt(c, n, j)
      PROVE  j \in R
  <2>1. PICK g \in References(c, n) : g.type = "Use" /\ At(c, 0, g) = j
    BY <1>2, UsedIs
  <2>2. g \in EndEvents(c, n, atEnd)
    BY EndEventsAre
  <2>3. PICK x \in 1 .. Len(s) : s[x] = g
    BY <2>2, EndChainFacts
  <2>4. PlaceAt(c, n, s, x) = j
    BY <2>1, <2>3, ReferencesOf, ReferenceFacts DEF PlaceAt
  <2>5. QED
    BY <2>1, <2>3, <2>4, ReachedAtUse
<1>3. ASSUME NEW j \in 1 .. Len(c), ~UsedAt(c, n, j), n \notin DefsAt(c, j),
             j + 1 \in R \/ (LoopEnd(c, j) /\ c[j].blk \in R)
      PROVE  j \in R
  <2>1. CASE j <= d
    BY <2>1 DEF Reached
  <2>2. CASE ~(j <= d)
    <3>1. d < j
      BY <1>0, <2>2
    <3>2. QED
      BY <1>3, <3>1, ReachedAtPlain, ReachedAtLoop
  <2>3. QED
    BY <2>1, <2>2
<1> HIDE DEF R
<1>4. LivePlaces(c, n, atEnd) \subseteq R
  BY <1>0, <1>1, <1>2, <1>3, LiveLeast
<1>5. QED
  BY <1>4 DEF R

\* When no pass changes a mark any more, an event is marked if and only if the
\* value is live after it.
LEMMA MarksAre ==
  ASSUME NEW c, Structured(c), NEW n, NEW atEnd, IsFiniteSet(atEnd), NEW s,
         EndChain(c, n, atEnd, s), NEW k, Stable(s, k),
         \A x \in 1 .. Len(s) : k[x] => LiveEvent(c, n, atEnd, s, x),
         NEW x \in 1 .. Len(s), ~Early(c, n, s, x)
  PROVE  k[x] <=> LiveEvent(c, n, atEnd, s, x)
<1> DEFINE p == PlaceAt(c, n, s, x)
           d == Opening(c, n)
<1>0. Len(c) \in Nat /\ d \in Int /\ Len(s) \in Nat
  BY StructuredParts, OpeningFacts, EndChainFacts
<1> SUFFICES ASSUME LiveEvent(c, n, atEnd, s, x)
             PROVE  k[x]
  OBVIOUS
<1>1. CASE SameNode(c, n, s, x)
  <2>1. s[x + 1].type = "Use" /\ x < Len(s)
    BY <1>1 DEF LiveEvent, SameNode
  <2>2. x + 1 \in 1 .. Len(s)
    BY <1>0, <2>1
  <2>3. BeforeOf(s, k)[x + 1]
    BY <1>0, <2>1, <2>2, BeforeSteps DEF Stable
  <2>4. QED
    BY <2>3, ActiveKept
<1>2. CASE ~SameNode(c, n, s, x)
  <2> DEFINE j == p + 1
  <2>1. j \in LivePlaces(c, n, atEnd)
    BY <1>2 DEF LiveEvent
  <2>2. j \in Reached(c, n, s, k)
    BY <2>1, LiveIsReached
  <2>3. d <= p /\ p \in Int
    BY NotEarly, EventPlaces
  <2>4. ~(j <= d) /\ j \in Int /\ p < j
    <3> HIDE DEF p, d
    <3>1. QED
      BY <1>0, <2>3
  <2>5. PICK q \in 1 .. Len(s) : NextEvent(c, n, s, j, q) /\ Active(c, s, k, q)
    BY <2>2, <2>4 DEF Reached
  <2>6. x < q
    <3>1. q < x => PlaceAt(c, n, s, q) <= p
      BY PlacesOrdered
    <3>2. q = x => PlaceAt(c, n, s, q) = p
      OBVIOUS
    <3>3. j <= PlaceAt(c, n, s, q) /\ PlaceAt(c, n, s, q) \in Int
      BY <2>5, EventPlaces DEF NextEvent
    <3> HIDE DEF p, j
    <3>4. ~(q < x) /\ q # x
      BY <2>3, <2>4, <3>1, <3>2, <3>3
    <3>5. QED
      BY <1>0, <3>4
  <2>7. q = x + 1
    <3> SUFFICES ASSUME q # x + 1
                 PROVE  FALSE
      OBVIOUS
    <3> DEFINE z == x + 1
               r == PlaceAt(c, n, s, z)
    <3>1. z \in 1 .. Len(s) /\ x < z /\ z < q /\ x < Len(s)
      BY <1>0, <2>6
    <3>2. r < j
      BY <2>5, <3>1 DEF NextEvent
    <3>3. p <= r /\ r \in Int
      BY <3>1, PlacesOrdered, EventPlaces
    <3>4. p # r
      BY <1>2, <3>1 DEF SameNode
    <3> HIDE DEF p, r
    <3>5. QED
      BY <2>3, <3>2, <3>3, <3>4
  <2>8. x < Len(s)
    BY <1>0, <2>6
  <2>9. QED
    BY <2>5, <2>7, <2>8, ActiveKept
<1>3. QED
  BY <1>1, <1>2

-------------------------------------------------------------------------------
(* The marks of the references *)

\* A later event of the node of event x: event x + 1 is of that node too.
LEMMA LaterAtNode ==
  ASSUME NEW c, Structured(c), NEW n, NEW atEnd, NEW s, EndChain(c, n, atEnd, s),
         NEW x \in 1 .. Len(s), NEW y \in 1 .. Len(s), x < y,
         PlaceAt(c, n, s, y) = PlaceAt(c, n, s, x)
  PROVE  /\ SameNode(c, n, s, x) /\ x + 1 \in 1 .. Len(s)
         /\ Rank(c, s[x]) < Rank(c, s[x + 1]) /\ Rank(c, s[x + 1]) <= Rank(c, s[y])
<1>1. Len(s) \in Nat
  BY EndChainFacts
<1>2. x \in Int /\ y \in Int /\ x + 1 \in 1 .. Len(s) /\ x < Len(s) /\ (x + 1 = y \/ x + 1 < y)
  BY <1>1
<1> DEFINE z == x + 1
<1>3. z \in 1 .. Len(s) /\ x < z /\ (z = y \/ z < y)
  BY <1>2
<1> HIDE DEF z
<1>4. PlaceAt(c, n, s, x) <= PlaceAt(c, n, s, z) /\ PlaceAt(c, n, s, z) <= PlaceAt(c, n, s, y)
  <2>1. /\ PlaceAt(c, n, s, x) \in 1 .. Len(c) + 1 /\ PlaceAt(c, n, s, y) \in 1 .. Len(c) + 1
        /\ PlaceAt(c, n, s, z) \in 1 .. Len(c) + 1
    BY <1>3, EventPlaces
  <2>2. PlaceAt(c, n, s, y) <= PlaceAt(c, n, s, y)
    BY <2>1
  <2>3. QED
    BY <1>3, <2>2, PlacesOrdered
<1>5. PlaceAt(c, n, s, z) = PlaceAt(c, n, s, x)
  <2>1. /\ PlaceAt(c, n, s, x) \in 1 .. Len(c) + 1 /\ PlaceAt(c, n, s, z) \in 1 .. Len(c) + 1
    BY <1>3, EventPlaces
  <2>2. QED
    BY <1>4, <2>1
<1>6. Rank(c, s[x]) < Rank(c, s[z])
  BY <1>3, <1>5, PlacesOrdered
<1>7. z < y => Rank(c, s[z]) < Rank(c, s[y])
  BY <1>3, <1>5, PlacesOrdered
<1>8. Rank(c, s[z]) <= Rank(c, s[y])
  <2>1. Rank(c, s[z]) \in Nat /\ Rank(c, s[y]) \in Nat
    BY <1>3, RanksAre
  <2>2. QED
    BY <1>3, <1>7, <2>1
<1>9. QED
  BY <1>2, <1>5, <1>6, <1>8 DEF z, SameNode

\* The event that follows one of a reference at the same node.
LEMMA NextAtNode ==
  ASSUME NEW c, Structured(c), NEW n, NEW atEnd, NEW s, EndChain(c, n, atEnd, s),
         NEW x \in 1 .. Len(s), s[x] \in References(c, n), SameNode(c, n, s, x)
  PROVE  /\ s[x + 1] \in References(c, n) /\ PlaceAt(c, n, s, x + 1) = PlaceAt(c, n, s, x)
         /\ Rank(c, s[x]) < Rank(c, s[x + 1])
<1>1. Len(s) \in Nat /\ Len(c) \in Nat
  BY EndChainFacts, StructuredParts
<1> DEFINE z == x + 1
           p == PlaceAt(c, n, s, z)
<1>2. z \in 1 .. Len(s) /\ x < z /\ z # x
  BY <1>1 DEF SameNode
<1>3. p = PlaceAt(c, n, s, x)
  BY DEF SameNode
<1> HIDE DEF z
<1>4. Rank(c, s[x]) < Rank(c, s[z])
  BY <1>2, <1>3, PlacesOrdered
<1>5. Rank(c, s[x]) \in Nat /\ Rank(c, s[z]) \in Nat
  BY <1>2, RanksAre
<1>6. s[z] # DefEvent(Dummy)
  <2>1. s[z] = DefEvent(Dummy) => Rank(c, s[z]) = 0
    BY <1>2, RanksAre
  <2>2. QED
    BY <1>4, <1>5, <2>1
<1>7. s[x] # DefEvent(Dummy)
  BY ReferenceIsReal
<1>8. s[z].type \notin {"Enter", "Jump"}
  BY <1>2, <1>3, <1>7, BlockEventAlone
<1>9. p \in 1 .. Len(c)
  BY <1>3, ReferencesOf, ReferenceFacts DEF PlaceAt
<1>10. s[z] \in References(c, n)
  <2>1. p # Len(c) + 1
    BY <1>1, <1>9
  <2> HIDE DEF p
  <2>2. p = PlaceAt(c, n, s, z)
    BY DEF p
  <2>3. QED
    BY <1>2, <1>6, <1>8, <2>1, <2>2, EventPlaces
<1>11. QED
  BY <1>3, <1>4, <1>10 DEF z

\* References follow the opening.
LEMMA ReferenceNotEarly ==
  ASSUME NEW c, Structured(c), NEW n, NEW atEnd, NEW s, EndChain(c, n, atEnd, s),
         NEW x \in 1 .. Len(s), s[x] \in References(c, n)
  PROVE  ~Early(c, n, s, x) /\ PlaceAt(c, n, s, x) \in 1 .. Len(c)
<1>1. s[x] # DefEvent(Dummy)
  BY ReferenceIsReal
<1>2. PlaceAt(c, n, s, x) \in 1 .. Len(c) /\ PlaceAt(c, n, s, x) = At(c, 0, s[x])
  BY ReferencesOf, ReferenceFacts DEF PlaceAt
<1>3. Opening(c, n) <= PlaceAt(c, n, s, x)
  <2>1. CASE Opening(c, n) = 0
    BY <1>2, <2>1
  <2>2. CASE Opening(c, n) # 0
    <3> DEFINE d == Opening(c, n)
               f == At(c, 0, FirstOf(c, n))
    <3>1. d < f /\ f <= PlaceAt(c, n, s, x) /\ FirstOf(c, n) \in References(c, n)
      BY <1>2, <2>2, OpeningIs DEF EndChain
    <3>2. f \in 1 .. Len(c)
      BY <3>1, ReferencesOf, ReferenceFacts
    <3>3. d \in Int
      BY OpeningFacts
    <3> HIDE DEF d, f
    <3>4. d <= PlaceAt(c, n, s, x)
      BY <1>2, <3>1, <3>2, <3>3
    <3>5. QED
      BY <3>4 DEF d
  <2>3. QED
    BY <2>1, <2>2
<1>4. Opening(c, n) \in Int
  BY OpeningFacts
<1>5. QED
  BY <1>1, <1>2, <1>3, <1>4 DEF Early

\* LastOccurrences with its parts named.
LEMMA LastOccurrencesAre ==
  ASSUME NEW c, NEW atEnd, NEW o
  PROVE  o \in LastOccurrences(c, atEnd) <=>
           o \in Occurrences(c) /\ ~NeededAfter(c, atEnd, o)
BY DEF LastOccurrences, NeededAfter, UsedAgain, StaysLive

\* A node that is not a jump has one successor.
LEMMA LiveAfterIs ==
  ASSUME NEW c, Structured(c), NEW n, NEW atEnd, NEW j \in 1 .. Len(c),
         c[j].op # "jump"
  PROVE  LiveAfter(c, Live(c, Consumers(c), atEnd), j, n) <=> j + 1 \in LivePlaces(c, n, atEnd)
<1>1. Len(c) \in Nat
  BY StructuredParts
<1>2. SuccSet(c, j) = {Succ(c, j, FALSE)}
  BY DEF SuccSet
<1>3. Succ(c, j, FALSE) = PlaceOf(c, j + 1)
  BY <1>1 DEF Succ, PlaceOf
<1>4. j + 1 \in 1 .. Len(c) + 1
  BY <1>1
<1> DEFINE l == Live(c, Consumers(c), atEnd)
           q == j + 1
<1>5. q \in LivePlaces(c, n, atEnd) <=> <<PlaceOf(c, q), n>> \in l
  BY <1>4 DEF LivePlaces
<1> HIDE DEF l
<1>6. LiveAfter(c, l, j, n) <=> <<PlaceOf(c, q), n>> \in l
  BY <1>2, <1>3 DEF LiveAfter
<1>7. QED
  BY <1>5, <1>6 DEF l

\* A value is live after a Use if the analysis has to find that it is used again.
LEMMA UseIsNeeded ==
  ASSUME NEW c, Structured(c), NEW n, NEW atEnd, IsFiniteSet(atEnd), NEW s,
         EndChain(c, n, atEnd, s), NEW x \in 1 .. Len(s), NEW i \in ParNodes(c),
         c[i].name = n, s[x] = UseEvent(<<i, 0>>), s[x] \in References(c, n)
  PROVE  LiveEvent(c, n, atEnd, s, x) <=> UsedAgain(c, atEnd, i)
<1> DEFINE j == PlaceAt(c, n, s, x)
           L == LivePlaces(c, n, atEnd)
<1>0. Len(c) \in Nat /\ n \in NamesOf(c)
  BY StructuredParts DEF EndChain
<1>1. /\ s[x].par = <<i, 0>> /\ s[x].par[2] = 0 /\ s[x].par[1] = i
      /\ i \in 1 .. Len(c)
  BY ParFacts DEF UseEvent, Event
<1>2. s[x] \in AllReferences(c)
  BY ReferencesOf
<1>3. /\ j = Consumer(c, i) /\ Rank(c, s[x]) = Len(c) - i /\ s[x].type = "Use"
      /\ c[j].op # "jump"
  BY <1>1, <1>2, ReferenceFacts DEF PlaceAt
<1>4. ~Early(c, n, s, x) /\ j \in 1 .. Len(c)
  BY ReferenceNotEarly
<1>5. Consumers(c)[i] = j /\ \A p \in ParNodes(c) : Consumers(c)[p] = Consumer(c, p)
  BY <1>3 DEF Consumers
<1>6. LiveAfter(c, Live(c, Consumers(c), atEnd), j, n) <=> j + 1 \in L
  BY <1>3, <1>4, LiveAfterIs
<1>7. UsedAgain(c, atEnd, i) <=>
        \/ \E p \in ParNodes(c) : p < i /\ c[p].name = n /\ Consumer(c, p) = j
        \/ n \notin DefsAt(c, j) /\ j + 1 \in L
  BY <1>5, <1>6 DEF UsedAgain
<1>8. LiveEvent(c, n, atEnd, s, x) <=>
        \/ SameNode(c, n, s, x) /\ s[x + 1].type = "Use"
        \/ ~SameNode(c, n, s, x) /\ j + 1 \in L
  BY <1>4 DEF LiveEvent
<1> HIDE DEF j, L
<1>9. ASSUME NEW p \in ParNodes(c), p < i, c[p].name = n, Consumer(c, p) = j
      PROVE  SameNode(c, n, s, x) /\ s[x + 1].type = "Use"
  <2> DEFINE e == UseEvent(<<p, 0>>)
  <2>1. p \in 1 .. Len(c)
    BY ParFacts
  <2>2. <<p, 0>> \in Occurrences(c) /\ NameOf(c, <<p, 0>>) = n /\ EventOf(<<p, 0>>) = e
    BY <1>9 DEF Occurrences, NameOf, EventOf
  <2>3. e \in References(c, n)
    BY <2>2 DEF References
  <2>4. e.par = <<p, 0>> /\ e.par[1] = p /\ e.par[2] = 0
    BY DEF UseEvent, Event
  <2>5. e \in AllReferences(c)
    BY <2>3, ReferencesOf
  <2>6. At(c, Opening(c, n), e) = j /\ Rank(c, e) = Len(c) - p /\ e.type = "Use"
    BY <1>9, <2>4, <2>5, ReferenceFacts
  <2>7. e \in EndEvents(c, n, atEnd)
    BY <2>3, EndEventsAre
  <2>8. PICK y \in 1 .. Len(s) : s[y] = e
    BY <2>7, EndChainFacts
  <2>9. PlaceAt(c, n, s, y) = j /\ Rank(c, s[y]) = Len(c) - p
    BY <2>6, <2>8 DEF PlaceAt
  <2>10. Rank(c, s[x]) < Rank(c, s[y])
    BY <1>0, <1>1, <1>3, <1>9, <2>1, <2>9
  <2>11. x < y
    <3>1. x # y
      BY <1>0, <1>1, <1>3, <2>1, <2>10
    <3>2. ~(y < x)
      <4> SUFFICES ASSUME y < x
                   PROVE  FALSE
        OBVIOUS
      <4>1. Rank(c, s[y]) < Rank(c, s[x])
        BY <2>9, PlacesOrdered DEF j
      <4>2. QED
        BY <1>0, <1>1, <1>3, <2>1, <2>9, <2>10, <4>1
    <3>3. Len(s) \in Nat
      BY EndChainFacts
    <3>4. QED
      BY <3>1, <3>2, <3>3
  <2>12. /\ SameNode(c, n, s, x) /\ x + 1 \in 1 .. Len(s)
         /\ Rank(c, s[x + 1]) <= Rank(c, s[y])
    BY <2>9, <2>11, LaterAtNode DEF j
  <2>13. s[x + 1] \in References(c, n)
    BY <2>12, NextAtNode
  <2>14. s[x + 1].type = "Use"
    <3> DEFINE z == x + 1
    <3>1. z \in 1 .. Len(s) /\ s[z] \in References(c, n)
      BY <2>12, <2>13
    <3> HIDE DEF z
    <3>2. s[z] # DefEvent(Dummy) /\ s[z].type \in {"Use", "Def"}
      BY <3>1, ReferenceIsReal
    <3>3. s[z].type = "Def" => Len(c) < Rank(c, s[z])
      BY <3>1, <3>2, RankOfType
    <3>4. Rank(c, s[z]) \in Nat /\ Rank(c, s[z]) <= Rank(c, s[y])
      BY <2>12, <3>1, RanksAre DEF z
    <3>5. s[z].type # "Def"
      BY <1>0, <2>1, <2>9, <3>3, <3>4
    <3>6. QED
      BY <3>2, <3>5 DEF z
  <2>15. QED
    BY <2>12, <2>14
<1>10. ASSUME SameNode(c, n, s, x), s[x + 1].type = "Use"
       PROVE  \E p \in ParNodes(c) : p < i /\ c[p].name = n /\ Consumer(c, p) = j
  <2> DEFINE e == s[x + 1]
             p == e.par[1]
  <2>1. /\ e \in References(c, n) /\ At(c, Opening(c, n), e) = j
        /\ Rank(c, s[x]) < Rank(c, e)
    BY <1>10, NextAtNode DEF PlaceAt, j
  <2>2. e.type = "Use"
    BY <1>10
  <2> HIDE DEF e
  <2>3. e \in AllReferences(c) /\ NameOf(c, e.par) = n
    BY <2>1, ReferencesOf
  <2>4. e.par \in Occurrences(c) /\ e.par[2] = 0
    BY <2>2, <2>3, ReferenceFacts
  <2>5. p \in ParNodes(c) /\ c[p].name = n
    BY <2>3, <2>4, OccurrenceFacts DEF NameOf
  <2>6. Consumer(c, p) = j /\ Rank(c, e) = Len(c) - p
    BY <2>1, <2>3, <2>4, ReferenceFacts
  <2>7. p \in 1 .. Len(c)
    BY <2>5, ParFacts
  <2> HIDE DEF p
  <2>8. p < i
    BY <1>0, <1>1, <1>3, <2>1, <2>6, <2>7
  <2>9. QED
    BY <2>5, <2>6, <2>8
<1>11. ASSUME SameNode(c, n, s, x), s[x + 1].type # "Use"
       PROVE  n \in DefsAt(c, j)
  <2> DEFINE e == s[x + 1]
  <2>1. e \in References(c, n) /\ At(c, Opening(c, n), e) = j
    BY <1>11, NextAtNode DEF PlaceAt, j
  <2>2. e.type # "Use"
    BY <1>11
  <2> HIDE DEF e
  <2>3. e.type = "Def" /\ At(c, 0, e) = j
    BY <2>1, <2>2, ReferencesOf, ReferenceFacts
  <2>4. QED
    BY <1>4, <2>1, <2>3, DefinedIs DEF j
<1>12. ASSUME n \in DefsAt(c, j)
       PROVE  SameNode(c, n, s, x)
  <2>1. PICK e \in References(c, n) : e.type = "Def" /\ At(c, 0, e) = j
    BY <1>4, <1>12, DefinedIs DEF j
  <2>2. At(c, Opening(c, n), e) = j /\ Len(c) < Rank(c, e) /\ Rank(c, e) \in Nat
    <3>1. e \in AllReferences(c)
      BY <2>1, ReferencesOf
    <3>2. /\ At(c, Opening(c, n), e) = j /\ Rank(c, e) = Len(c) + e.par[2]
          /\ e.par[2] # 0 /\ e.par \in Occurrences(c)
      BY <2>1, <3>1, ReferenceFacts
    <3>3. e.par[2] \in Nat
      BY <3>2, OccurrenceFacts
    <3>4. QED
      BY <1>0, <3>2, <3>3
  <2>3. e \in EndEvents(c, n, atEnd)
    BY <2>1, EndEventsAre
  <2>4. PICK y \in 1 .. Len(s) : s[y] = e
    BY <2>3, EndChainFacts
  <2>5. PlaceAt(c, n, s, y) = j
    BY <2>2, <2>4 DEF PlaceAt
  <2>6. x < y
    <3>1. x # y
      BY <1>3, <2>1, <2>4
    <3>2. ~(y < x)
      <4> SUFFICES ASSUME y < x
                   PROVE  FALSE
        OBVIOUS
      <4>1. Rank(c, s[y]) < Rank(c, s[x])
        BY <2>5, PlacesOrdered DEF j
      <4>2. QED
        BY <1>0, <1>1, <1>3, <2>2, <2>4, <4>1
    <3>3. Len(s) \in Nat
      BY EndChainFacts
    <3>4. QED
      BY <3>1, <3>2, <3>3
  <2>7. QED
    BY <2>5, <2>6, LaterAtNode DEF j
<1>13. QED
  BY <1>7, <1>8, <1>9, <1>10, <1>11, <1>12

\* A value is live after a Def if the analysis has to find that it stays.
LEMMA DefIsNeeded ==
  ASSUME NEW c, Structured(c), NEW n, NEW atEnd, IsFiniteSet(atEnd), NEW s,
         EndChain(c, n, atEnd, s), NEW x \in 1 .. Len(s), NEW j, NEW m, m # 0,
         NameOf(c, <<j, m>>) = n, s[x] = DefEvent(<<j, m>>), s[x] \in References(c, n)
  PROVE  LiveEvent(c, n, atEnd, s, x) <=> StaysLive(c, atEnd, j, m)
<1> DEFINE L == LivePlaces(c, n, atEnd)
<1>0. Len(c) \in Nat /\ n \in NamesOf(c)
  BY StructuredParts DEF EndChain
<1>1. s[x].par = <<j, m>> /\ s[x].par[2] = m /\ s[x].par[1] = j
  BY DEF DefEvent, Event
<1>2. s[x] \in AllReferences(c)
  BY ReferencesOf
<1>3. /\ PlaceAt(c, n, s, x) = j /\ Rank(c, s[x]) = Len(c) + m /\ s[x].type = "Def"
      /\ c[j].op # "jump"
  BY <1>1, <1>2, ReferenceFacts DEF PlaceAt
<1>4. ~Early(c, n, s, x) /\ j \in 1 .. Len(c)
  BY <1>3, ReferenceNotEarly
<1>5. m \in 1 .. Len(c[j].lhs) /\ c[j].lhs[m] = n /\ Len(c[j].lhs) \in Nat
      /\ DOMAIN c[j].lhs = 1 .. Len(c[j].lhs)
  <2>1. <<j, m>> \in Occurrences(c)
    BY <1>1, <1>2, ReferenceFacts
  <2>2. m \in 1 .. Len(c[j].lhs)
    BY <2>1, OccurrenceFacts
  <2>3. c[j].lhs \in Seq(STRING)
    BY <1>4, StructuredParts DEF NodeOK
  <2>4. QED
    BY <2>2, <2>3, LenProperties DEF NameOf
<1>6. LiveAfter(c, Live(c, Consumers(c), atEnd), j, n) <=> j + 1 \in L
  BY <1>3, <1>4, LiveAfterIs
<1>7. StaysLive(c, atEnd, j, m) <=>
        /\ j + 1 \in L
        /\ ~ \E k \in 1 .. Len(c[j].lhs) : k > m /\ c[j].lhs[k] = n
  BY <1>5, <1>6 DEF StaysLive
<1>8. LiveEvent(c, n, atEnd, s, x) <=>
        \/ SameNode(c, n, s, x) /\ s[x + 1].type = "Use"
        \/ ~SameNode(c, n, s, x) /\ j + 1 \in L
  BY <1>3, <1>4 DEF LiveEvent
<1> HIDE DEF L
<1>9. ASSUME SameNode(c, n, s, x)
      PROVE  /\ s[x + 1].type # "Use"
             /\ \E k \in 1 .. Len(c[j].lhs) : k > m /\ c[j].lhs[k] = n
  <2> DEFINE e == s[x + 1]
             k == e.par[2]
  <2>1. /\ e \in References(c, n) /\ At(c, Opening(c, n), e) = j
        /\ Rank(c, s[x]) < Rank(c, e)
    BY <1>3, <1>9, NextAtNode DEF PlaceAt
  <2> HIDE DEF e
  <2>2. e \in AllReferences(c) /\ NameOf(c, e.par) = n
    BY <2>1, ReferencesOf
  <2>3. /\ e.par \in Occurrences(c) /\ e.type = (IF k = 0 THEN "Use" ELSE "Def")
        /\ Rank(c, e) = (IF k = 0 THEN Len(c) - e.par[1] ELSE Len(c) + k)
        /\ k # 0 => e.par[1] = j
    BY <2>1, <2>2, ReferenceFacts
  <2>4. e.par[1] \in 1 .. Len(c) /\ k \in Nat /\ (k # 0 => k \in 1 .. Len(c[e.par[1]].lhs))
    BY <2>3, OccurrenceFacts
  <2>5. k # 0 /\ k > m
    <3> HIDE DEF k
    <3>1. k # 0
      BY <1>0, <1>3, <1>5, <2>1, <2>3, <2>4
    <3>2. QED
      BY <1>0, <1>3, <1>5, <2>1, <2>3, <2>4, <3>1
  <2>6. c[j].lhs[k] = n
    BY <2>2, <2>3, <2>5 DEF NameOf
  <2>7. e.type # "Use"
    BY <2>3, <2>5
  <2>8. QED
    BY <2>3, <2>4, <2>5, <2>6, <2>7 DEF e
<1>10. ASSUME NEW k \in 1 .. Len(c[j].lhs), k > m, c[j].lhs[k] = n
       PROVE  SameNode(c, n, s, x)
  <2> DEFINE e == DefEvent(<<j, k>>)
  <2>1. k # 0 /\ k \in DOMAIN c[j].lhs /\ j \in DOMAIN c /\ k \in Nat
    BY <1>4, <1>5, StructuredParts
  <2>2. <<j, k>> \in Occurrences(c) /\ NameOf(c, <<j, k>>) = n /\ EventOf(<<j, k>>) = e
    BY <1>10, <2>1 DEF Occurrences, NameOf, EventOf
  <2>3. e \in References(c, n)
    BY <2>2 DEF References
  <2>4. e.par = <<j, k>> /\ e.par[1] = j /\ e.par[2] = k
    BY DEF DefEvent, Event
  <2>5. e \in AllReferences(c)
    BY <2>3, ReferencesOf
  <2>6. At(c, Opening(c, n), e) = j /\ Rank(c, e) = Len(c) + k
    BY <2>1, <2>4, <2>5, ReferenceFacts
  <2>7. e \in EndEvents(c, n, atEnd)
    BY <2>3, EndEventsAre
  <2>8. PICK y \in 1 .. Len(s) : s[y] = e
    BY <2>7, EndChainFacts
  <2>9. PlaceAt(c, n, s, y) = j /\ Rank(c, s[y]) = Len(c) + k
    BY <2>6, <2>8 DEF PlaceAt
  <2>10. x < y
    <3>1. x # y
      BY <1>0, <1>3, <1>5, <1>10, <2>9
    <3>2. ~(y < x)
      <4> SUFFICES ASSUME y < x
                   PROVE  FALSE
        OBVIOUS
      <4>1. Rank(c, s[y]) < Rank(c, s[x])
        BY <1>3, <2>9, PlacesOrdered
      <4>2. QED
        BY <1>0, <1>3, <1>5, <1>10, <2>9, <4>1
    <3>3. Len(s) \in Nat
      BY EndChainFacts
    <3>4. QED
      BY <3>1, <3>2, <3>3
  <2>11. QED
    BY <1>3, <2>9, <2>10, LaterAtNode
<1>11. QED
  BY <1>7, <1>8, <1>9, <1>10

\* The mark of a reference, from what the analysis has to find.
LEMMA MarkOfReference ==
  ASSUME NEW c, Structured(c), NEW atEnd, IsFiniteSet(atEnd), NEW r, NEW k,
         Settles(c, atEnd, r, k), NEW n \in DOMAIN r.chain,
         NEW x \in 1 .. Len(r.chain[n]), r.chain[n][x] \in References(c, n)
  PROVE  k[n][x] <=> NeededAfter(c, atEnd, r.chain[n][x].par)
<1> DEFINE s == r.chain[n]
           o == s[x].par
<1>1. /\ EndChain(c, n, atEnd, s) /\ Stable(s, k[n])
      /\ \A y \in 1 .. Len(s) : k[n][y] => LiveEvent(c, n, atEnd, s, y)
  BY DEF Settles, Sound
<1>2. x \in 1 .. Len(s) /\ s[x] \in References(c, n)
  OBVIOUS
<1>3. s[x] \in AllReferences(c) /\ NameOf(c, o) = n
  BY <1>2, ReferencesOf
<1>4. /\ s[x] = EventOf(o) /\ o \in Occurrences(c)
  BY <1>3, ReferenceFacts
<1>5. /\ o = <<o[1], o[2]>> /\ o[2] = 0 => o[1] \in ParNodes(c)
  BY <1>4, OccurrenceFacts
<1> HIDE DEF s, o
<1>6. k[n][x] <=> LiveEvent(c, n, atEnd, s, x)
  <2>1. ~Early(c, n, s, x)
    BY <1>1, <1>2, ReferenceNotEarly
  <2>2. QED
    BY <1>1, <1>2, <2>1, MarksAre
<1>7. CASE o[2] = 0
  <2> DEFINE i == o[1]
  <2>1. i \in ParNodes(c) /\ o = <<i, 0>>
    BY <1>4, <1>7, OccurrenceFacts
  <2>2. c[i].name = n /\ s[x] = UseEvent(<<i, 0>>)
    BY <1>3, <1>4, <1>7, <2>1 DEF NameOf, EventOf
  <2> HIDE DEF i
  <2>3. LiveEvent(c, n, atEnd, s, x) <=> UsedAgain(c, atEnd, i)
    BY <1>1, <1>2, <2>1, <2>2, UseIsNeeded
  <2>4. NeededAfter(c, atEnd, o) <=> UsedAgain(c, atEnd, i)
    BY <1>7 DEF NeededAfter, i
  <2>5. QED
    BY <1>6, <2>3, <2>4 DEF s, o
<1>8. CASE o[2] # 0
  <2> DEFINE j == o[1]
             m == o[2]
  <2>1. o = <<j, m>> /\ m # 0
    BY <1>4, <1>8, OccurrenceFacts
  <2>2. NameOf(c, <<j, m>>) = n /\ s[x] = DefEvent(<<j, m>>)
    BY <1>3, <1>4, <1>8, <2>1 DEF EventOf
  <2> HIDE DEF j, m
  <2>3. LiveEvent(c, n, atEnd, s, x) <=> StaysLive(c, atEnd, j, m)
    BY <1>1, <1>2, <2>1, <2>2, DefIsNeeded
  <2>4. NeededAfter(c, atEnd, o) <=> StaysLive(c, atEnd, j, m)
    BY <1>8 DEF NeededAfter, j, m
  <2>5. QED
    BY <1>6, <2>3, <2>4 DEF s, o
<1>9. QED
  BY <1>7, <1>8

\* EventChain::setLastUse marks exactly the last occurrences.
LEMMA LastUsesAre ==
  ASSUME NEW c, Structured(c), NEW atEnd, IsFiniteSet(atEnd), NEW r, NEW k,
         Settles(c, atEnd, r, k)
  PROVE  LastUses(r, k) = LastOccurrences(c, atEnd)
<1>1. \A n \in DOMAIN r.chain : /\ EndChain(c, n, atEnd, r.chain[n])
                                /\ DOMAIN r.chain[n] = 1 .. Len(r.chain[n])
  BY EndChainFacts DEF Settles, Sound
<1>2. ASSUME NEW o, o \in LastUses(r, k)
      PROVE  o \in LastOccurrences(c, atEnd)
  <2>1. o # Dummy /\ \E n \in DOMAIN r.chain : \E j \in DOMAIN r.chain[n] :
          IsReference(r.chain[n][j]) /\ ~k[n][j] /\ o = r.chain[n][j].par
    BY <1>2 DEF LastUses
  <2>2. PICK n \in DOMAIN r.chain : \E j \in DOMAIN r.chain[n] :
          IsReference(r.chain[n][j]) /\ ~k[n][j] /\ o = r.chain[n][j].par
    BY <2>1
  <2>3. PICK x \in DOMAIN r.chain[n] :
          IsReference(r.chain[n][x]) /\ ~k[n][x] /\ o = r.chain[n][x].par
    BY <2>2
  <2> DEFINE s == r.chain[n]
             U == EndUses(n \in atEnd)
  <2>4. x \in 1 .. Len(s) /\ EndChain(c, n, atEnd, s)
    BY <1>1
  <2>5. s[x] \in ChainEvents(c, n, TRUE, Len(c) + 1, U) /\ U \subseteq {UseEvent(Dummy)}
    <3> HIDE DEF s
    <3>1. s[x] \in EndEvents(c, n, atEnd)
      BY <2>4, EndChainFacts
    <3>2. QED
      BY <3>1 DEF EndEvents, EndUses
  <2>6. IsReference(s[x]) /\ s[x].par # Dummy
    BY <2>1, <2>3
  <2> HIDE DEF s, U
  <2>7. s[x] \in References(c, n)
    BY <2>5, <2>6, ReferencesIn
  <2>8. ~NeededAfter(c, atEnd, o)
    BY <2>3, <2>4, <2>7, MarkOfReference DEF s
  <2>9. o \in Occurrences(c)
    BY <2>3, <2>7, ReferencesOf, ReferenceFacts DEF s
  <2>10. QED
    BY <2>8, <2>9, LastOccurrencesAre
<1>3. ASSUME NEW o, o \in LastOccurrences(c, atEnd)
      PROVE  o \in LastUses(r, k)
  <2> DEFINE n == NameOf(c, o)
             e == EventOf(o)
  <2>1. o \in Occurrences(c) /\ ~NeededAfter(c, atEnd, o)
    BY <1>3, LastOccurrencesAre
  <2>2. e \in References(c, n)
    BY <2>1 DEF References
  <2>3. e.par = o /\ IsReference(e) /\ o # Dummy
    <3>1. e.par = o /\ e.type \in {"Use", "Def"}
      BY EventOfFacts
    <3> HIDE DEF e
    <3>2. QED
      BY <2>1, <3>1, OccurrenceFacts DEF IsReference
  <2> HIDE DEF n, e
  <2>4. n \in DOMAIN r.chain
    BY <2>2, NamesIs DEF Settles, Sound
  <2>5. e \in EndEvents(c, n, atEnd)
    BY <2>2, EndEventsAre
  <2>6. PICK x \in 1 .. Len(r.chain[n]) : r.chain[n][x] = e
    BY <1>1, <2>4, <2>5, EndChainFacts
  <2>7. ~k[n][x]
    BY <2>1, <2>2, <2>3, <2>4, <2>6, MarkOfReference
  <2>8. x \in DOMAIN r.chain[n]
    BY <1>1, <2>4, <2>6
  <2>9. QED
    BY <2>3, <2>4, <2>6, <2>7, <2>8 DEF LastUses
<1>4. QED
  BY <1>2, <1>3

-------------------------------------------------------------------------------
(* The marks of the jump nodes *)

\* There is an event before a Jump, and both follow the opening.
LEMMA BeforeJump ==
  ASSUME NEW c, Structured(c), NEW n, NEW atEnd, NEW s, EndChain(c, n, atEnd, s),
         NEW y \in 1 .. Len(s), NEW b \in Blocks(c), Referred(c, n, b),
         s[y] = JumpOf(c, b)
  PROVE  /\ y - 1 \in 1 .. Len(s) /\ y - 1 < Len(s)
         /\ ~Early(c, n, s, y) /\ ~Early(c, n, s, y - 1)
         /\ PlaceAt(c, n, s, y) = Closing(c, b)
         /\ PlaceAt(c, n, s, y - 1) < Closing(c, b)
<1> DEFINE j == Closing(c, b)
<1>0. Len(s) \in Nat
  BY EndChainFacts
<1>1. PlaceAt(c, n, s, y) = j /\ s[y].type = "Jump"
  BY BlockEventFacts DEF PlaceAt
<1>2. PICK e \in References(c, n) : b < At(c, 0, e) /\ At(c, 0, e) < j
  BY DEF Referred
<1>3. e \in EndEvents(c, n, atEnd)
  BY <1>2, EndEventsAre
<1>4. PICK x \in 1 .. Len(s) : s[x] = e
  BY <1>3, EndChainFacts
<1>5. ~Early(c, n, s, x) /\ PlaceAt(c, n, s, x) \in 1 .. Len(c)
  BY <1>2, <1>4, ReferenceNotEarly
<1>6. PlaceAt(c, n, s, x) < j
  <2>1. At(c, Opening(c, n), e) = At(c, 0, e)
    BY <1>2, ReferencesOf, ReferenceFacts
  <2>2. QED
    BY <1>2, <1>4, <2>1 DEF PlaceAt
<1>7. j \in Int
  BY ClosingFacts
<1> HIDE DEF j
<1>8. x < y
  <2>1. ~(y <= x)
    <3> SUFFICES ASSUME y <= x
                 PROVE  FALSE
      OBVIOUS
    <3>1. y = x \/ y < x
      BY <1>0
    <3>2. PlaceAt(c, n, s, y) = PlaceAt(c, n, s, x) \/ PlaceAt(c, n, s, y) <= PlaceAt(c, n, s, x)
      BY <3>1, PlacesOrdered
    <3>3. QED
      BY <1>1, <1>5, <1>6, <1>7, <3>2
  <2>2. QED
    BY <1>0, <2>1
<1>9. ~Early(c, n, s, y)
  BY <1>5, <1>8, NotEarly
<1> DEFINE z == y - 1
<1>10. z \in 1 .. Len(s) /\ z < Len(s) /\ z < y /\ (x = z \/ x < z) /\ z # y
  BY <1>0, <1>8
<1> HIDE DEF z
<1>11. ~Early(c, n, s, z)
  BY <1>5, <1>10, NotEarly
<1>12. PlaceAt(c, n, s, z) < j
  <2>1. PlaceAt(c, n, s, z) <= j
    BY <1>1, <1>10, PlacesOrdered
  <2>2. s[z] # DefEvent(Dummy)
    BY <1>11 DEF Early
  <2>3. PlaceAt(c, n, s, z) # j
    BY <1>1, <1>10, <2>2, BlockEventAlone
  <2>4. PlaceAt(c, n, s, z) \in Int
    BY <1>10, EventPlaces
  <2>5. QED
    BY <1>7, <2>1, <2>3, <2>4
<1>13. QED
  BY <1>1, <1>9, <1>10, <1>11, <1>12 DEF z, j

\* A name that is live after the event before a Jump is live at the jump node.
LEMMA LiveToJump ==
  ASSUME NEW c, Structured(c), NEW n, NEW atEnd, IsFiniteSet(atEnd), NEW s,
         EndChain(c, n, atEnd, s), NEW x \in 1 .. Len(s), x < Len(s),
         NEW q, q = PlaceAt(c, n, s, x + 1), PlaceAt(c, n, s, x) < q,
         q \in 1 .. Len(c), PlaceAt(c, n, s, x) + 1 \in LivePlaces(c, n, atEnd)
  PROVE  q \in LivePlaces(c, n, atEnd)
<1> DEFINE p == PlaceAt(c, n, s, x)
           a == p + 1
           z == q - 1
<1>0. Len(c) \in Nat /\ Len(s) \in Nat /\ n \in NamesOf(c)
  BY StructuredParts, EndChainFacts DEF EndChain
<1>1. p \in 1 .. Len(c) + 1
  BY EventPlaces
<1>2. /\ q \in a .. Len(c) + 1
      /\ \A i \in a .. q - 1 :
           /\ i \in 1 .. Len(c) /\ ~UsedAt(c, n, i)
           /\ \A y \in 1 .. Len(s) : PlaceAt(c, n, s, y) # i
  BY LiveBetween
<1>3. a \in LivePlaces(c, n, atEnd)
  OBVIOUS
<1> HIDE DEF p
<1>4. CASE a = q
  BY <1>3, <1>4
<1>5. CASE a # q
  <2>1. a \in 1 .. Len(c) /\ z \in a .. Len(c) /\ z + 1 = q /\ a \in a .. z
    BY <1>0, <1>1, <1>2, <1>5
  <2>2. ASSUME NEW i \in a .. z
        PROVE  ~UsedAt(c, n, i) /\ (LoopEnd(c, i) => a <= c[i].blk)
    <3>1. i \in 1 .. Len(c) /\ ~UsedAt(c, n, i) /\ \A y \in 1 .. Len(s) : PlaceAt(c, n, s, y) # i
      BY <1>2
    <3>2. ASSUME LoopEnd(c, i)
          PROVE  a <= c[i].blk
      <4> DEFINE b == c[i].blk
      <4>1. b \in Blocks(c) /\ Closing(c, b) = i /\ b \in 1 .. Len(c)
        BY <3>1, <3>2, ClosingOfJump DEF LoopEnd, Blocks
      <4> HIDE DEF b
      <4>2. ~Referred(c, n, b)
        <5> SUFFICES ASSUME Referred(c, n, b)
                     PROVE  FALSE
          OBVIOUS
        <5>1. JumpOf(c, b) \in EndEvents(c, n, atEnd)
          BY <4>1, EndEventsAre
        <5>2. PICK y \in 1 .. Len(s) : s[y] = JumpOf(c, b)
          BY <5>1, EndChainFacts
        <5>3. PlaceAt(c, n, s, y) = i
          BY <4>1, <5>2, BlockEventFacts DEF PlaceAt
        <5>4. QED
          BY <3>1, <5>3
      <4>3. p < b \/ i < p
        BY <4>1, <4>2, BlockEmpty DEF p
      <4>4. a <= b
        BY <1>1, <3>1, <4>1, <4>3
      <4>5. QED
        BY <4>4 DEF b
    <3>3. QED
      BY <3>1, <3>2
  <2> HIDE DEF a, z
  <2>3. z + 1 \in LivePlaces(c, n, atEnd)
    BY <1>0, <1>3, <2>1, <2>2, LiveGap
  <2>4. QED
    BY <2>1, <2>3
<1>6. QED
  BY <1>4, <1>5

\* A name that a loop does not refer to is live after it if it is live at its start.
LEMMA LoopRefers ==
  ASSUME NEW c, Structured(c), NEW n \in NamesOf(c), NEW atEnd, IsFiniteSet(atEnd),
         NEW b \in Blocks(c), b \in LivePlaces(c, n, atEnd),
         Closing(c, b) + 1 \notin LivePlaces(c, n, atEnd)
  PROVE  Referred(c, n, b)
<1> DEFINE j == Closing(c, b)
<1> SUFFICES ASSUME ~Referred(c, n, b)
             PROVE  FALSE
  OBVIOUS
<1>1. /\ b \in 1 .. Len(c) /\ c[b].op = "enter" /\ j \in b + 1 .. Len(c)
      /\ c[j].op = "jump"
  BY ClosingFacts
<1>2. j + 1 \notin LivePlaces(c, n, atEnd)
  OBVIOUS
<1>3. ASSUME NEW i \in b .. j
      PROVE  ~UsedAt(c, n, i) /\ (LoopEnd(c, i) => b <= c[i].blk)
  <2>0. i \in 1 .. Len(c)
    BY <1>1
  <2>1. ~UsedAt(c, n, i)
    <3> SUFFICES ASSUME UsedAt(c, n, i)
                 PROVE  FALSE
      OBVIOUS
    <3>1. PICK e \in References(c, n) : At(c, 0, e) = i
      BY UsedIs
    <3>2. c[i].op \notin {"enter", "jump"}
      BY <3>1, ReferencesOf, ReferenceFacts
    <3>3. b < i /\ i < j
      <4>1. i # b /\ i # j
        BY <1>1, <3>2
      <4> HIDE DEF j
      <4>2. QED
        BY <1>1, <4>1
    <3>4. QED
      BY <3>1, <3>3 DEF Referred
  <2>2. ASSUME LoopEnd(c, i)
        PROVE  b <= c[i].blk
    <3> DEFINE a == c[i].blk
    <3>1. a \in Blocks(c) /\ Closing(c, a) = i /\ a \in 1 .. Len(c)
      BY <2>0, <2>2, ClosingOfJump DEF LoopEnd, Blocks
    <3> HIDE DEF a
    <3>2. a < b => i < b \/ j < i
      BY <3>1, ClosingNested
    <3> HIDE DEF j
    <3>3. b <= a
      BY <1>1, <3>1, <3>2
    <3>4. QED
      BY <3>3 DEF a
  <2>3. QED
    BY <2>1, <2>2
<1> HIDE DEF j
<1>4. j \in b .. Len(c) /\ b \in b .. j
  BY <1>1
<1>5. j + 1 \in LivePlaces(c, n, atEnd)
  BY <1>1, <1>3, <1>4, LiveGap
<1>6. QED
  BY <1>2, <1>5

\* The names that a loop is to delete, in terms of its block.
LEMMA DeadIs ==
  ASSUME NEW c, Structured(c), NEW atEnd, NEW p
  PROVE  p \in DeadAfterLoop(c, atEnd) <=>
           \E b \in Blocks(c), n \in NamesOf(c) :
             /\ HasBackBranch(c[b].kind) /\ p = <<b, n>>
             /\ b \in LivePlaces(c, n, atEnd)
             /\ Closing(c, b) + 1 \notin LivePlaces(c, n, atEnd)
<1> DEFINE live == Live(c, Consumers(c), atEnd)
           Jumps == {j \in DOMAIN c : c[j].op = "jump" /\ HasBackBranch(c[j].kind)}
<1>0. Len(c) \in Nat /\ DOMAIN c = 1 .. Len(c)
  BY StructuredParts
<1>1. p \in DeadAfterLoop(c, atEnd) <=>
        \E j \in Jumps : \E n \in NamesOf(c) :
          /\ p = <<c[j].blk, n>> /\ <<c[j].blk, n>> \in live
          /\ <<Succ(c, j, FALSE), n>> \notin live
  <2> HIDE DEF live
  <2> DEFINE Dead(j) == {<<c[j].blk, n>> : n \in
                         {m \in NamesOf(c) : /\ <<c[j].blk, m>> \in live
                                             /\ <<Succ(c, j, FALSE), m>> \notin live}}
  <2>1. DeadAfterLoop(c, atEnd) = UNION {Dead(j) : j \in Jumps}
    BY DEF DeadAfterLoop, live
  <2>2. \A j \in Jumps : p \in Dead(j) <=>
          \E n \in NamesOf(c) : /\ p = <<c[j].blk, n>> /\ <<c[j].blk, n>> \in live
                                /\ <<Succ(c, j, FALSE), n>> \notin live
    OBVIOUS
  <2> HIDE DEF Dead, Jumps
  <2>3. p \in DeadAfterLoop(c, atEnd) <=> \E j \in Jumps : p \in Dead(j)
    BY <2>1
  <2>4. QED
    BY <2>2, <2>3
<1> HIDE DEF live
<1>2. ASSUME NEW j \in 1 .. Len(c), c[j].op = "jump", NEW n
      PROVE  /\ c[j].blk \in Blocks(c) /\ Closing(c, c[j].blk) = j
             /\ c[c[j].blk].kind = c[j].kind
             /\ <<c[j].blk, n>> \in live <=> c[j].blk \in LivePlaces(c, n, atEnd)
             /\ <<Succ(c, j, FALSE), n>> \in live <=> j + 1 \in LivePlaces(c, n, atEnd)
  <2> DEFINE b == c[j].blk
             q == j + 1
  <2>1. b \in Blocks(c) /\ Closing(c, b) = j
    BY <1>2, ClosingOfJump
  <2> HIDE DEF b
  <2>2. b \in 1 .. Len(c) /\ c[j].kind = c[b].kind
    BY <2>1, ClosingFacts
  <2>3. <<b, n>> \in live <=> b \in LivePlaces(c, n, atEnd)
    <3>1. b \in 1 .. Len(c) + 1 /\ PlaceOf(c, b) = b
      BY <1>0, <2>2 DEF PlaceOf
    <3>2. QED
      BY <3>1 DEF LivePlaces, live
  <2>4. <<Succ(c, j, FALSE), n>> \in live <=> q \in LivePlaces(c, n, atEnd)
    <3>1. q \in 1 .. Len(c) + 1 /\ PlaceOf(c, q) = Succ(c, j, FALSE)
      BY <1>0 DEF PlaceOf, Succ
    <3> HIDE DEF q
    <3>2. QED
      BY <3>1 DEF LivePlaces, live
  <2>5. QED
    BY <2>1, <2>2, <2>3, <2>4 DEF b
<1>3. ASSUME p \in DeadAfterLoop(c, atEnd)
      PROVE  \E b \in Blocks(c), n \in NamesOf(c) :
               /\ HasBackBranch(c[b].kind) /\ p = <<b, n>>
               /\ b \in LivePlaces(c, n, atEnd)
               /\ Closing(c, b) + 1 \notin LivePlaces(c, n, atEnd)
  <2>1. PICK j \in Jumps : \E n \in NamesOf(c) :
          /\ p = <<c[j].blk, n>> /\ <<c[j].blk, n>> \in live
          /\ <<Succ(c, j, FALSE), n>> \notin live
    BY <1>1, <1>3
  <2>2. PICK n \in NamesOf(c) :
          /\ p = <<c[j].blk, n>> /\ <<c[j].blk, n>> \in live
          /\ <<Succ(c, j, FALSE), n>> \notin live
    BY <2>1
  <2>3. j \in 1 .. Len(c) /\ c[j].op = "jump" /\ HasBackBranch(c[j].kind)
    BY <1>0
  <2>4. QED
    BY <1>2, <2>2, <2>3
<1>4. ASSUME NEW b \in Blocks(c), NEW n \in NamesOf(c),
             HasBackBranch(c[b].kind), p = <<b, n>>,
             b \in LivePlaces(c, n, atEnd),
             Closing(c, b) + 1 \notin LivePlaces(c, n, atEnd)
      PROVE  p \in DeadAfterLoop(c, atEnd)
  <2> DEFINE j == Closing(c, b)
  <2>1. /\ j \in b + 1 .. Len(c) /\ c[j].op = "jump" /\ c[j].blk = b
        /\ c[j].kind = c[b].kind /\ b \in 1 .. Len(c)
    BY ClosingFacts
  <2> HIDE DEF j
  <2>2. j \in 1 .. Len(c) /\ j \in Jumps
    BY <1>0, <1>4, <2>1
  <2>3. <<c[j].blk, n>> \in live /\ <<Succ(c, j, FALSE), n>> \notin live
    BY <1>2, <1>4, <2>1, <2>2 DEF j
  <2>4. QED
    BY <1>1, <1>4, <2>1, <2>2, <2>3
<1>5. QED
  BY <1>3, <1>4

\* A jump node deletes a name if it leaves a loop that kept the value.
LEMMA MarkOfJump ==
  ASSUME NEW c, Structured(c), NEW n, NEW atEnd, IsFiniteSet(atEnd), NEW s,
         EndChain(c, n, atEnd, s), NEW k, Stable(s, k),
         \A x \in 1 .. Len(s) : k[x] => LiveEvent(c, n, atEnd, s, x),
         NEW y \in 1 .. Len(s), NEW b \in Blocks(c), Referred(c, n, b), s[y] = JumpOf(c, b)
  PROVE  ~k[y] /\ k[y - 1] <=>
           /\ HasBackBranch(c[b].kind)
           /\ b \in LivePlaces(c, n, atEnd)
           /\ Closing(c, b) + 1 \notin LivePlaces(c, n, atEnd)
<1> DEFINE j == Closing(c, b)
           L == LivePlaces(c, n, atEnd)
           z == y - 1
<1>0. Len(c) \in Nat /\ n \in NamesOf(c) /\ Len(s) \in Nat
  BY StructuredParts, EndChainFacts DEF EndChain
<1>1. /\ b \in 1 .. Len(c) /\ j \in 1 .. Len(c) /\ c[j].op = "jump" /\ c[j].blk = b
      /\ c[j].kind = c[b].kind
  BY <1>0, ClosingFacts
<1>2. /\ z \in 1 .. Len(s) /\ z < Len(s)
      /\ ~Early(c, n, s, y) /\ ~Early(c, n, s, z)
      /\ PlaceAt(c, n, s, y) = j /\ PlaceAt(c, n, s, z) < j
  BY BeforeJump
<1>3. z + 1 = y
  BY <1>0
<1>4. s[y].type = "Jump"
  BY BlockEventFacts
<1> HIDE DEF z, j
<1>5. k[y] <=> j + 1 \in L
  <2>1. k[y] <=> LiveEvent(c, n, atEnd, s, y)
    BY <1>2, MarksAre
  <2>2. LiveEvent(c, n, atEnd, s, y) <=> PlaceAt(c, n, s, y) + 1 \in LivePlaces(c, n, atEnd)
    BY <1>2, <1>4, LiveAtBlock
  <2>3. QED
    BY <1>2, <2>1, <2>2
<1>6. k[z] <=> j \in L
  <2>1. k[z] <=> LiveEvent(c, n, atEnd, s, z)
    BY <1>2, MarksAre
  <2>2. ~SameNode(c, n, s, z)
    <3>1. PlaceAt(c, n, s, z) # j
      <4>1. PlaceAt(c, n, s, z) \in Int
        BY <1>2, EventPlaces
      <4>2. QED
        BY <1>2, <4>1
    <3>2. QED
      BY <1>2, <1>3, <3>1 DEF SameNode
  <2>3. k[z] <=> PlaceAt(c, n, s, z) + 1 \in L
    BY <1>2, <2>1, <2>2 DEF LiveEvent
  <2>4. j = PlaceAt(c, n, s, z + 1)
    BY <1>2, <1>3
  <2>5. j \in L => PlaceAt(c, n, s, z) + 1 \in L
    BY <1>2, <2>4, LiveBetween
  <2>6. PlaceAt(c, n, s, z) + 1 \in L => j \in L
    BY <1>1, <1>2, <2>4, LiveToJump
  <2>7. QED
    BY <2>3, <2>5, <2>6
<1>7. j \in L <=> j + 1 \in L \/ (HasBackBranch(c[b].kind) /\ b \in L)
  <2>1. ~UsedAt(c, n, j) /\ n \notin DefsAt(c, j)
    BY <1>2, <1>4, BlockEventAlone
  <2>2. LoopEnd(c, j) <=> HasBackBranch(c[b].kind)
    BY <1>1 DEF LoopEnd
  <2>3. j \in L <=> j + 1 \in L \/ (LoopEnd(c, j) /\ c[j].blk \in L)
    BY <1>0, <1>1, <2>1, LivePlacesFacts
  <2>4. QED
    BY <1>1, <2>2, <2>3
<1> HIDE DEF L
<1>8. ~k[y] /\ k[z] <=> HasBackBranch(c[b].kind) /\ b \in L /\ j + 1 \notin L
  BY <1>5, <1>6, <1>7
<1>9. QED
  BY <1>8 DEF z, j, L

\* EventChain::setLastUse gives the jump nodes exactly these names to delete.
LEMMA DeletesAre ==
  ASSUME NEW c, Structured(c), NEW atEnd, IsFiniteSet(atEnd), NEW r, NEW k,
         Settles(c, atEnd, r, k)
  PROVE  DeletesOnForward(r, k) = DeadAfterLoop(c, atEnd)
<1>1. ASSUME NEW n \in DOMAIN r.chain
      PROVE  /\ EndChain(c, n, atEnd, r.chain[n]) /\ Stable(r.chain[n], k[n])
             /\ DOMAIN r.chain[n] = 1 .. Len(r.chain[n])
             /\ \A x \in 1 .. Len(r.chain[n]) :
                  k[n][x] => LiveEvent(c, n, atEnd, r.chain[n], x)
  BY EndChainFacts DEF Settles, Sound
<1>2. ASSUME NEW p
      PROVE  p \in DeletesOnForward(r, k) <=>
               \E n \in DOMAIN r.chain : \E y \in DOMAIN r.chain[n] :
                 /\ r.chain[n][y].type = "Jump" /\ ~k[n][y] /\ k[n][y - 1]
                 /\ p = <<r.chain[n][y].blk, n>>
  BY DEF DeletesOnForward
<1>3. ASSUME NEW p, p \in DeletesOnForward(r, k)
      PROVE  p \in DeadAfterLoop(c, atEnd)
  <2>1. PICK n \in DOMAIN r.chain : \E y \in DOMAIN r.chain[n] :
          /\ r.chain[n][y].type = "Jump" /\ ~k[n][y] /\ k[n][y - 1]
          /\ p = <<r.chain[n][y].blk, n>>
    BY <1>2, <1>3
  <2> DEFINE s == r.chain[n]
  <2>2. PICK y \in DOMAIN s :
          s[y].type = "Jump" /\ ~k[n][y] /\ k[n][y - 1] /\ p = <<s[y].blk, n>>
    BY <2>1
  <2>3. /\ y \in 1 .. Len(s) /\ EndChain(c, n, atEnd, s) /\ Stable(s, k[n])
        /\ \A x \in 1 .. Len(s) : k[n][x] => LiveEvent(c, n, atEnd, s, x)
    BY <1>1
  <2> HIDE DEF s
  <2>4. PICK b \in Blocks(c) : Referred(c, n, b) /\ s[y] = JumpOf(c, b)
    BY <2>2, <2>3, EventPlaces
  <2>5. p = <<b, n>>
    BY <2>2, <2>4, BlockEventFacts
  <2>6. /\ HasBackBranch(c[b].kind) /\ b \in LivePlaces(c, n, atEnd)
        /\ Closing(c, b) + 1 \notin LivePlaces(c, n, atEnd)
    <3> DEFINE g == k[n]
    <3>1. ~g[y] /\ g[y - 1] /\ Stable(s, g)
      BY <2>2, <2>3
    <3>2. \A x \in 1 .. Len(s) : g[x] => LiveEvent(c, n, atEnd, s, x)
      BY <2>3
    <3> HIDE DEF g
    <3>3. QED
      BY <2>3, <2>4, <3>1, <3>2, MarkOfJump
  <2>7. n \in NamesOf(c)
    BY <2>3 DEF EndChain
  <2>8. QED
    BY <2>5, <2>6, <2>7, DeadIs
<1>4. ASSUME NEW p, p \in DeadAfterLoop(c, atEnd)
      PROVE  p \in DeletesOnForward(r, k)
  <2>1. \E b \in Blocks(c), n \in NamesOf(c) :
          /\ HasBackBranch(c[b].kind) /\ p = <<b, n>>
          /\ b \in LivePlaces(c, n, atEnd)
          /\ Closing(c, b) + 1 \notin LivePlaces(c, n, atEnd)
    BY <1>4, DeadIs
  <2>2. PICK b \in Blocks(c) : \E n \in NamesOf(c) :
          /\ HasBackBranch(c[b].kind) /\ p = <<b, n>>
          /\ b \in LivePlaces(c, n, atEnd)
          /\ Closing(c, b) + 1 \notin LivePlaces(c, n, atEnd)
    BY <2>1
  <2>3. PICK n \in NamesOf(c) :
          /\ HasBackBranch(c[b].kind) /\ p = <<b, n>>
          /\ b \in LivePlaces(c, n, atEnd)
          /\ Closing(c, b) + 1 \notin LivePlaces(c, n, atEnd)
    BY <2>2
  <2>4. Referred(c, n, b)
    BY <2>3, LoopRefers
  <2>5. n \in DOMAIN r.chain
    BY DEF Settles, Sound
  <2> DEFINE s == r.chain[n]
  <2>6. /\ EndChain(c, n, atEnd, s) /\ Stable(s, k[n]) /\ DOMAIN s = 1 .. Len(s)
        /\ \A x \in 1 .. Len(s) : k[n][x] => LiveEvent(c, n, atEnd, s, x)
    BY <1>1, <2>5
  <2> HIDE DEF s
  <2>7. JumpOf(c, b) \in EndEvents(c, n, atEnd)
    BY <2>4, EndEventsAre
  <2>8. PICK y \in 1 .. Len(s) : s[y] = JumpOf(c, b)
    BY <2>6, <2>7, EndChainFacts
  <2>9. ~k[n][y] /\ k[n][y - 1]
    BY <2>3, <2>4, <2>6, <2>8, MarkOfJump
  <2>10. s[y].type = "Jump" /\ p = <<s[y].blk, n>> /\ y \in DOMAIN s
    BY <2>3, <2>6, <2>8, BlockEventFacts
  <2>11. QED
    BY <1>2, <2>5, <2>9, <2>10 DEF s
<1>5. QED
  BY <1>3, <1>4

-------------------------------------------------------------------------------
(* The passes *)

\* The names that are live at the end of the graph.
LEMMA AtEndFacts ==
  ASSUME Recording
  PROVE  /\ Structured(code) /\ IsFiniteSet(AtEnd)
         /\ \A n \in NamesOf(code) : EndUses(n \in AtEnd) = EndUses(keepLiveAtEnd)
<1>1. Structured(code)
  BY CodesAssumption DEF Recording
<1>2. IsFiniteSet(AtEnd)
  BY <1>1, NamesFinite, FS_EmptySet DEF AtEnd
<1>3. \A n \in NamesOf(code) : n \in AtEnd <=> keepLiveAtEnd
  BY DEF AtEnd, Recording
<1>4. \A n \in NamesOf(code) : EndUses(n \in AtEnd) = EndUses(keepLiveAtEnd)
  BY <1>3 DEF EndUses
<1>5. QED
  BY <1>1, <1>2, <1>4

\* Every chain holds what is recorded of its name, to the end of the graph.
LEMMA ChainsAreEnded ==
  ASSUME Recording, NEW r, RecordedAll(code, TRUE, EndUses(keepLiveAtEnd), r)
  PROVE  /\ \A n : n \in DOMAIN r.chain <=> n \in NamesOf(code)
         /\ \A n \in DOMAIN r.chain : EndChain(code, n, AtEnd, r.chain[n])
<1>1. \A n : n \in DOMAIN r.chain <=> n \in NamesOf(code)
  BY AtEndFacts, NamesIs DEF RecordedAll
<1>2. ASSUME NEW n \in DOMAIN r.chain
      PROVE  EndChain(code, n, AtEnd, r.chain[n])
  <2>1. n \in NamesOf(code)
    BY <1>1
  <2>2. Lists(code, Opening(code, n), r.chain[n],
              ChainEvents(code, n, TRUE, Len(code) + 1, EndUses(keepLiveAtEnd)))
    BY DEF RecordedAll
  <2>3. EndUses(n \in AtEnd) = EndUses(keepLiveAtEnd)
    BY <2>1, AtEndFacts
  <2>4. QED
    BY <2>1, <2>2, <2>3 DEF EndChain, EndEvents
<1>3. QED
  BY <1>1, <1>2

\* No pass has been made.
LEMMA StartIsSound ==
  ASSUME Recording, StartKeepLive
  PROVE  Sound(code, AtEnd, rec', keep')
<1>1. Recording' /\ rec' = EndRecording(rec, keepLiveAtEnd)
  BY NextRecording DEF StartKeepLive, Next
<1>2. RecordedAll(code, TRUE, EndUses(keepLiveAtEnd), rec')
  BY <1>1 DEF StartKeepLive, Recording
<1> DEFINE r == rec'
           k == keep'
<1>3. k = [n \in DOMAIN r.chain |-> [i \in DOMAIN r.chain[n] |-> FALSE]]
  BY <1>1 DEF StartKeepLive
<1>4. RecordedAll(code, TRUE, EndUses(keepLiveAtEnd), r)
  BY <1>2
<1> HIDE DEF r, k
<1>5. /\ \A n : n \in DOMAIN r.chain <=> n \in NamesOf(code)
      /\ \A n \in DOMAIN r.chain : EndChain(code, n, AtEnd, r.chain[n])
  BY <1>4, ChainsAreEnded
<1>6. ASSUME NEW n \in DOMAIN r.chain
      PROVE  /\ k[n] \in [1 .. Len(r.chain[n]) -> BOOLEAN]
             /\ \A x \in 1 .. Len(r.chain[n]) : ~k[n][x]
  <2>1. DOMAIN r.chain[n] = 1 .. Len(r.chain[n])
    BY <1>5, AtEndFacts, EndChainFacts
  <2>2. k[n] = [i \in DOMAIN r.chain[n] |-> FALSE]
    BY <1>3
  <2>3. QED
    BY <2>1, <2>2
<1>7. Sound(code, AtEnd, r, k)
  BY <1>5, <1>6 DEF Sound
<1>8. QED
  BY <1>7 DEF r, k

\* One more pass keeps the marks sound.
LEMMA PassIsSoundToo ==
  ASSUME Recording, Sound(code, AtEnd, rec, keep)
  PROVE  Sound(code, AtEnd, rec, Passed)
<1> DEFINE p == Passed
<1>1. ASSUME NEW n \in DOMAIN rec.chain
      PROVE  /\ p[n] \in [1 .. Len(rec.chain[n]) -> BOOLEAN]
             /\ \A x \in 1 .. Len(rec.chain[n]) :
                  p[n][x] => LiveEvent(code, n, AtEnd, rec.chain[n], x)
  <2> DEFINE s == rec.chain[n]
             k == keep[n]
  <2>1. /\ EndChain(code, n, AtEnd, s) /\ k \in [1 .. Len(s) -> BOOLEAN]
        /\ \A x \in 1 .. Len(s) : k[x] => LiveEvent(code, n, AtEnd, s, x)
    BY DEF Sound
  <2>2. p[n] = KeepLivePass(s, k)
    BY DEF Passed
  <2> HIDE DEF s, k, p
  <2>3. /\ KeepLivePass(s, k) \in [1 .. Len(s) -> BOOLEAN]
        /\ \A x \in 1 .. Len(s) :
             KeepLivePass(s, k)[x] => LiveEvent(code, n, AtEnd, s, x)
    BY <2>1, AtEndFacts, PassIsSound
  <2>4. QED
    BY <2>2, <2>3 DEF s
<1> HIDE DEF p
<1>2. Sound(code, AtEnd, rec, p)
  BY <1>1 DEF Sound
<1>3. QED
  BY <1>2 DEF p

\* Nothing is marked before the recorder has visited the whole graph.
LEMMA InitMarking ==
  ASSUME Init
  PROVE  Marking
BY InitRecording DEF Init, Marking

\* Every step of the analysis keeps the marks sound, and the last finds them exact.
LEMMA NextMarking ==
  ASSUME Marking, [Next]_vars
  PROVE  Marking'
<1>1. Recording /\ Recording'
  BY NextRecording DEF Marking
<1>2. CASE VisitNode
  BY <1>1, <1>2 DEF VisitNode, Marking
<1>3. CASE StartKeepLive
  <2>1. Sound(code, AtEnd, rec', keep')
    BY <1>1, <1>3, StartIsSound
  <2>2. /\ code' = code /\ AtEnd' = AtEnd /\ phase' = "keepLive"
    BY <1>3 DEF StartKeepLive, AtEnd
  <2>3. QED
    BY <1>1, <2>1, <2>2 DEF Marking
<1>4. CASE PassKeepLive
  <2>1. Sound(code, AtEnd, rec, keep)
    BY <1>4 DEF PassKeepLive, Marking
  <2>2. Sound(code, AtEnd, rec, Passed)
    BY <1>1, <2>1, PassIsSoundToo
  <2>3. /\ code' = code /\ AtEnd' = AtEnd /\ phase' = "keepLive" /\ rec' = rec
        /\ keep' = Passed
    BY <1>4 DEF PassKeepLive, AtEnd
  <2>4. QED
    BY <1>1, <2>2, <2>3 DEF Marking
<1>5. CASE SetLastUse
  <2>1. Sound(code, AtEnd, rec, keep) /\ Passed = keep
    BY <1>5 DEF SetLastUse, Marking
  <2>2. \A n \in DOMAIN rec.chain : Stable(rec.chain[n], keep[n])
    <3>1. \A n \in DOMAIN rec.chain : Passed[n] = KeepLivePass(rec.chain[n], keep[n])
      BY DEF Passed
    <3>2. QED
      BY <2>1, <3>1 DEF Sound, Stable
  <2>3. Settles(code, AtEnd, rec, keep)
    BY <2>1, <2>2 DEF Settles
  <2>4. /\ code' = code /\ AtEnd' = AtEnd /\ rec' = rec /\ keep' = keep
        /\ last' = LastUses(rec, keep) /\ deletes' = DeletesOnForward(rec, keep)
    BY <1>5 DEF SetLastUse, AtEnd
  <2>5. QED
    BY <1>1, <2>1, <2>3, <2>4 DEF Marking
<1>6. CASE UNCHANGED vars
  <2>1. /\ code' = code /\ AtEnd' = AtEnd /\ rec' = rec /\ keep' = keep /\ phase' = phase
        /\ last' = last /\ deletes' = deletes
    BY <1>6 DEF vars, AtEnd
  <2>2. QED
    BY <1>1, <2>1 DEF Marking
<1>7. QED
  BY <1>2, <1>3, <1>4, <1>5, <1>6 DEF Next

\* In every state the marks are sound, and exact when the analysis is done.
THEOREM MarkingCorrect == Spec => []Marking
<1>1. Init => Marking
  BY InitMarking
<1>2. Marking /\ [Next]_vars => Marking'
  BY NextMarking
<1>3. QED
  BY <1>1, <1>2, PTL DEF Spec

\* calc::setLastUse marks exactly the occurrences after which no path uses the value.
THEOREM LastUsesCorrect == Spec => []LastUseExact
<1>1. Marking => LastUseExact
  <2> SUFFICES ASSUME Marking, phase = "done"
               PROVE  last = LastOccurrences(code, AtEnd)
    BY DEF LastUseExact
  <2>1. Recording /\ Settles(code, AtEnd, rec, keep) /\ last = LastUses(rec, keep)
    BY DEF Marking
  <2>2. QED
    BY <2>1, AtEndFacts, LastUsesAre
<1>2. QED
  BY <1>1, MarkingCorrect, PTL

\* The jump nodes of loops, and no others, delete the values kept for the next iteration.
THEOREM DeletesCorrect == Spec => []DeletesExact
<1>1. Marking => DeletesExact
  <2> SUFFICES ASSUME Marking, phase = "done"
               PROVE  deletes = DeadAfterLoop(code, AtEnd)
    BY DEF DeletesExact
  <2>1. /\ Recording /\ Settles(code, AtEnd, rec, keep)
        /\ deletes = DeletesOnForward(rec, keep)
    BY DEF Marking
  <2>2. QED
    BY <2>1, AtEndFacts, DeletesAre
<1>2. QED
  BY <1>1, MarkingCorrect, PTL

-------------------------------------------------------------------------------
(* What a run finds on its stack when it visits a node *)

\* The parts of a script that can be executed.
LEMMA ExecutableParts ==
  ASSUME NEW c, NEW names, Executable(c, names)
  PROVE  /\ Structured(c) /\ Balanced(c, Waiting(c))
         /\ Len(c) \in Nat \ {0} /\ DOMAIN c = 1 .. Len(c)
         /\ \A i \in 1 .. Len(c) :
              /\ IsDeferred(c[i]) =>
                   /\ c[i].k = 2 /\ c[i].r = 1 /\ i < Len(c)
                   /\ c[i + 1].op = "ass" /\ Len(c[i + 1].lhs) = 1
                   /\ c[i + 1].lhs[1] \notin names
              /\ c[i].op = "nonass" =>
                   i < Len(c) /\ c[i + 1].op = "jump" /\ c[i + 1].kind = "repeat"
              /\ c[i].op = "jump" /\ c[i].kind = "repeat" => i > 1 /\ c[i - 1].op = "nonass"
<1>1. Structured(c) /\ Balanced(c, Waiting(c))
  BY DEF Executable
<1>2. Len(c) \in Nat \ {0} /\ DOMAIN c = 1 .. Len(c)
  BY <1>1, StructuredParts
<1>3. QED
  BY <1>1, <1>2 DEF Executable

\* A node that leaves nothing to the next one takes and leaves what it pops and pushes.
LEMMA PlainNode ==
  ASSUME NEW c, NEW names, Executable(c, names), NEW i \in 1 .. Len(c),
         ~Late(c, i), ~IsDeferred(c[i]), c[i].op # "nonass"
  PROVE  Takes(c, i) = Pops(c[i]) /\ Leaves(c, i) = Pushes(c[i])
<1>1. ~AfterDeferred(c, i)
  BY DEF AfterDeferred, Late
<1>2. ~(c[i].op = "jump" /\ c[i].kind = "repeat")
  BY ExecutableParts DEF Late
<1>3. QED
  BY <1>1, <1>2 DEF Takes, Leaves, Pops, Pushes

\* A node that leaves its operands to the next one, and that one.
LEMMA LatePair ==
  ASSUME NEW c, NEW names, Executable(c, names), NEW i \in 1 .. Len(c),
         IsDeferred(c[i]) \/ c[i].op = "nonass"
  PROVE  /\ i + 1 \in 1 .. Len(c) /\ c[i].op # "par" /\ c[i + 1].op \in {"ass", "jump"}
         /\ Takes(c, i) = 0 /\ Leaves(c, i) = 0
         /\ Takes(c, i + 1) = Pops(c[i]) /\ Leaves(c, i + 1) = 0
         /\ ~Late(c, i) /\ Late(c, i + 1) /\ ~Late(c, i + 2)
         /\ Depth(c)[i + 1] - Pops(c[i + 1]) = Depth(c)[i] - Pops(c[i])
         /\ Depth(c)[i + 2] = Depth(c)[i] - Pops(c[i])
         /\ c[i + 1].op = "ass" => IsDeferred(c[i])
<1>1. /\ i < Len(c) /\ Len(c) \in Nat
      /\ IsDeferred(c[i]) => /\ c[i].k = 2 /\ c[i].r = 1 /\ c[i + 1].op = "ass"
                             /\ Len(c[i + 1].lhs) = 1
      /\ c[i].op = "nonass" => c[i + 1].op = "jump" /\ c[i + 1].kind = "repeat"
  BY ExecutableParts
<1>2. i + 1 \in 1 .. Len(c)
  BY <1>1
<1>3. /\ c[i].op \in {"expr", "nonass"} /\ c[i + 1].op \in {"ass", "jump"}
      /\ IsDeferred(c[i]) <=> c[i].op = "expr"
  BY <1>1 DEF IsDeferred
<1>4. Takes(c, i) = 0 /\ Leaves(c, i) = 0
  BY <1>3 DEF Takes, Leaves
<1>5. Takes(c, i + 1) = Pops(c[i]) /\ Leaves(c, i + 1) = 0
  <2>1. AfterDeferred(c, i + 1) <=> IsDeferred(c[i])
    BY DEF AfterDeferred
  <2>2. QED
    BY <1>1, <1>3, <2>1 DEF Takes, Leaves, Pops
<1>6. ~Late(c, i)
  <2>1. SUFFICES ASSUME Late(c, i)
                 PROVE  FALSE
    OBVIOUS
  <2>2. i - 1 \in 1 .. Len(c) /\ (IsDeferred(c[i - 1]) \/ c[i - 1].op = "nonass")
    BY <2>1, <1>1 DEF Late
  <2>3. c[(i - 1) + 1].op \in {"ass", "jump"}
    BY <2>2, ExecutableParts
  <2>4. QED
    BY <1>3, <2>3
<1>7. Late(c, i + 1)
  BY DEF Late
<1>8. ~Late(c, i + 2)
  <2>1. (i + 2) - 1 = i + 1
    OBVIOUS
  <2>2. QED
    BY <1>3, <2>1 DEF Late, IsDeferred
<1>9. /\ Depth(c)[i] \in Nat /\ Depth(c)[i + 1] = (Depth(c)[i] - Pops(c[i])) + Pushes(c[i])
      /\ Depth(c)[(i + 1) + 1] = (Depth(c)[i + 1] - Pops(c[i + 1])) + Pushes(c[i + 1])
      /\ Pops(c[i]) \in Nat /\ Pops(c[i + 1]) \in Nat
  BY <1>1, <1>2, ExecutableParts, DepthFacts, PopsNat
<1>10. Pushes(c[i]) = Pops(c[i + 1]) /\ Pushes(c[i + 1]) = 0
  BY <1>1, <1>3 DEF Pops, Pushes
<1>11. (i + 1) + 1 = i + 2
  OBVIOUS
<1>12. /\ Depth(c)[i + 1] - Pops(c[i + 1]) = Depth(c)[i] - Pops(c[i])
       /\ Depth(c)[i + 2] = Depth(c)[i] - Pops(c[i])
  BY <1>9, <1>10, <1>11
<1>13. c[i + 1].op = "ass" => IsDeferred(c[i])
  BY <1>1
<1>14. QED
  BY <1>2, <1>3, <1>4, <1>5, <1>6, <1>7, <1>8, <1>12, <1>13

\* A sequence that is followed by a number of equal entries.
LEMMA ThenEqual ==
  ASSUME NEW S, NEW low \in Seq(S), NEW new \in Seq(S),
         NEW e \in S, \A a \in 1 .. Len(new) : new[a] = e
  PROVE  /\ Len(low \o new) = Len(low) + Len(new)
         /\ \A a \in 1 .. Len(low) : (low \o new)[a] = low[a]
         /\ \A a \in Len(low) + 1 .. Len(low) + Len(new) : (low \o new)[a] = e
<1> DEFINE t == low \o new
           h == Len(low)
           u == Len(new)
<1>1. /\ Len(t) = h + u
      /\ \A a \in 1 .. h + u : t[a] = IF a <= h THEN low[a] ELSE new[a - h]
  BY ConcatProperties
<1>2. h \in Nat /\ u \in Nat
  BY LenProperties
<1>3. \A a \in 1 .. u : new[a] = e
  OBVIOUS
<1> HIDE DEF t, h, u
<1>4. ASSUME NEW a \in 1 .. h
      PROVE  t[a] = low[a]
  <2>1. a \in 1 .. h + u /\ a <= h
    BY <1>2
  <2>2. QED
    BY <1>1, <2>1
<1>5. ASSUME NEW a \in h + 1 .. h + u
      PROVE  t[a] = e
  <2>1. a \in 1 .. h + u /\ ~(a <= h) /\ a - h \in 1 .. u
    BY <1>2
  <2>2. QED
    BY <1>1, <1>3, <2>1
<1>6. QED
  BY <1>1, <1>4, <1>5 DEF t, h, u

\* What is left of x, when p is taken from it.
LEMMA Difference ==
  ASSUME NEW x \in Nat, NEW p \in Nat, p <= x
  PROVE  x - p \in Nat /\ x = (x - p) + p
OBVIOUS

\* A place below h, from 1 and from 0, when p more are on top.
LEMMA PlaceAmong ==
  ASSUME NEW h \in Nat, NEW p \in Nat, NEW a \in 1 .. h
  PROVE  a \in 1 .. h + p /\ a - 1 < h
OBVIOUS

\* Depth x is below h, and so a place in a stack that u more are pushed on.
LEMMA PlaceBelow ==
  ASSUME NEW h \in Nat, NEW u \in Nat, NEW x \in Nat, ~(h <= x)
  PROVE  x + 1 \in 1 .. h /\ x + 1 \in 1 .. h + u
OBVIOUS

\* A value that neither of two nodes takes lies below what both take.
LEMMA NotYet ==
  ASSUME NEW i \in Nat, NEW k \in Nat, NEW h \in Nat, NEW x \in Nat,
         i <= k, h <= x <=> k = i, i + 1 <= k => (h <= x <=> k = i + 1)
  PROVE  i + 2 <= k <=> x < h
OBVIOUS

\* The stack after a node that takes and leaves what it pops and pushes.
LEMMA HoldsNext ==
  ASSUME NEW c, Structured(c), NEW i \in 1 .. Len(c), NEW s, Holds(c, s, i),
         NEW t, NEW h, NEW u, NEW p,
         p = Pops(c[i]), u = Pushes(c[i]), h = Depth(c)[i] - p,
         Len(t) = h + u,
         \A a \in 1 .. h : t[a] = s[a],
         \A a \in h + 1 .. h + u : t[a] = i
  PROVE  Holds(c, t, i + 1)
<1> DEFINE d == Depth(c)
<1>2. Len(c) \in Nat /\ i \in 1 .. Len(c) + 1
  BY StructuredParts
<1>0. p \in Nat /\ u \in Nat /\ h \in Nat /\ d[i] \in Nat /\ d[i] = h + p
  <2>1. p \in Nat /\ u \in Nat
    BY PopsNat
  <2>2. d[i] \in Nat /\ p <= d[i]
    BY <1>2, DepthFacts
  <2>3. QED
    BY <2>1, <2>2, Difference
<1>1. /\ Len(c) \in Nat /\ p \in Nat /\ u \in Nat /\ h \in Nat
      /\ d[i] \in Nat /\ d[i] = h + p /\ d[i + 1] = h + u /\ Len(s) = h + p
  <2>1. d[i + 1] = (d[i] - p) + u
    BY DepthFacts
  <2>2. Len(s) = d[i]
    BY DEF Holds
  <2>3. QED
    BY <1>0, <1>2, <2>1, <2>2
<1>3. ASSUME NEW a \in 1 .. Len(t), c[t[a]].op = "par"
      PROVE  t[a] \in 1 .. i /\ d[t[a]] = a - 1 /\ i + 1 <= Consumer(c, t[a])
  <2>0. a \in 1 .. h \/ a \in h + 1 .. h + u
    BY <1>1
  <2>1. CASE a \in 1 .. h
    <3>1. t[a] = s[a] /\ a \in 1 .. Len(s) /\ a - 1 < h
      <4>1. t[a] = s[a]
        BY <2>1
      <4> HIDE DEF d
      <4>2. a \in 1 .. h + p /\ a - 1 < h
        BY <1>0, <2>1, PlaceAmong
      <4>3. Len(s) = h + p
        BY <1>1
      <4>4. QED
        BY <4>1, <4>2, <4>3
    <3>2. s[a] \in 1 .. i - 1 /\ d[s[a]] = a - 1 /\ i <= Consumer(c, s[a])
      BY <1>3, <3>1 DEF Holds
    <3> DEFINE q == s[a]
               k == Consumer(c, q)
    <3>3. q \in ParNodes(c) /\ i \in q + 1 .. Len(c) /\ q \in 1 .. i
      <4>1. q \in 1 .. i - 1 /\ c[q].op = "par"
        BY <1>3, <3>1, <3>2
      <4> HIDE DEF q
      <4>2. q \in 1 .. Len(c) /\ i \in q + 1 .. Len(c) /\ q \in 1 .. i
        BY <1>1, <4>1
      <4>3. QED
        BY <4>1, <4>2, StructuredParts DEF ParNodes
    <3>4. h <= d[q] <=> k = i
      <4> HIDE DEF q
      <4>1. QED
        BY <3>2, <3>3, ConsumerIs DEF q
    <3>5. k \in Nat
      <4> HIDE DEF q
      <4>1. k \in q + 1 .. Len(c) /\ q \in 1 .. i
        BY <3>3, ParFacts
      <4> HIDE DEF k
      <4>2. QED
        BY <1>1, <4>1
    <3>6. k # i
      <4>1. d[q] = a - 1
        BY <3>2
      <4> HIDE DEF q, k, d
      <4>2. QED
        BY <1>1, <3>1, <3>4, <4>1
    <3>7. i <= k
      BY <3>2
    <3> HIDE DEF k
    <3>8. i + 1 <= k
      BY <3>5, <3>6, <3>7
    <3>9. QED
      BY <3>1, <3>2, <3>3, <3>8 DEF k
  <2>2. CASE a \in h + 1 .. h + u
    <3>1. t[a] = i
      BY <2>2
    <3>2. i \in ParNodes(c)
      BY <1>3, <3>1, StructuredParts DEF ParNodes
    <3>3. p = 0 /\ u = 1 /\ Consumer(c, i) \in i + 1 .. Len(c)
      BY <3>2, ParFacts
    <3>4. d[i] = a - 1
      <4> HIDE DEF d
      <4>1. QED
        BY <1>1, <2>2, <3>3
    <3>5. QED
      BY <1>1, <3>1, <3>3, <3>4
  <2>3. QED
    BY <2>0, <2>1, <2>2
<1>4. ASSUME NEW q \in ParNodes(c), q < i + 1, i + 1 <= Consumer(c, q)
      PROVE  d[q] + 1 \in 1 .. Len(t) /\ t[d[q] + 1] = q
  <2>1. q \in 1 .. Len(c) /\ d[q] \in Nat /\ Consumer(c, q) \in Nat
    <3> DEFINE k == Consumer(c, q)
    <3>1. q \in 1 .. Len(c) /\ d[q] \in Nat /\ k \in q + 1 .. Len(c)
      BY ParFacts
    <3> HIDE DEF k
    <3>2. k \in Nat
      BY <1>2, <3>1
    <3>3. QED
      BY <3>1, <3>2 DEF k
  <2>2. CASE q = i
    <3>1. p = 0 /\ u = 1
      BY <2>2, ParFacts
    <3>2. d[q] + 1 = h + 1 /\ h + 1 \in 1 .. h + u /\ h + 1 \in h + 1 .. h + u
      <4> HIDE DEF d
      <4>1. QED
        BY <1>1, <2>2, <3>1
    <3> HIDE DEF d
    <3>3. t[h + 1] = i
      BY <3>2
    <3>4. QED
      BY <2>2, <3>2, <3>3
  <2>3. CASE q < i
    <3> DEFINE k == Consumer(c, q)
    <3>1. i \in q + 1 .. Len(c) /\ i <= k /\ k # i
      <4>1. i + 1 <= k /\ k \in Nat
        BY <1>4, <2>1
      <4> HIDE DEF k
      <4>2. QED
        BY <1>1, <2>1, <2>3, <4>1
    <3>2. d[q] + 1 \in 1 .. Len(s) /\ s[d[q] + 1] = q
      BY <2>3, <3>1 DEF Holds
    <3>3. ~(h <= d[q])
      BY <3>1, ConsumerIs
    <3> DEFINE x == d[q]
    <3> HIDE DEF d, x
    <3>4. x \in Nat /\ ~(h <= x)
      BY <2>1, <3>3 DEF x
    <3>5. x + 1 \in 1 .. h /\ x + 1 \in 1 .. h + u
      BY <1>1, <3>4, PlaceBelow
    <3>6. QED
      BY <3>2, <3>5 DEF x
  <2>4. QED
    BY <1>1, <1>4, <2>1, <2>2, <2>3
<1>5. QED
  <2>1. (i + 1) - 1 = i
    BY <1>1
  <2>2. Len(t) = d[i + 1]
    BY <1>1
  <2>3. QED
    BY <1>3, <1>4, <2>1, <2>2 DEF Holds

\* The stack after a node that leaves its operands to the next one, and that one.
LEMMA HoldsLater ==
  ASSUME NEW c, NEW names, Executable(c, names), NEW i \in 1 .. Len(c),
         IsDeferred(c[i]) \/ c[i].op = "nonass",
         NEW s, Holds(c, s, i), NEW t, NEW h, NEW p,
         p = Pops(c[i]), h = Depth(c)[i] - p, Len(t) = h, \A a \in 1 .. h : t[a] = s[a]
  PROVE  Holds(c, t, i + 2)
<1> DEFINE d == Depth(c)
<1>0. Structured(c) /\ Len(c) \in Nat
  BY ExecutableParts
<1>1. /\ p \in Nat /\ h \in Nat /\ d[i] = h + p /\ Len(s) = h + p
      /\ i + 1 \in 1 .. Len(c) /\ d[i + 2] = h
      /\ d[i + 1] - Pops(c[i + 1]) = h
      /\ c[i].op # "par" /\ c[i + 1].op # "par"
  <2>1. p \in Nat /\ d[i] \in Nat /\ p <= d[i]
    BY <1>0, PopsNat, DepthFacts
  <2>2. /\ i + 1 \in 1 .. Len(c) /\ d[i + 2] = h /\ d[i + 1] - Pops(c[i + 1]) = h
        /\ c[i].op # "par" /\ c[i + 1].op # "par"
    BY LatePair
  <2>3. Len(s) = d[i]
    BY DEF Holds
  <2>4. QED
    BY <2>1, <2>2, <2>3
<1>3. ASSUME NEW q \in ParNodes(c), q < i, i <= Consumer(c, q)
      PROVE  i + 2 <= Consumer(c, q) <=> d[q] < h
  <2> DEFINE k == Consumer(c, q)
             x == d[q]
  <2>1. q \in 1 .. Len(c) /\ x \in Nat /\ k \in Nat
    BY ParFacts, <1>0
  <2>2. i \in q + 1 .. Len(c)
    BY <1>0, <1>3, <2>1
  <2>3. h <= x <=> k = i
    BY <1>0, <1>3, <2>2, ConsumerIs
  <2>4. i + 1 <= k => (h <= x <=> k = i + 1)
    <3>1. i + 1 \in q + 1 .. Len(c)
      BY <1>1, <2>1, <2>2
    <3>2. i + 1 <= k => (d[i + 1] - Pops(c[i + 1]) <= d[q] <=> k = i + 1)
      BY <1>0, <3>1, ConsumerIs
    <3>3. QED
      BY <1>1, <3>2
  <2>5. i <= k
    BY <1>3
  <2> HIDE DEF x, k
  <2>6. i + 2 <= k <=> x < h
    <3>1. i \in Nat /\ h \in Nat
      BY <1>1
    <3>2. QED
      BY <2>1, <2>3, <2>4, <2>5, <3>1, NotYet DEF x, k
  <2>7. QED
    BY <2>6 DEF x, k
<1>4. ASSUME NEW a \in 1 .. Len(t), c[t[a]].op = "par"
      PROVE  t[a] \in 1 .. i + 1 /\ d[t[a]] = a - 1 /\ i + 2 <= Consumer(c, t[a])
  <2>1. t[a] = s[a] /\ a \in 1 .. Len(s) /\ a - 1 < h
    <3> HIDE DEF d
    <3>1. a \in 1 .. h /\ a \in 1 .. h + p /\ a - 1 < h
      BY <1>1
    <3>2. QED
      BY <1>1, <3>1
  <2>2. s[a] \in 1 .. i - 1 /\ d[s[a]] = a - 1 /\ i <= Consumer(c, s[a])
    BY <1>4, <2>1 DEF Holds
  <2>3. s[a] \in ParNodes(c) /\ s[a] < i /\ s[a] \in 1 .. i + 1
    <3> DEFINE q == s[a]
    <3>1. q \in 1 .. i - 1 /\ c[q].op = "par"
      BY <1>4, <2>1, <2>2
    <3> HIDE DEF q
    <3>2. q \in 1 .. Len(c) /\ q < i /\ q \in 1 .. i + 1
      BY <1>0, <3>1
    <3>3. q \in ParNodes(c)
      BY <1>0, <3>1, <3>2, StructuredParts DEF ParNodes
    <3>4. QED
      BY <3>2, <3>3 DEF q
  <2>4. d[s[a]] < h
    <3> HIDE DEF d
    <3>1. QED
      BY <2>1, <2>2
  <2>5. i + 2 <= Consumer(c, s[a])
    BY <1>3, <2>2, <2>3, <2>4
  <2>6. QED
    BY <2>1, <2>2, <2>3, <2>5
<1>5. ASSUME NEW q \in ParNodes(c), q < i + 2, i + 2 <= Consumer(c, q)
      PROVE  d[q] + 1 \in 1 .. Len(t) /\ t[d[q] + 1] = q
  <2>1. q \in 1 .. Len(c) /\ d[q] \in Nat /\ Consumer(c, q) \in Nat /\ c[q].op = "par"
    BY ParFacts, <1>0
  <2>2. q < i /\ i <= Consumer(c, q)
    <3>1. q # i /\ q # i + 1
      BY <1>1, <2>1
    <3> DEFINE k == Consumer(c, q)
    <3>2. i + 2 <= k /\ k \in Nat /\ q < i + 2
      BY <1>5, <2>1
    <3> HIDE DEF k
    <3>3. q < i /\ i <= k
      BY <1>0, <2>1, <3>1, <3>2
    <3>4. QED
      BY <3>3 DEF k
  <2>3. d[q] + 1 \in 1 .. Len(s) /\ s[d[q] + 1] = q
    BY <2>2 DEF Holds
  <2> DEFINE x == d[q]
  <2>4. x \in Nat /\ x < h
    BY <1>3, <1>5, <2>1, <2>2
  <2> HIDE DEF d, x
  <2>5. x + 1 \in 1 .. h
    BY <1>1, <2>4
  <2>6. QED
    BY <2>3, <2>5 DEF x
<1>6. QED
  <2>1. (i + 2) - 1 = i + 1
    BY <1>1
  <2>2. Len(t) = d[i + 2]
    BY <1>1
  <2>3. QED
    BY <1>4, <1>5, <2>1, <2>2 DEF Holds

\* What is on the stack is named by nodes, and a node moves it on.
LEMMA WaitingParts ==
  ASSUME NEW c, NEW names, Executable(c, names), NEW i \in 1 .. Len(c)
  PROVE  /\ Waiting(c)[1] = << >>
         /\ Waiting(c)[i] \in Seq(1 .. Len(c))
         /\ Takes(c, i) <= Len(Waiting(c)[i])
         /\ i < Len(c) => Waiting(c)[i + 1] = After(c, i, Waiting(c)[i])
         /\ c[i].op \in {"ass", "jump"} \/ i = Len(c) => After(c, i, Waiting(c)[i]) = << >>
<1> DEFINE w == Waiting(c)
           P == {q \in 1 .. Len(c) : IsOperand(c[q])}
<1>1. Balanced(c, w)
  BY ExecutableParts
<1> HIDE DEF w
<1>2. /\ w[1] = << >> /\ w[i] \in Seq(P) /\ Takes(c, i) <= Len(w[i])
      /\ i < Len(c) => w[i + 1] = After(c, i, w[i])
      /\ c[i].op \in {"ass", "jump"} \/ i = Len(c) => After(c, i, w[i]) = << >>
  BY <1>1 DEF Balanced
<1>3. P \subseteq 1 .. Len(c)
  OBVIOUS
<1> HIDE DEF P
<1>4. w[i] \in Seq(1 .. Len(c))
  <2>1. Len(w[i]) \in Nat /\ \A a \in 1 .. Len(w[i]) : w[i][a] \in P
    BY <1>2, LenProperties, ElementOfSeq
  <2>2. \A a \in 1 .. Len(w[i]) : w[i][a] \in 1 .. Len(c)
    BY <1>3, <2>1
  <2>3. w[i] = [a \in 1 .. Len(w[i]) |-> w[i][a]]
    BY <1>2, LenProperties
  <2>4. QED
    BY <2>1, <2>2, <2>3
<1>5. QED
  BY <1>2, <1>4 DEF w

\* What a node takes when it takes nothing.
LEMMA AfterNothing ==
  ASSUME NEW c, NEW i, NEW S, NEW s \in Seq(S), Takes(c, i) = 0, Leaves(c, i) = 0
  PROVE  After(c, i, s) = s
<1>1. After(c, i, s) = SubSeq(s, 1, Len(s) - 0) \o [a \in 1 .. 0 |-> i]
  BY DEF After, Below
<1>2. Len(s) - 0 = Len(s) /\ SubSeq(s, 1, Len(s)) = s
  <2>1. Len(s) \in Nat
    BY LenProperties
  <2>2. QED
    BY <2>1, SubSeqFull
<1>3. [a \in 1 .. 0 |-> i] = << >>
  OBVIOUS
<1>4. s \o << >> = s
  BY ConcatEmptySeq
<1>5. QED
  BY <1>1, <1>2, <1>3, <1>4

\* What is on the stack after a node.
LEMMA AfterIs ==
  ASSUME NEW c, NEW i \in Nat, NEW s \in Seq(Nat), Takes(c, i) \in Nat, Leaves(c, i) \in Nat,
         Takes(c, i) <= Len(s)
  PROVE  Moved(s, After(c, i, s), Len(s) - Takes(c, i), Leaves(c, i), i)
<1> DEFINE h == Len(s) - Takes(c, i)
           u == Leaves(c, i)
           low == SubSeq(s, 1, h)
           new == [a \in 1 .. u |-> i]
<1>1. h \in Nat /\ u \in Nat /\ h <= Len(s)
  <2>1. Len(s) \in Nat
    BY LenProperties
  <2>2. QED
    BY <2>1
<1>2. After(c, i, s) = low \o new
  BY DEF After, Below
<1> HIDE DEF h, u
<1>3. low \in Seq(Nat) /\ Len(low) = h /\ \A a \in 1 .. h : low[a] = s[a]
  <2>1. \A a \in 1 .. h : s[a] \in Nat
    BY <1>1, LenProperties, ElementOfSeq
  <2>2. /\ SubSeq(s, 1, h) \in Seq(Nat) /\ Len(SubSeq(s, 1, h)) = IF 1 <= h THEN h - 1 + 1 ELSE 0
        /\ \A a \in 1 .. h - 1 + 1 : SubSeq(s, 1, h)[a] = s[1 + a - 1]
    BY <1>1, <2>1, SubSeqProperties
  <2>3. Len(low) = h /\ h - 1 + 1 = h
    BY <1>1, <2>2
  <2>4. ASSUME NEW a \in 1 .. h
        PROVE  low[a] = s[a]
    <3>1. a \in 1 .. h - 1 + 1 /\ 1 + a - 1 = a
      BY <1>1
    <3>2. QED
      BY <2>2, <3>1
  <2>5. low \in Seq(Nat)
    BY <2>2
  <2> HIDE DEF low
  <2>6. QED
    BY <2>3, <2>4, <2>5
<1>4. new \in Seq(Nat) /\ Len(new) = u /\ \A a \in 1 .. u : new[a] = i
  BY <1>1
<1> HIDE DEF low, new
<1>5. /\ Len(low \o new) = h + u
      /\ \A a \in 1 .. h : (low \o new)[a] = low[a]
      /\ \A a \in h + 1 .. h + u : (low \o new)[a] = i
  <2>1. \A a \in 1 .. Len(new) : new[a] = i
    BY <1>4
  <2>2. /\ Len(low \o new) = Len(low) + Len(new)
        /\ \A a \in 1 .. Len(low) : (low \o new)[a] = low[a]
        /\ \A a \in Len(low) + 1 .. Len(low) + Len(new) : (low \o new)[a] = i
    <3>1. low \in Seq(Nat) /\ new \in Seq(Nat)
      BY <1>3, <1>4
    <3>2. QED
      BY <2>1, <3>1, ThenEqual
  <2>3. QED
    BY <1>3, <1>4, <2>2
<1>6. Moved(s, After(c, i, s), h, u, i)
  BY <1>2, <1>3, <1>5 DEF Moved
<1>7. QED
  BY <1>6 DEF h, u

\* The stack of a run is the stack of the analysis, but for the nodes that another is late for.
LEMMA WaitingIs ==
  ASSUME NEW c, NEW names, Executable(c, names)
  PROVE  \A i \in 1 .. Len(c) : WaitsAt(c, i)
<1> DEFINE w == Waiting(c)
           d == Depth(c)
           T == {i \in 1 .. Len(c) : WaitsAt(c, i)}
<1>0. Structured(c) /\ Len(c) \in Nat \ {0}
  BY ExecutableParts
<1>1. 1 \in T
  <2>1. ~Late(c, 1)
    BY DEF Late
  <2>2. w[1] = << >> /\ Len(w[1]) = 0 /\ d[1] = 0
    <3>1. 1 \in 1 .. Len(c)
      BY <1>0
    <3>2. w[1] = << >>
      BY <3>1, WaitingParts
    <3>3. d[1] = 0
      BY <1>0, DepthFacts
    <3> HIDE DEF w, d
    <3>4. QED
      BY <3>2, <3>3
  <2>3. \A q \in ParNodes(c) : ~(q < 1)
    <3>1. \A q \in ParNodes(c) : q \in 1 .. Len(c)
      BY <1>0, ParFacts
    <3>2. QED
      BY <1>0, <3>1
  <2> HIDE DEF w, d
  <2>4. Holds(c, w[1], 1)
    BY <2>2, <2>3 DEF Holds, d
  <2>5. QED
    BY <1>0, <2>1, <2>4 DEF WaitsAt, w
<1>2. ASSUME NEW i \in 1 .. Len(c), i < Len(c), WaitsAt(c, i)
      PROVE  WaitsAt(c, i + 1)
  <2>1. /\ i + 1 \in 1 .. Len(c) /\ (i + 1) - 1 = i /\ i \in Nat
        /\ w[i] \in Seq(1 .. Len(c)) /\ w[i + 1] = After(c, i, w[i])
        /\ Pops(c[i]) \in Nat /\ Pushes(c[i]) \in Nat
        /\ d[i] \in Nat /\ Pops(c[i]) <= d[i]
    BY <1>0, <1>2, WaitingParts, PopsNat, DepthFacts
  <2>2. CASE Late(c, i + 1)
    <3>1. IsDeferred(c[i]) \/ c[i].op = "nonass"
      BY <2>1, <2>2 DEF Late
    <3>2. Takes(c, i) = 0 /\ Leaves(c, i) = 0 /\ ~Late(c, i)
      BY <3>1, LatePair
    <3>3. w[i + 1] = w[i]
      BY <2>1, <3>2, AfterNothing
    <3>4. Holds(c, w[i], i)
      BY <1>2, <3>2 DEF WaitsAt
    <3> HIDE DEF w
    <3>5. QED
      BY <2>1, <2>2, <3>3, <3>4 DEF WaitsAt, w
  <2>3. CASE ~Late(c, i + 1) /\ ~Late(c, i)
    <3>1. ~IsDeferred(c[i]) /\ c[i].op # "nonass"
      <4>1. i + 1 > 1
        BY <2>1
      <4>2. QED
        BY <2>1, <2>3, <4>1 DEF Late
    <3> DEFINE p == Pops(c[i])
               u == Pushes(c[i])
               h == d[i] - p
               s == w[i]
               t == w[i + 1]
    <3>2. Takes(c, i) = p /\ Leaves(c, i) = u
      BY <2>3, <3>1, PlainNode
    <3>3. Holds(c, s, i) /\ Len(s) = d[i]
      BY <1>2, <2>3 DEF WaitsAt, Holds
    <3>4. h \in Nat /\ p \in Nat /\ u \in Nat /\ Len(s) = h + p
      BY <2>1, <3>3
    <3>5. s \in Seq(Nat)
      BY <2>1
    <3>6. Moved(s, t, h, u, i)
      <4>1. Takes(c, i) <= Len(s) /\ Len(s) - Takes(c, i) = h
        BY <3>2, <3>4
      <4>2. t = After(c, i, s)
        BY <2>1
      <4> HIDE DEF h, p, u, s, t
      <4>3. Moved(s, After(c, i, s), Len(s) - Takes(c, i), Leaves(c, i), i)
        BY <2>1, <3>2, <3>4, <3>5, <4>1, AfterIs
      <4>4. QED
        BY <3>2, <4>1, <4>2, <4>3
    <3>7. h = Depth(c)[i] - p
      OBVIOUS
    <3> HIDE DEF h, s, t
    <3>8. Holds(c, t, i + 1)
      BY <1>0, <3>3, <3>6, <3>7, HoldsNext DEF Moved
    <3>9. QED
      BY <2>3, <3>8 DEF WaitsAt, t
  <2>4. CASE Late(c, i)
    <3> DEFINE k == i - 1
               p == Pops(c[k])
               h == d[k] - p
               s == w[k]
               t == w[i + 1]
    <3>1. k \in 1 .. Len(c) /\ k + 1 = i /\ k + 2 = i + 1
          /\ (IsDeferred(c[k]) \/ c[k].op = "nonass")
      BY <2>1, <2>4 DEF Late
    <3> HIDE DEF k
    <3>2. Takes(c, i) = p /\ Leaves(c, i) = 0 /\ ~Late(c, i + 1)
      BY <3>1, LatePair
    <3>3. w[i] = s /\ Holds(c, s, k) /\ Len(s) = d[k]
      BY <1>2, <2>4 DEF WaitsAt, Holds, k
    <3>4. h \in Nat /\ p \in Nat /\ Len(s) = h + p
      <4>1. p \in Nat /\ d[k] \in Nat /\ p <= d[k]
        BY <1>0, <3>1, PopsNat, DepthFacts
      <4>2. Len(s) = d[k]
        BY <3>3
      <4> HIDE DEF d, p, s
      <4>3. QED
        BY <4>1, <4>2
    <3>5. w[i] \in Seq(Nat)
      BY <2>1
    <3>6. Moved(s, t, h, 0, i)
      <4>1. Takes(c, i) <= Len(s) /\ Len(s) - Takes(c, i) = h
        BY <3>2, <3>4
      <4> HIDE DEF w
      <4>2. t = After(c, i, s) /\ s \in Seq(Nat)
        <5>1. t = After(c, i, w[i])
          BY <2>1
        <5>2. w[i] = s
          BY <3>3
        <5> HIDE DEF s, t
        <5>3. QED
          BY <3>5, <5>1, <5>2
      <4> HIDE DEF h, p, s, t
      <4>3. Moved(s, After(c, i, s), Len(s) - Takes(c, i), Leaves(c, i), i)
        <5>1. /\ i \in Nat /\ s \in Seq(Nat) /\ Takes(c, i) \in Nat /\ Leaves(c, i) \in Nat
              /\ Takes(c, i) <= Len(s)
          BY <2>1, <3>2, <3>4, <4>1, <4>2
        <5>2. QED
          BY <5>1, AfterIs
      <4>4. QED
        BY <3>2, <4>1, <4>2, <4>3
    <3>7. h = Depth(c)[k] - p
      OBVIOUS
    <3> HIDE DEF h, s, t
    <3>8. Holds(c, t, k + 2)
      <4>1. Len(t) = h /\ \A a \in 1 .. h : t[a] = s[a]
        BY <3>4, <3>6 DEF Moved
      <4>2. QED
        BY <3>1, <3>3, <3>7, <4>1, HoldsLater
    <3>9. QED
      BY <3>1, <3>2, <3>8 DEF WaitsAt, t
  <2>5. QED
    BY <2>2, <2>3, <2>4
<1>3. \A i \in 1 .. Len(c) : i < Len(c) /\ i \in T => i + 1 \in T
  <2> SUFFICES ASSUME NEW i \in 1 .. Len(c), i < Len(c), i \in T
               PROVE  i + 1 \in T
    OBVIOUS
  <2>1. i + 1 \in 1 .. Len(c)
    BY <1>0
  <2>2. QED
    BY <1>2, <2>1
<1> HIDE DEF T
<1>4. \A i \in 1 .. Len(c) : i \in T
  <2>1. 1 \in Int /\ Len(c) \in Int
    BY <1>0
  <2>2. QED
    BY <2>1, <1>1, <1>3, Climb
<1>5. QED
  BY <1>4 DEF T

\* The node that takes a value is its consumer, or the node that is late for it.
LEMMA TakerCases ==
  ASSUME NEW c, NEW names, Executable(c, names), NEW q \in ParNodes(c)
  PROVE  /\ q \in 1 .. Len(c) /\ Consumer(c, q) \in q + 1 .. Len(c)
         /\ ~Late(c, Consumer(c, q))
         /\ Taker(c, q) \in q + 1 .. Len(c)
         /\ IF IsDeferred(c[Consumer(c, q)]) \/ c[Consumer(c, q)].op = "nonass"
            THEN Taker(c, q) = Consumer(c, q) + 1 /\ Late(c, Taker(c, q))
            ELSE Taker(c, q) = Consumer(c, q) /\ ~Late(c, Consumer(c, q) + 1)
<1> DEFINE k == Consumer(c, q)
           d == Depth(c)
<1>0. Structured(c) /\ Len(c) \in Nat
  BY ExecutableParts
<1>1. /\ q \in 1 .. Len(c) /\ k \in q + 1 .. Len(c) /\ d[q] \in Nat
      /\ d[k] - Pops(c[k]) <= d[q]
      /\ \A m \in q + 1 .. k - 1 : d[q] < d[m] - Pops(c[m])
      /\ c[q].op = "par"
  BY <1>0, ConsumerFacts, ParFacts
<1> HIDE DEF k, d
<1>2. k \in 1 .. Len(c)
  BY <1>0, <1>1
<1>3. ~Late(c, k)
  <2> SUFFICES ASSUME Late(c, k)
               PROVE  FALSE
    OBVIOUS
  <2> DEFINE m == k - 1
  <2>1. m \in 1 .. Len(c) /\ m + 1 = k /\ (IsDeferred(c[m]) \/ c[m].op = "nonass")
    BY <1>0, <1>2 DEF Late
  <2>2. m # q
    BY <1>1, <2>1 DEF IsDeferred
  <2> HIDE DEF m
  <2>3. m \in q + 1 .. k - 1
    BY <1>0, <1>1, <2>1, <2>2
  <2>4. d[m + 1] - Pops(c[m + 1]) = d[m] - Pops(c[m]) /\ d[m] \in Nat /\ Pops(c[m]) \in Nat
    <3>1. d[m + 1] - Pops(c[m + 1]) = d[m] - Pops(c[m])
      BY <2>1, LatePair DEF d
    <3>2. m \in 1 .. Len(c) + 1
      BY <1>0, <2>1
    <3>3. QED
      BY <1>0, <2>1, <3>1, <3>2, DepthFacts, PopsNat DEF d
  <2>5. d[q] < d[m] - Pops(c[m]) /\ d[k] - Pops(c[k]) <= d[q]
    BY <1>1, <2>3
  <2>6. QED
    BY <1>1, <2>1, <2>4, <2>5
<1>4. CASE IsDeferred(c[k]) \/ c[k].op = "nonass"
  <2>1. k + 1 \in 1 .. Len(c) /\ Late(c, k + 1)
    BY <1>2, <1>4, LatePair
  <2>2. Taker(c, q) = k + 1
    BY <2>1 DEF Taker, k
  <2>3. k + 1 \in q + 1 .. Len(c)
    BY <1>0, <1>1, <2>1
  <2>4. QED
    BY <1>1, <1>3, <1>4, <2>1, <2>2, <2>3 DEF k
<1>5. CASE ~(IsDeferred(c[k]) \/ c[k].op = "nonass")
  <2>1. (k + 1) - 1 = k
    BY <1>0, <1>2
  <2>2. ~Late(c, k + 1)
    BY <1>5, <2>1 DEF Late
  <2>3. Taker(c, q) = k + 0
    BY <2>2 DEF Taker, k
  <2>4. k + 0 = k
    BY <1>0, <1>2
  <2>5. QED
    BY <1>1, <1>3, <1>5, <2>2, <2>3, <2>4 DEF k
<1>6. QED
  BY <1>4, <1>5

\* The parameters on the stack of a run are those that are not taken yet.
LEMMA OnStack ==
  ASSUME NEW c, NEW names, Executable(c, names), NEW i \in 1 .. Len(c)
  PROVE  /\ \A a \in 1 .. Len(Waiting(c)[i]) : c[Waiting(c)[i][a]].op = "par" =>
              /\ Waiting(c)[i][a] \in ParNodes(c)
              /\ Waiting(c)[i][a] < i /\ i <= Taker(c, Waiting(c)[i][a])
              /\ Depth(c)[Waiting(c)[i][a]] = a - 1
         /\ \A q \in ParNodes(c) : q < i /\ i <= Taker(c, q) =>
              /\ Depth(c)[q] + 1 \in 1 .. Len(Waiting(c)[i])
              /\ Waiting(c)[i][Depth(c)[q] + 1] = q
<1> DEFINE m == IF Late(c, i) THEN i - 1 ELSE i
           s == Waiting(c)[i]
<1>0. Structured(c) /\ Len(c) \in Nat
  BY ExecutableParts
<1>1. Holds(c, s, m)
  BY WaitingIs DEF WaitsAt
<1>2. ASSUME NEW q \in ParNodes(c)
      PROVE  q < m /\ m <= Consumer(c, q) <=> q < i /\ i <= Taker(c, q)
  <2> DEFINE k == Consumer(c, q)
             t == Taker(c, q)
  <2>1. /\ q \in 1 .. Len(c) /\ k \in q + 1 .. Len(c) /\ c[q].op = "par"
        /\ \/ t = k + 1 /\ Late(c, t)
           \/ t = k /\ ~Late(c, k + 1)
    BY <1>0, TakerCases, ParFacts
  <2>2. CASE Late(c, i)
    <3>1. m = i - 1 /\ q # m
      BY <2>1, <2>2 DEF Late, IsDeferred
    <3>2. i = k + 1 => t = k + 1
      BY <2>1, <2>2
    <3> HIDE DEF k, t, m
    <3>3. q < m /\ m <= k <=> q < i /\ i <= t
      BY <1>0, <2>1, <3>1, <3>2
    <3>4. QED
      BY <3>3 DEF k, t
  <2>3. CASE ~Late(c, i)
    <3>1. m = i
      BY <2>3
    <3>2. i # t \/ t = k
      BY <2>1, <2>3
    <3> HIDE DEF k, t, m
    <3>3. q < m /\ m <= k <=> q < i /\ i <= t
      BY <1>0, <2>1, <3>1, <3>2
    <3>4. QED
      BY <3>3 DEF k, t
  <2>4. QED
    BY <2>2, <2>3
<1>3. m \in 1 .. Len(c)
  BY <1>0 DEF Late
<1> HIDE DEF m, s
<1>4. ASSUME NEW a \in 1 .. Len(s), c[s[a]].op = "par"
      PROVE  /\ s[a] \in ParNodes(c) /\ s[a] < i /\ i <= Taker(c, s[a])
             /\ Depth(c)[s[a]] = a - 1
  <2>1. s[a] \in 1 .. m - 1 /\ Depth(c)[s[a]] = a - 1 /\ m <= Consumer(c, s[a])
    BY <1>1, <1>4 DEF Holds
  <2> DEFINE q == s[a]
  <2>2. q \in 1 .. m - 1 /\ c[q].op = "par"
    BY <1>4, <2>1
  <2> HIDE DEF q
  <2>3. q \in 1 .. Len(c) /\ q < m
    BY <1>0, <1>3, <2>2
  <2>4. q \in ParNodes(c)
    BY <1>0, <2>2, <2>3, StructuredParts DEF ParNodes
  <2>5. QED
    BY <1>2, <2>1, <2>3, <2>4 DEF q
<1>5. ASSUME NEW q \in ParNodes(c), q < i, i <= Taker(c, q)
      PROVE  Depth(c)[q] + 1 \in 1 .. Len(s) /\ s[Depth(c)[q] + 1] = q
  BY <1>1, <1>2, <1>5 DEF Holds
<1>6. QED
  BY <1>4, <1>5 DEF s

\* The parameters that a node takes are those it is the taker of.
LEMMA TakenIs ==
  ASSUME NEW c, NEW names, Executable(c, names), NEW i \in 1 .. Len(c), NEW q
  PROVE  q \in Taken(c, Waiting(c), i) /\ c[q].op = "par" <=>
           q \in ParNodes(c) /\ Taker(c, q) = i
<1> DEFINE s == Waiting(c)[i]
           d == Depth(c)
           p == Takes(c, i)
<1>0. Structured(c) /\ Len(c) \in Nat
  BY ExecutableParts
<1>1. q \in Taken(c, Waiting(c), i) <=> \E a \in Len(s) - p + 1 .. Len(s) : q = s[a]
  BY DEF Taken
<1>2. Len(s) \in Nat /\ p \in Nat /\ p <= Len(s)
  <2>1. Len(s) \in Nat /\ p <= Len(s)
    BY WaitingParts, LenProperties
  <2>2. p \in Nat
    <3>1. NodeOK(c, i)
      BY <1>0, StructuredParts
    <3>2. Len(c[i].lhs) \in Nat
      BY <3>1, LenProperties DEF NodeOK
    <3>3. QED
      BY <3>1, <3>2 DEF Takes, NodeOK
  <2>3. QED
    BY <2>1, <2>2
<1>3. /\ \A a \in 1 .. Len(s) : c[s[a]].op = "par" =>
           s[a] \in ParNodes(c) /\ s[a] < i /\ i <= Taker(c, s[a]) /\ d[s[a]] = a - 1
      /\ \A r \in ParNodes(c) : r < i /\ i <= Taker(c, r) =>
           d[r] + 1 \in 1 .. Len(s) /\ s[d[r] + 1] = r
  BY OnStack
<1>4. ASSUME NEW r \in ParNodes(c), r < i, i <= Taker(c, r)
      PROVE  Len(s) - p <= d[r] <=> Taker(c, r) = i
  <2> DEFINE k == Consumer(c, r)
             t == Taker(c, r)
  <2>0. /\ r \in 1 .. Len(c) /\ k \in r + 1 .. Len(c) /\ ~Late(c, k) /\ t \in r + 1 .. Len(c)
        /\ IF IsDeferred(c[k]) \/ c[k].op = "nonass"
           THEN t = k + 1 /\ Late(c, t) ELSE t = k /\ ~Late(c, k + 1)
        /\ d[r] \in Nat /\ c[r].op = "par"
    BY <1>0, TakerCases, ParFacts
  <2>1. CASE Late(c, i)
    <3> DEFINE m == i - 1
    <3>1. m \in 1 .. Len(c) /\ m + 1 = i /\ (IsDeferred(c[m]) \/ c[m].op = "nonass")
      BY <1>0, <2>1 DEF Late
    <3>2. WaitsAt(c, i) /\ ~Late(c, m)
      BY <3>1, WaitingIs, LatePair
    <3>3. Len(s) = d[m]
      BY <2>1, <3>2 DEF WaitsAt, Holds
    <3>4. p = Pops(c[m])
      BY <3>1, LatePair
    <3>5. r < m /\ m <= k /\ (k = m <=> t = i)
      <4>1. r # m
        BY <2>0, <3>1 DEF IsDeferred
      <4>2. k # i
        BY <2>0, <2>1
      <4>3. i <= t /\ r < i
        BY <1>4
      <4>4. k = m => t = k + 1
        BY <2>0, <3>1
      <4>5. t = k + 1 \/ t = k
        BY <2>0
      <4> HIDE DEF k, t, m
      <4>6. QED
        BY <1>0, <2>0, <3>1, <4>1, <4>2, <4>3, <4>4, <4>5
    <3>6. m \in r + 1 .. Len(c)
      <4> HIDE DEF k, t, m
      <4>1. QED
        BY <1>0, <2>0, <3>1, <3>5
    <3> HIDE DEF m
    <3>7. d[m] - Pops(c[m]) <= d[r] <=> k = m
      BY <1>0, <3>5, <3>6, ConsumerIs
    <3>8. QED
      <4>1. k = m <=> t = i
        BY <3>5
      <4>2. Len(s) - p = d[m] - Pops(c[m])
        BY <3>3, <3>4
      <4> HIDE DEF s, p, d, k, t
      <4>3. QED
        BY <3>7, <4>1, <4>2 DEF k, t, d
  <2>2. CASE ~Late(c, i)
    <3>1. Len(s) = d[i]
      BY <2>2, WaitingIs DEF WaitsAt, Holds
    <3>2. i <= k
      <4>1. (i <= t /\ i # k + 1) \/ t = k
        BY <1>4, <2>0, <2>2
      <4>2. t = k + 1 \/ t = k
        BY <2>0
      <4>3. i <= t
        BY <1>4
      <4> HIDE DEF k, t
      <4>4. QED
        BY <1>0, <2>0, <4>1, <4>2, <4>3
    <3>3. i \in r + 1 .. Len(c)
      <4> HIDE DEF d, k, t
      <4>1. QED
        BY <1>0, <1>4, <2>0
    <3>4. d[i] - Pops(c[i]) <= d[r] <=> k = i
      BY <1>0, <3>2, <3>3, ConsumerIs
    <3>5. CASE IsDeferred(c[i]) \/ c[i].op = "nonass"
      <4>1. p = 0
        BY <3>5, LatePair
      <4>2. t # i
        <5>1. k = i => t = k + 1
          BY <2>0, <3>5
        <5>2. Late(c, k + 1) => t = k + 1
          BY <2>0, <2>2
        <5>3. t = k + 1 => Late(c, t)
          BY <2>0
        <5>4. t = i => Late(c, i) \/ t = k
          BY <2>0, <5>3
        <5> HIDE DEF k, t
        <5>5. QED
          BY <1>0, <2>0, <2>2, <5>1, <5>4
      <4>3. d[r] + 1 \in 1 .. Len(s)
        BY <1>3, <1>4
      <4> HIDE DEF k, t, d, s, p
      <4>4. QED
        BY <1>2, <2>0, <4>1, <4>2, <4>3 DEF t
    <3>6. CASE ~IsDeferred(c[i]) /\ c[i].op # "nonass"
      <4>1. p = Pops(c[i])
        BY <2>2, <3>6, PlainNode
      <4>2. k = i <=> t = i
        <5>1. k = i => t = k
          BY <2>0, <3>6
        <5>2. t = k \/ Late(c, t)
          BY <2>0
        <5> HIDE DEF k, t
        <5>3. QED
          BY <2>2, <5>1, <5>2
      <4>3. QED
        BY <3>1, <3>4, <4>1, <4>2
    <3>7. QED
      BY <3>5, <3>6
  <2>3. QED
    BY <2>1, <2>2
<1> HIDE DEF s, p, d
<1>5. ASSUME NEW a \in Len(s) - p + 1 .. Len(s), q = s[a], c[q].op = "par"
      PROVE  q \in ParNodes(c) /\ Taker(c, q) = i
  <2>1. a \in 1 .. Len(s) /\ Len(s) - p <= a - 1
    BY <1>2
  <2>2. q \in ParNodes(c) /\ q < i /\ i <= Taker(c, q) /\ d[q] = a - 1
    BY <1>3, <1>5, <2>1
  <2>3. QED
    BY <1>4, <2>1, <2>2
<1>6. ASSUME q \in ParNodes(c), Taker(c, q) = i
      PROVE  c[q].op = "par" /\ \E a \in Len(s) - p + 1 .. Len(s) : q = s[a]
  <2>1. q \in 1 .. Len(c) /\ Taker(c, q) \in q + 1 .. Len(c) /\ c[q].op = "par" /\ d[q] \in Nat
    BY <1>0, <1>6, TakerCases, ParFacts DEF d
  <2>2. q < i /\ i <= Taker(c, q)
    BY <1>0, <1>6, <2>1
  <2>3. d[q] + 1 \in 1 .. Len(s) /\ s[d[q] + 1] = q /\ Len(s) - p <= d[q]
    BY <1>3, <1>4, <1>6, <2>2
  <2>4. d[q] + 1 \in Len(s) - p + 1 .. Len(s)
    BY <1>2, <2>1, <2>3
  <2>5. QED
    BY <2>1, <2>3, <2>4
<1>7. QED
  BY <1>1, <1>5, <1>6

\* Nothing is assigned, and no block begins or ends, while a parameter waits for its consumer.
LEMMA NothingBetween ==
  ASSUME NEW c, NEW names, Executable(c, names), NEW q \in ParNodes(c), NEW i \in 1 .. Len(c),
         q < i, i < Consumer(c, q)
  PROVE  c[i].op \notin {"ass", "jump"}
<1>0. Structured(c) /\ Len(c) \in Nat
  BY ExecutableParts
<1> DEFINE k == Consumer(c, q)
           t == Taker(c, q)
           x == Depth(c)[q]
<1>1. q \in 1 .. Len(c) /\ k \in q + 1 .. Len(c) /\ (t = k + 1 \/ t = k) /\ x \in Nat
  BY <1>0, TakerCases, ParFacts
<1>2. i < k
  OBVIOUS
<1>3. i < Len(c) /\ i + 1 \in 1 .. Len(c) /\ q < i + 1 /\ i + 1 <= t
  <2> HIDE DEF k, t, x
  <2>1. QED
    BY <1>0, <1>1, <1>2
<1>4. x + 1 \in 1 .. Len(Waiting(c)[i + 1])
  <2> DEFINE j == i + 1
  <2>1. j \in 1 .. Len(c) /\ q < j /\ j <= Taker(c, q)
    BY <1>3
  <2> HIDE DEF j
  <2>2. Depth(c)[q] + 1 \in 1 .. Len(Waiting(c)[j])
    BY <2>1, OnStack
  <2>3. QED
    BY <2>2 DEF j
<1>5. SUFFICES ASSUME c[i].op \in {"ass", "jump"}
               PROVE  FALSE
  OBVIOUS
<1>6. Waiting(c)[i + 1] = << >>
  BY <1>3, <1>5, WaitingParts
<1>7. Len(Waiting(c)[i + 1]) = 0
  BY <1>6
<1> HIDE DEF x
<1>8. QED
  BY <1>1, <1>4, <1>7

\* A name that is not assigned at a node that neither is an assignment.
LEMMA NoDefs ==
  ASSUME NEW c, Structured(c), NEW i \in 1 .. Len(c), c[i].op # "ass"
  PROVE  DefsAt(c, i) = {}
<1>1. c[i].lhs = << >>
  BY StructuredParts DEF NodeOK
<1>2. QED
  BY <1>1 DEF DefsAt

\* A name is live while a parameter with its name waits for its consumer.
LEMMA LiveBeforeUse ==
  ASSUME NEW c, NEW names, Executable(c, names), NEW q \in ParNodes(c), NEW n, n = c[q].name,
         NEW j \in q .. Consumer(c, q)
  PROVE  n \in NamesOf(c) /\ j \in LivePlaces(c, n, {})
<1>0. Structured(c) /\ Len(c) \in Nat /\ IsFiniteSet({})
  BY ExecutableParts, FS_EmptySet
<1> DEFINE k == Consumer(c, q)
<1>1. q \in 1 .. Len(c) /\ k \in q + 1 .. Len(c) /\ c[q].op = "par"
  BY <1>0, ParFacts
<1>2. n \in NamesOf(c)
  BY DEF NamesOf
<1>3. UsedAt(c, n, k)
  BY DEF UsedAt
<1>4. k \in LivePlaces(c, n, {})
  <2>1. k \in 1 .. Len(c)
    <3> HIDE DEF k
    <3>1. QED
      BY <1>0, <1>1
  <2>2. QED
    BY <1>0, <1>2, <1>3, <2>1, LivePlacesFacts
<1>5. \A i \in q .. k - 1 : n \notin DefsAt(c, i)
  <2> SUFFICES ASSUME NEW i \in q .. k - 1
               PROVE  n \notin DefsAt(c, i)
    OBVIOUS
  <2>1. i \in 1 .. Len(c) /\ (i = q \/ q < i) /\ i < k
    <3>1. i \in q .. k - 1
      OBVIOUS
    <3> HIDE DEF k
    <3>2. QED
      BY <1>0, <1>1, <3>1
  <2>2. c[i].op # "ass"
    BY <1>1, <2>1, NothingBetween
  <2>3. QED
    BY <1>0, <2>1, <2>2, NoDefs
<1>6. j \in 1 .. Len(c) + 1 /\ k \in j .. Len(c) + 1 /\ \A i \in j .. k - 1 : i \in q .. k - 1
  <2>1. j \in q .. k
    OBVIOUS
  <2> HIDE DEF k
  <2>2. QED
    BY <1>0, <1>1, <2>1
<1> HIDE DEF k
<1>7. j \in LivePlaces(c, n, {})
  BY <1>0, <1>2, <1>4, <1>5, <1>6, LiveDown
<1>8. QED
  BY <1>2, <1>7

\* Of two parameters on the stack, the upper one was pushed later and is taken no later.
LEMMA UpperIsInner ==
  ASSUME NEW c, Structured(c), NEW p \in ParNodes(c), NEW q \in ParNodes(c),
         Depth(c)[p] < Depth(c)[q], q < Consumer(c, p), p < Consumer(c, q)
  PROVE  p < q /\ Consumer(c, q) <= Consumer(c, p)
<1> DEFINE d == Depth(c)
           k == Consumer(c, p)
           m == Consumer(c, q)
<1>1. /\ p \in 1 .. Len(c) /\ k \in p + 1 .. Len(c) /\ d[p] \in Nat
      /\ q \in 1 .. Len(c) /\ m \in q + 1 .. Len(c) /\ d[q] \in Nat
      /\ d[k] - Pops(c[k]) <= d[p] /\ d[k] \in Nat /\ Pops(c[k]) \in Nat
      /\ \A x \in q + 1 .. m - 1 : d[q] < d[x] - Pops(c[x])
      /\ Len(c) \in Nat
  <2>1. /\ p \in 1 .. Len(c) /\ k \in p + 1 .. Len(c) /\ d[p] \in Nat
        /\ q \in 1 .. Len(c) /\ m \in q + 1 .. Len(c) /\ d[q] \in Nat
        /\ d[k] - Pops(c[k]) <= d[p]
        /\ \A x \in q + 1 .. m - 1 : d[q] < d[x] - Pops(c[x])
        /\ Len(c) \in Nat
    BY ConsumerFacts, ParFacts, StructuredParts
  <2> HIDE DEF d, k, m
  <2>2. k \in 1 .. Len(c) /\ k \in 1 .. Len(c) + 1
    BY <2>1
  <2>3. d[k] \in Nat /\ Pops(c[k]) \in Nat
    BY <2>2, DepthFacts, PopsNat DEF d
  <2>4. QED
    BY <2>1, <2>3
<1>2. ~(q < p)
  <2>1. q < p /\ p < m => d[q] < d[p]
    BY DepthGrows
  <2> HIDE DEF d, k, m
  <2>2. QED
    BY <1>1, <2>1 DEF m, d
<1>3. p # q
  BY <1>1
<1>4. d[p] < d[q] /\ q < k /\ p < m
  OBVIOUS
<1> HIDE DEF d, k, m
<1>5. p < q
  BY <1>1, <1>2, <1>3
<1>6. ~(k < m)
  <2> SUFFICES ASSUME k < m
               PROVE  FALSE
    OBVIOUS
  <2>1. k \in q + 1 .. m - 1
    BY <1>1, <1>4
  <2>2. d[q] < d[k] - Pops(c[k])
    BY <1>1, <2>1
  <2>3. QED
    BY <1>1, <1>4, <2>2
<1>7. m <= k
  BY <1>1, <1>6
<1>8. QED
  BY <1>5, <1>7 DEF k, m

-------------------------------------------------------------------------------
(* What is live and what is needed, by name *)

\* The pairs that are live are about names of the graph.
LEMMA LivePair ==
  ASSUME NEW c, Structured(c), NEW n, NEW j \in 1 .. Len(c) + 1
  PROVE  <<PlaceOf(c, j), n>> \in LiveIn(c) <=> n \in NamesOf(c) /\ j \in LivePlaces(c, n, {})
<1>1. LiveIn(c) = LeastOf(c, {}, LiveBase(c, {}))
  BY LiveIs, FS_EmptySet DEF LiveIn
<1>2. LiveIn(c) \in SUBSET Universe(c, {})
  BY <1>1, LiveBaseFacts, LeastSolves
<1>3. \A x \in LiveIn(c) : x[2] \in NamesOf(c)
  BY <1>2 DEF Universe
<1>4. <<PlaceOf(c, j), n>> \in LiveIn(c) => n \in NamesOf(c)
  BY <1>3
<1>5. j \in LivePlaces(c, n, {}) <=> <<PlaceOf(c, j), n>> \in LiveIn(c)
  BY DEF LivePlaces, LiveIn
<1>6. QED
  BY <1>4, <1>5

\* A node of the graph and a name.
LEMMA LiveAtNode ==
  ASSUME NEW c, Structured(c), NEW n, NEW j \in 1 .. Len(c)
  PROVE  <<j, n>> \in LiveIn(c) <=> n \in NamesOf(c) /\ j \in LivePlaces(c, n, {})
<1>1. j \in 1 .. Len(c) + 1 /\ PlaceOf(c, j) = j
  BY StructuredParts DEF PlaceOf
<1>2. QED
  BY <1>1, LivePair

\* They are the least solution with the names at the end.
LEMMA EscapesLeast ==
  ASSUME NEW c, Structured(c)
  PROVE  /\ {<<0, n>> : n \in NamesOf(c)} \in SUBSET Universe(c, NamesOf(c))
         /\ Escapes(c) = LeastOf(c, NamesOf(c), {<<0, n>> : n \in NamesOf(c)})
<1> DEFINE U == Universe(c, NamesOf(c))
           e == {<<0, n>> : n \in NamesOf(c)}
           none == << >>
           u == {<<none[i], c[i].name>> : i \in DOMAIN none}
<1>1. u = {}
  OBVIOUS
<1>2. e \in SUBSET U
  <2>1. 0 \in 0 .. Len(c)
    BY StructuredParts
  <2>2. QED
    BY <2>1 DEF Universe
<1>3. Escapes(c) = Extended(c, NamesOf(c))[e \cup u]
  BY DEF Escapes, Live, Extended, Through, Places, Universe
<1>4. e \cup u = e
  BY <1>1
<1> HIDE DEF e, u
<1>5. Escapes(c) = LeastOf(c, NamesOf(c), e)
  BY <1>2, <1>3, <1>4, ExtendedFacts, NamesFinite
<1>6. QED
  BY <1>2, <1>5 DEF e

\* A value may survive from a node on exactly if nothing from there on assigns the name.
LEMMA EscapesAre ==
  ASSUME NEW c, Structured(c), NEW n \in NamesOf(c), NEW j \in 1 .. Len(c)
  PROVE  <<j, n>> \in Escapes(c) <=> \A m \in j .. Len(c) : n \notin DefsAt(c, m)
<1> DEFINE U == Universe(c, NamesOf(c))
           e == {<<0, x>> : x \in NamesOf(c)}
           E == Escapes(c)
           Q == {x \in U : x[1] # 0 => \A m \in x[1] .. Len(c) : x[2] \notin DefsAt(c, m)}
<1>0. /\ Len(c) \in Nat \ {0} /\ DOMAIN c = 1 .. Len(c)
      /\ \A i \in 1 .. Len(c) : NodeOK(c, i)
  BY StructuredParts
<1>1. e \in SUBSET U /\ E = LeastOf(c, NamesOf(c), e)
  BY EscapesLeast
<1> HIDE DEF E
<1>2. \A x : x \in E <=> x \in e \/ x \in Through(c, E)
  <2> HIDE DEF e
  <2>1. QED
    BY <1>1, LeastSolves
<1>3. Q \in SUBSET U
  OBVIOUS
<1>4. e \subseteq Q
  BY <1>1
<1>5. ASSUME NEW x \in Through(c, Q)
      PROVE  x \in Q
  <2>1. PICK i \in 1 .. Len(c), y \in NamesOf(c) : x = <<i, y>>
    BY <1>0 DEF Through, Places
  <2>2. <<i, y>> \in U
    BY <1>0, <2>1, ThroughFacts
  <2>3. /\ y \notin DefsAt(c, i)
        /\ \/ <<PlaceOf(c, i + 1), y>> \in Q
           \/ LoopEnd(c, i) /\ <<PlaceOf(c, c[i].blk), y>> \in Q
    <3> HIDE DEF Q
    <3>1. <<i, y>> \in Through(c, Q)
      BY <2>1
    <3>2. QED
      BY <3>1, ThroughPlaces
  <2>4. ASSUME NEW m \in i .. Len(c)
        PROVE  y \notin DefsAt(c, m)
    <3>1. CASE m = i
      BY <2>3, <3>1
    <3>2. CASE m # i /\ <<PlaceOf(c, i + 1), y>> \in Q
      <4>1. i + 1 \in 1 .. Len(c) /\ m \in i + 1 .. Len(c)
        BY <1>0, <3>2
      <4>2. PlaceOf(c, i + 1) = i + 1 /\ i + 1 # 0
        BY <1>0, <4>1 DEF PlaceOf
      <4>3. \A m1 \in i + 1 .. Len(c) : y \notin DefsAt(c, m1)
        BY <3>2, <4>2
      <4>4. QED
        BY <4>1, <4>3
    <3>3. CASE LoopEnd(c, i) /\ <<PlaceOf(c, c[i].blk), y>> \in Q
      <4> DEFINE b == c[i].blk
      <4>1. b \in 1 .. i - 1
        BY <1>0, <3>3 DEF LoopEnd, NodeOK
      <4>2. <<PlaceOf(c, b), y>> \in Q
        BY <3>3
      <4> HIDE DEF b
      <4>3. PlaceOf(c, b) = b /\ b # 0 /\ m \in b .. Len(c)
        BY <1>0, <4>1 DEF PlaceOf
      <4>4. \A m1 \in b .. Len(c) : y \notin DefsAt(c, m1)
        BY <4>2, <4>3
      <4>5. QED
        BY <4>3, <4>4
    <3>4. QED
      BY <2>3, <3>1, <3>2, <3>3
  <2>5. x[1] = i /\ x[2] = y /\ x \in U
    BY <2>1, <2>2
  <2>6. QED
    BY <2>4, <2>5
<1>6. E \subseteq Q
  <2> HIDE DEF Q, e
  <2>1. e \subseteq Q /\ Through(c, Q) \subseteq Q
    BY <1>4, <1>5
  <2>2. QED
    BY <1>1, <1>3, <2>1 DEF LeastOf
<1>7. ASSUME <<j, n>> \in E
      PROVE  \A m \in j .. Len(c) : n \notin DefsAt(c, m)
  <2>1. <<j, n>> \in Q /\ j # 0
    BY <1>0, <1>6, <1>7
  <2>2. QED
    BY <2>1
<1>8. ASSUME \A m \in j .. Len(c) : n \notin DefsAt(c, m)
      PROVE  <<j, n>> \in E
  <2> DEFINE T == {i \in j .. Len(c) + 1 : <<PlaceOf(c, i), n>> \in E}
  <2>1. Len(c) + 1 \in T
    <3>1. PlaceOf(c, Len(c) + 1) = 0 /\ Len(c) + 1 \in j .. Len(c) + 1
      BY <1>0 DEF PlaceOf
    <3>2. <<0, n>> \in E
      BY <1>2
    <3>3. QED
      BY <3>1, <3>2
  <2>2. ASSUME NEW i \in j .. Len(c) + 1, j < i, i \in T
        PROVE  i - 1 \in T
    <3> DEFINE m == i - 1
    <3>1. m \in 1 .. Len(c) /\ m \in j .. Len(c) /\ m + 1 = i /\ m \in j .. Len(c) + 1
      BY <1>0, <2>2
    <3>2. <<PlaceOf(c, i), n>> \in E
      BY <2>2
    <3> HIDE DEF m
    <3>3. <<m, n>> \in Through(c, E)
      <4>1. n \notin DefsAt(c, m) /\ <<PlaceOf(c, m + 1), n>> \in E
        BY <1>8, <3>1, <3>2
      <4>2. QED
        BY <3>1, <4>1, ThroughPlaces
    <3>4. PlaceOf(c, m) = m
      BY <1>0, <3>1 DEF PlaceOf
    <3>5. m \in T
      BY <1>2, <3>1, <3>3, <3>4
    <3>6. QED
      BY <3>5 DEF m
  <2> HIDE DEF T
  <2>3. \A i \in j .. Len(c) + 1 : i \in T
    <3>1. j \in Int /\ Len(c) + 1 \in Int
      BY <1>0
    <3>2. QED
      BY <2>1, <2>2, <3>1, Descend
  <2>4. j \in j .. Len(c) + 1 /\ PlaceOf(c, j) = j
    BY <1>0 DEF PlaceOf
  <2>5. QED
    BY <2>3, <2>4 DEF T
<1>9. QED
  BY <1>7, <1>8 DEF E

\* A name is needed where it is live and where it will be assigned.
LEMMA NeededIs ==
  ASSUME NEW c, Structured(c), NEW n \in NamesOf(c), NEW j \in 1 .. Len(c) + 1
  PROVE  <<PlaceOf(c, j), n>> \in Needed(c) <=>
           j \in LivePlaces(c, n, {}) \/ \E m \in j .. Len(c) : n \in DefsAt(c, m)
<1>0. Len(c) \in Nat \ {0} /\ DOMAIN c = 1 .. Len(c)
  BY StructuredParts
<1> DEFINE p == PlaceOf(c, j)
<1>1. <<p, n>> \in LiveIn(c) <=> j \in LivePlaces(c, n, {})
  BY LivePair
<1>2. <<p, n>> \in Needed(c) <=>
        \/ <<p, n>> \in LiveIn(c)
        \/ p \in 1 .. Len(c) /\ <<p, n>> \notin Escapes(c)
  BY <1>0 DEF Needed, LiveIn, Escapes
<1>3. CASE j = Len(c) + 1
  <2>1. p \notin 1 .. Len(c) /\ j .. Len(c) = {}
    BY <1>0, <1>3 DEF PlaceOf
  <2> HIDE DEF p
  <2>2. QED
    BY <1>1, <1>2, <2>1 DEF p
<1>4. CASE j # Len(c) + 1
  <2>1. p = j /\ j \in 1 .. Len(c)
    BY <1>0, <1>4 DEF PlaceOf
  <2>2. <<j, n>> \notin Escapes(c) <=> \E m \in j .. Len(c) : n \in DefsAt(c, m)
    BY <2>1, EscapesAre
  <2>3. QED
    BY <1>1, <1>2, <2>1, <2>2
<1>5. QED
  BY <1>3, <1>4

\* Nothing else is needed.
LEMMA NeededNames ==
  ASSUME NEW c, Structured(c), NEW j, NEW n, <<j, n>> \in Needed(c)
  PROVE  n \in NamesOf(c)
<1>1. LiveIn(c) = LeastOf(c, {}, LiveBase(c, {}))
  BY LiveIs, FS_EmptySet DEF LiveIn
<1>2. LiveIn(c) \in SUBSET Universe(c, {})
  BY <1>1, LiveBaseFacts, LeastSolves
<1>3. \A x \in LiveIn(c) : x[2] \in NamesOf(c)
  BY <1>2 DEF Universe
<1>4. QED
  BY <1>3 DEF Needed, LiveIn

-------------------------------------------------------------------------------
(* What the exact marks say *)

\* The fields of the marked code.
LEMMA ExactFields ==
  ASSUME NEW c
  PROVE  /\ ExactlyMarked(c).code = c /\ ExactlyMarked(c).last = LastOccurrences(c, {})
         /\ ExactlyMarked(c).deletes = DeadAfterLoop(c, {})
         /\ ExactlyMarked(c).needed = Needed(c)
BY DEF ExactlyMarked

\* A parameter is the last use if no other is taken after it and the name is not live then.
LEMMA LastUseIs ==
  ASSUME NEW c, Structured(c), NEW q \in ParNodes(c)
  PROVE  <<q, 0>> \in LastOccurrences(c, {}) <=>
           /\ \A p \in ParNodes(c) :
                ~(p < q /\ c[p].name = c[q].name /\ Consumer(c, p) = Consumer(c, q))
           /\ c[q].name \in DefsAt(c, Consumer(c, q))
                \/ Consumer(c, q) + 1 \notin LivePlaces(c, c[q].name, {})
<1> DEFINE k == Consumer(c, q)
           n == c[q].name
<1>1. k \in 1 .. Len(c) /\ c[k].op # "jump"
  <2>1. Len(c) \in Nat /\ q \in 1 .. Len(c) /\ k \in q + 1 .. Len(c)
        /\ c[k].op \in {"nonass", "expr", "ass"}
    BY StructuredParts, ConsumerFacts
  <2> HIDE DEF k
  <2>2. QED
    BY <2>1
<1>2. \A p \in ParNodes(c) : Consumers(c)[p] = Consumer(c, p)
  BY DEF Consumers
<1>3. LiveAfter(c, Live(c, Consumers(c), {}), k, n) <=> k + 1 \in LivePlaces(c, n, {})
  <2> HIDE DEF k, n
  <2>1. QED
    BY <1>1, LiveAfterIs
<1>4. <<q, 0>> \in Occurrences(c)
  BY DEF Occurrences
<1>5. <<q, 0>> \in LastOccurrences(c, {}) <=> ~UsedAgain(c, {}, q)
  BY <1>4, LastOccurrencesAre DEF NeededAfter
<1>6. UsedAgain(c, {}, q) <=>
        \/ \E p \in ParNodes(c) : p < q /\ c[p].name = n /\ Consumer(c, p) = k
        \/ n \notin DefsAt(c, k) /\ k + 1 \in LivePlaces(c, n, {})
  BY <1>2, <1>3 DEF UsedAgain
<1>7. QED
  BY <1>5, <1>6

\* Of the parameters that a node takes, the first is the last use if the name is dead then.
LEMMA FirstIsLast ==
  ASSUME NEW c, Structured(c), NEW q \in ParNodes(c),
         Consumer(c, q) + 1 \notin LivePlaces(c, c[q].name, {})
  PROVE  \E p \in ParNodes(c) :
           /\ c[p].name = c[q].name /\ Consumer(c, p) = Consumer(c, q)
           /\ <<p, 0>> \in LastOccurrences(c, {})
<1> DEFINE n == c[q].name
           k == Consumer(c, q)
           S == {p \in ParNodes(c) : c[p].name = n /\ Consumer(c, p) = k}
<1>1. S \in SUBSET Nat /\ S # {}
  <2>1. \A p \in ParNodes(c) : p \in Nat
    BY ParFacts, StructuredParts
  <2>2. q \in S
    OBVIOUS
  <2>3. QED
    BY <2>1, <2>2
<1> HIDE DEF S
<1>2. PICK p \in S : \A r \in S : p <= r
  BY <1>1, Smallest
<1>3. p \in ParNodes(c) /\ c[p].name = n /\ Consumer(c, p) = k /\ p \in Nat
  BY <1>1 DEF S
<1>4. ASSUME NEW r \in ParNodes(c), r < p, c[r].name = n, Consumer(c, r) = k
      PROVE  FALSE
  <2>1. r \in S /\ r \in Nat
    BY <1>1, <1>4 DEF S
  <2>2. p <= r
    BY <1>2, <2>1
  <2>3. QED
    BY <1>3, <1>4, <2>1, <2>2
<1>5. <<p, 0>> \in LastOccurrences(c, {})
  BY <1>3, <1>4, LastUseIs
<1>6. QED
  BY <1>3, <1>5

\* Where control goes.
LEMMA SuccPlaces ==
  ASSUME NEW c, Structured(c), NEW i \in 1 .. Len(c), NEW j
  PROVE  /\ j \in SuccSet(c, i) <=>
              j = PlaceOf(c, i + 1) \/ (LoopEnd(c, i) /\ j = c[i].blk)
         /\ Succ(c, i, FALSE) = PlaceOf(c, i + 1)
         /\ LoopEnd(c, i) => c[i].op = "jump" /\ c[i].blk \in 1 .. i - 1
<1>0. Len(c) \in Nat /\ NodeOK(c, i)
  BY StructuredParts
<1>1. Succ(c, i, FALSE) = PlaceOf(c, i + 1)
  BY <1>0 DEF Succ, PlaceOf
<1>2. LoopEnd(c, i) => Succ(c, i, TRUE) = c[i].blk
  BY DEF Succ, LoopEnd
<1>3. LoopEnd(c, i) => c[i].op = "jump" /\ c[i].blk \in 1 .. i - 1
  BY <1>0 DEF LoopEnd, NodeOK
<1>4. j \in SuccSet(c, i) <=> j = PlaceOf(c, i + 1) \/ (LoopEnd(c, i) /\ j = c[i].blk)
  BY <1>1, <1>2 DEF SuccSet, LoopEnd
<1>5. QED
  BY <1>1, <1>3, <1>4

\* What a jump node deletes when it leaves its block.
LEMMA DeletesToIs ==
  ASSUME NEW c, Structured(c), NEW i \in 1 .. Len(c), NEW j, NEW n
  PROVE  DeletesTo(ExactlyMarked(c), i, j, n) <=>
           /\ LoopEnd(c, i) /\ j = PlaceOf(c, i + 1) /\ n \in NamesOf(c)
           /\ c[i].blk \in LivePlaces(c, n, {}) /\ i + 1 \notin LivePlaces(c, n, {})
<1>1. DeletesTo(ExactlyMarked(c), i, j, n) <=>
        /\ c[i].op = "jump" /\ j = PlaceOf(c, i + 1)
        /\ <<c[i].blk, n>> \in DeadAfterLoop(c, {})
  BY ExactFields, SuccPlaces DEF DeletesTo
<1>2. ASSUME c[i].op = "jump"
      PROVE  <<c[i].blk, n>> \in DeadAfterLoop(c, {}) <=>
               /\ HasBackBranch(c[i].kind) /\ n \in NamesOf(c)
               /\ c[i].blk \in LivePlaces(c, n, {}) /\ i + 1 \notin LivePlaces(c, n, {})
  <2> DEFINE b == c[i].blk
  <2>1. b \in Blocks(c) /\ Closing(c, b) = i
    BY <1>2, ClosingOfJump
  <2>2. c[i].kind = c[b].kind
    BY <2>1, ClosingFacts
  <2> HIDE DEF b
  <2>3. <<b, n>> \in DeadAfterLoop(c, {}) <=>
          \E b1 \in Blocks(c), n1 \in NamesOf(c) :
            /\ HasBackBranch(c[b1].kind) /\ <<b, n>> = <<b1, n1>>
            /\ b1 \in LivePlaces(c, n1, {})
            /\ Closing(c, b1) + 1 \notin LivePlaces(c, n1, {})
    BY DeadIs
  <2>4. <<b, n>> \in DeadAfterLoop(c, {}) <=>
          /\ HasBackBranch(c[b].kind) /\ n \in NamesOf(c)
          /\ b \in LivePlaces(c, n, {}) /\ Closing(c, b) + 1 \notin LivePlaces(c, n, {})
    BY <2>1, <2>3
  <2>5. QED
    BY <2>1, <2>2, <2>4 DEF b
<1>3. QED
  BY <1>1, <1>2 DEF LoopEnd

\* The entrance of a loop is live with its end, if nothing in the loop assigns the name.
LEMMA LiveAtEntrance ==
  ASSUME NEW c, Structured(c), NEW i \in 1 .. Len(c), LoopEnd(c, i), NEW n \in NamesOf(c),
         i \in LivePlaces(c, n, {}), NEW b, b = c[i].blk,
         \A m \in b .. Len(c) : n \notin DefsAt(c, m)
  PROVE  b \in LivePlaces(c, n, {})
<1>1. Len(c) \in Nat /\ b \in 1 .. i - 1 /\ IsFiniteSet({})
  BY StructuredParts, SuccPlaces, FS_EmptySet
<1>2. /\ b \in 1 .. Len(c) + 1 /\ i \in b .. Len(c) + 1
      /\ \A m \in b .. i - 1 : m \in b .. Len(c)
  BY <1>1
<1>3. \A m \in b .. i - 1 : n \notin DefsAt(c, m)
  BY <1>2
<1>4. QED
  BY <1>1, <1>2, <1>3, LiveDown

\* What an assignment keeps.
LEMMA KeepsIs ==
  ASSUME NEW c, Structured(c), NEW i \in 1 .. Len(c), c[i].op = "ass", NEW n \in DefsAt(c, i)
  PROVE  Keeps(ExactlyMarked(c), i, n) <=> i + 1 \in LivePlaces(c, n, {})
<1> DEFINE lhs == c[i].lhs
           Later(k) == \A m \in k + 1 .. Len(lhs) : lhs[m] # lhs[k]
           live == i + 1 \in LivePlaces(c, n, {})
<1>0. Len(c) \in Nat /\ DOMAIN c = 1 .. Len(c) /\ NodeOK(c, i)
  BY StructuredParts
<1>1. Len(lhs) \in Nat /\ DOMAIN lhs = 1 .. Len(lhs)
  BY <1>0, LenProperties DEF NodeOK
<1>2. LiveAfter(c, Live(c, Consumers(c), {}), i, n) <=> live
  BY LiveAfterIs
<1>3. ASSUME NEW k \in 1 .. Len(lhs), lhs[k] = n
      PROVE  <<i, k>> \notin LastOccurrences(c, {}) <=> live /\ Later(k)
  <2>1. <<i, k>> \in Occurrences(c)
    BY <1>0, <1>1 DEF Occurrences
  <2>2. k # 0
    BY <1>1
  <2>3. <<i, k>> \notin LastOccurrences(c, {}) <=> StaysLive(c, {}, i, k)
    BY <2>1, <2>2, LastOccurrencesAre DEF NeededAfter
  <2>4. (\A m \in DOMAIN lhs : m > k => lhs[m] # lhs[k]) <=> Later(k)
    <3>1. \A m : m \in DOMAIN lhs /\ m > k <=> m \in k + 1 .. Len(lhs)
      BY <1>1
    <3>2. QED
      BY <3>1
  <2>5. StaysLive(c, {}, i, k) <=> live /\ Later(k)
    BY <1>2, <1>3, <2>4 DEF StaysLive
  <2>6. QED
    BY <2>3, <2>5
<1>4. Keeps(ExactlyMarked(c), i, n) <=>
        \E k \in 1 .. Len(lhs) :
          /\ lhs[k] = n /\ <<i, k>> \notin LastOccurrences(c, {})
          /\ \A m \in k + 1 .. Len(lhs) : lhs[m] # n
  <2> DEFINE x == ExactlyMarked(c)
  <2>1. x.code = c /\ x.last = LastOccurrences(c, {})
    BY ExactFields
  <2> HIDE DEF x
  <2>2. Keeps(x, i, n) <=>
          \E k \in 1 .. Len(lhs) :
            /\ lhs[k] = n /\ <<i, k>> \notin x.last
            /\ \A m \in k + 1 .. Len(lhs) : lhs[m] # n
    BY <2>1 DEF Keeps
  <2>3. QED
    BY <2>1, <2>2 DEF x
<1>5. \E k \in 1 .. Len(lhs) : lhs[k] = n /\ Later(k)
  <2> DEFINE S == {Len(lhs) - k : k \in {m \in 1 .. Len(lhs) : lhs[m] = n}}
  <2>1. S \in SUBSET Nat /\ S # {}
    <3>1. \E k \in 1 .. Len(lhs) : lhs[k] = n
      BY <1>1 DEF DefsAt
    <3> HIDE DEF lhs
    <3>2. QED
      BY <1>1, <3>1
  <2>2. PICK y \in S : \A z \in S : y <= z
    <3> HIDE DEF S
    <3>1. QED
      BY <2>1, Smallest
  <2>3. PICK k \in 1 .. Len(lhs) : lhs[k] = n /\ y = Len(lhs) - k
    OBVIOUS
  <2>4. ASSUME NEW m \in k + 1 .. Len(lhs), lhs[m] = lhs[k]
        PROVE  FALSE
    <3> DEFINE u == Len(lhs)
    <3>1. m \in 1 .. u /\ lhs[m] = n
      <4>1. u \in Nat /\ k \in 1 .. u /\ m \in k + 1 .. u
        BY <1>1, <2>4
      <4> HIDE DEF u, lhs
      <4>2. m \in 1 .. u
        BY <4>1
      <4>3. QED
        BY <2>3, <2>4, <4>2
    <3>2. u - m \in S
      BY <3>1
    <3>3. u - k <= u - m
      BY <2>2, <2>3, <3>2
    <3>4. u \in Nat /\ k \in 1 .. u /\ m \in k + 1 .. u
      BY <1>1, <2>4
    <3> HIDE DEF u, lhs
    <3>5. QED
      BY <3>3, <3>4
  <2>5. QED
    BY <2>3, <2>4
<1>6. QED
  BY <1>3, <1>4, <1>5

\* An assignment of a deferred operator is to something that is not a name.
LEMMA AssignedIs ==
  ASSUME NEW c, NEW names, Executable(c, names), NEW i \in 1 .. Len(c), NEW n \in names
  PROVE  /\ n \in Assigned(c, i) <=> n \in DefsAt(c, i)
         /\ n \in Assigned(c, i) => c[i].op = "ass"
<1>0. Structured(c) /\ Len(c) \in Nat
  BY ExecutableParts
<1>1. CASE c[i].op # "ass"
  <2>1. DefsAt(c, i) = {}
    BY <1>0, <1>1, NoDefs
  <2>2. QED
    BY <1>1, <2>1 DEF Assigned
<1>2. CASE c[i].op = "ass" /\ AfterDeferred(c, i)
  <2> DEFINE m == i - 1
  <2>1. m \in 1 .. Len(c) /\ m + 1 = i /\ IsDeferred(c[m])
    BY <1>0, <1>2 DEF AfterDeferred
  <2> HIDE DEF m
  <2>2. Len(c[i].lhs) = 1 /\ c[i].lhs[1] \notin names
    BY <2>1, ExecutableParts
  <2>3. DOMAIN c[i].lhs = 1 .. 1
    BY <1>0, <2>2, StructuredParts, LenProperties DEF NodeOK
  <2>4. n \notin DefsAt(c, i)
    BY <2>2, <2>3 DEF DefsAt
  <2>5. QED
    BY <1>2, <2>4 DEF Assigned
<1>3. CASE c[i].op = "ass" /\ ~AfterDeferred(c, i)
  BY <1>3 DEF Assigned
<1>4. QED
  BY <1>1, <1>2, <1>3

\* A parameter read last, of those of the exactly marked code.
LEMMA ReadsLastIs ==
  ASSUME NEW c, NEW q, NEW n
  PROVE  ReadsLast(ExactlyMarked(c), q, n) <=>
           c[q].op = "par" /\ c[q].name = n /\ <<q, 0>> \in LastOccurrences(c, {})
BY ExactFields DEF ReadsLast, Reads

\* Of several entries with a name, the last use is popped last.
LEMMA ExactPopsInOrder ==
  ASSUME NEW c, NEW names, Executable(c, names), NEW i \in 1 .. Len(c)
  PROVE  PopsInOrder(ExactlyMarked(c), Waiting(c)[i], names)
<1> DEFINE s == Waiting(c)[i]
           x == ExactlyMarked(c)
<1>0. Structured(c) /\ Len(c) \in Nat
  BY ExecutableParts
<1>1. Len(s) \in Nat
  BY WaitingParts, LenProperties
<1>2. /\ \A a \in 1 .. Len(s) : c[s[a]].op = "par" =>
           /\ s[a] \in ParNodes(c) /\ s[a] < i /\ i <= Taker(c, s[a])
           /\ Depth(c)[s[a]] = a - 1
  BY OnStack
<1> HIDE DEF s
<1>3. ASSUME NEW b \in 1 .. Len(s), NEW a \in 1 .. b - 1, NEW n,
             c[s[a]].op = "par", c[s[a]].name = n, c[s[b]].op = "par", c[s[b]].name = n,
             <<s[b], 0>> \in LastOccurrences(c, {})
      PROVE  FALSE
  <2> DEFINE p == s[a]
             q == s[b]
             k == Consumer(c, p)
             m == Consumer(c, q)
  <2>1. a \in 1 .. Len(s) /\ a - 1 < b - 1
    BY <1>1
  <2>2. /\ p \in ParNodes(c) /\ q \in ParNodes(c) /\ p < i /\ q < i
        /\ i <= Taker(c, p) /\ i <= Taker(c, q)
        /\ Depth(c)[p] = a - 1 /\ Depth(c)[q] = b - 1
    BY <1>2, <1>3, <2>1
  <2>3. c[p].name = n /\ c[q].name = n /\ <<q, 0>> \in LastOccurrences(c, {})
    BY <1>3
  <2> HIDE DEF p, q
  <2>4. Depth(c)[p] < Depth(c)[q]
    BY <2>1, <2>2
  <2>5. /\ p \in 1 .. Len(c) /\ k \in p + 1 .. Len(c) /\ Taker(c, p) \in {k, k + 1}
        /\ q \in 1 .. Len(c) /\ m \in q + 1 .. Len(c) /\ Taker(c, q) \in {m, m + 1}
        /\ c[p].op = "par" /\ c[q].op = "par" /\ c[m].op # "jump"
        /\ (Taker(c, p) = k + 1 => IsDeferred(c[k]) \/ c[k].op = "nonass")
        /\ (Taker(c, q) = m + 1 => IsDeferred(c[m]) \/ c[m].op = "nonass")
    <3>1. /\ p \in 1 .. Len(c) /\ k \in p + 1 .. Len(c) /\ Taker(c, p) \in {k, k + 1}
          /\ (Taker(c, p) = k + 1 => IsDeferred(c[k]) \/ c[k].op = "nonass")
      <4>1. k \in p + 1 .. Len(c) /\ p \in 1 .. Len(c)
        BY <2>2, TakerCases
      <4>2. k # k + 1
        BY <4>1
      <4>3. QED
        BY <2>2, <4>1, <4>2, TakerCases
    <3>2. /\ q \in 1 .. Len(c) /\ m \in q + 1 .. Len(c) /\ Taker(c, q) \in {m, m + 1}
          /\ (Taker(c, q) = m + 1 => IsDeferred(c[m]) \/ c[m].op = "nonass")
      <4>1. m \in q + 1 .. Len(c) /\ q \in 1 .. Len(c)
        BY <2>2, TakerCases
      <4>2. m # m + 1
        BY <4>1
      <4>3. QED
        BY <2>2, <4>1, <4>2, TakerCases
    <3>3. c[p].op = "par" /\ c[q].op = "par" /\ c[m].op # "jump"
      BY <1>0, <2>2, ParFacts, ConsumerFacts
    <3>4. QED
      BY <3>1, <3>2, <3>3
  <2>6. q < k /\ p < m
    <3>1. k \in 1 .. Len(c) /\ m \in 1 .. Len(c) /\ i \in 1 .. Len(c)
      <4> HIDE DEF k, m
      <4>1. QED
        BY <1>0, <2>5
    <3>2. Taker(c, p) = k + 1 => c[k].op # "par"
      BY <2>5 DEF IsDeferred
    <3>3. Taker(c, q) = m + 1 => c[m].op # "par"
      BY <2>5 DEF IsDeferred
    <3>4. k # q
      BY <1>0, <2>2, <2>5, ConsumerFacts
    <3>5. m # p
      BY <1>0, <2>2, <2>5, ConsumerFacts
    <3> HIDE DEF k, m
    <3>6. QED
      BY <1>0, <2>2, <2>5, <3>1, <3>4, <3>5
  <2>7. p < q /\ m <= k
    BY <1>0, <2>2, <2>4, <2>6, UpperIsInner
  <2>8. /\ m # k
        /\ n \in DefsAt(c, m) \/ m + 1 \notin LivePlaces(c, n, {})
    BY <1>0, <2>2, <2>3, <2>7, LastUseIs
  <2>9. m \in 1 .. Len(c) /\ p < m /\ m < k /\ m + 1 \in p .. k
    <3> HIDE DEF k, m
    <3>1. QED
      BY <1>0, <2>5, <2>7, <2>8
  <2>10. n \notin DefsAt(c, m)
    <3>1. c[m].op # "ass"
      BY <2>2, <2>9, NothingBetween
    <3> HIDE DEF m
    <3>2. QED
      BY <1>0, <2>9, <3>1, NoDefs
  <2>11. m + 1 \in LivePlaces(c, n, {})
    <3> DEFINE z == m + 1
    <3>1. z \in p .. Consumer(c, p)
      BY <2>9
    <3> HIDE DEF z, m
    <3>2. z \in LivePlaces(c, n, {})
      BY <2>2, <2>3, <3>1, LiveBeforeUse
    <3>3. QED
      BY <3>2 DEF z
  <2>12. QED
    BY <2>8, <2>10, <2>11
<1>4. ASSUME NEW b \in 1 .. Len(s), NEW a \in 1 .. b - 1, NEW n \in names
      PROVE  ~(Reads(x.code, s[a], n) /\ ReadsLast(x, s[b], n))
  <2>1. Reads(x.code, s[a], n) <=> c[s[a]].op = "par" /\ c[s[a]].name = n
    BY ExactFields DEF Reads
  <2>2. ReadsLast(x, s[b], n) =>
          c[s[b]].op = "par" /\ c[s[b]].name = n /\ <<s[b], 0>> \in LastOccurrences(c, {})
    BY ReadsLastIs
  <2> HIDE DEF x
  <2>3. QED
    BY <1>3, <2>1, <2>2
<1>5. QED
  BY <1>4 DEF PopsInOrder, s

\* A name that is live after a node was live before it and is not taken from it.
LEMMA ExactKeeps ==
  ASSUME NEW c, NEW names, Executable(c, names), NEW i \in 1 .. Len(c),
         NEW j \in Next1(c, i), NEW n \in names, <<j, n>> \in LiveIn(c)
  PROVE  /\ ~DeletesTo(ExactlyMarked(c), i, j, n)
         /\ IF n \in Assigned(c, i) THEN Keeps(ExactlyMarked(c), i, n)
            ELSE <<i, n>> \in LiveIn(c) /\ ~TakesLast(ExactlyMarked(c), Waiting(c), i, n)
<1> DEFINE L == LivePlaces(c, n, {})
           x == ExactlyMarked(c)
<1>0. Structured(c) /\ Len(c) \in Nat /\ IsFiniteSet({})
  BY ExecutableParts, FS_EmptySet
<1>1. j \in 1 .. Len(c) /\ j \in SuccSet(c, i)
  BY DEF Next1
<1>2. n \in NamesOf(c) /\ j \in L
  BY <1>0, <1>1, LiveAtNode
<1>3. j = i + 1 \/ (LoopEnd(c, i) /\ j = c[i].blk)
  <2>1. j = PlaceOf(c, i + 1) \/ (LoopEnd(c, i) /\ j = c[i].blk)
    BY <1>0, <1>1, SuccPlaces
  <2>2. j # 0
    BY <1>0, <1>1
  <2>3. QED
    BY <2>1, <2>2 DEF PlaceOf
<1>4. ~DeletesTo(x, i, j, n)
  <2> SUFFICES ASSUME DeletesTo(x, i, j, n)
               PROVE  FALSE
    OBVIOUS
  <2>1. j = PlaceOf(c, i + 1) /\ i + 1 \notin L
    BY <1>0, DeletesToIs
  <2>2. j = i + 1
    BY <1>0, <1>1, <2>1 DEF PlaceOf
  <2>3. QED
    BY <1>2, <2>1, <2>2
<1>5. CASE n \in Assigned(c, i)
  <2>1. n \in DefsAt(c, i) /\ c[i].op = "ass"
    BY <1>5, AssignedIs
  <2>2. j = i + 1
    BY <1>3, <2>1 DEF LoopEnd
  <2>3. Keeps(x, i, n)
    BY <1>0, <1>2, <2>1, <2>2, KeepsIs
  <2>4. QED
    BY <1>4, <1>5, <2>3
<1>6. CASE n \notin Assigned(c, i)
  <2>1. n \notin DefsAt(c, i)
    BY <1>6, AssignedIs
  <2>2. i \in L
    BY <1>0, <1>2, <1>3, <2>1, LivePlacesFacts
  <2>3. <<i, n>> \in LiveIn(c)
    BY <1>0, <1>2, <2>2, LiveAtNode
  <2>4. ~TakesLast(x, Waiting(c), i, n)
    <3> SUFFICES ASSUME NEW q \in Taken(c, Waiting(c), i), ReadsLast(x, q, n)
                 PROVE  FALSE
      BY ExactFields DEF TakesLast
    <3>1. c[q].op = "par" /\ c[q].name = n /\ <<q, 0>> \in LastOccurrences(c, {})
      BY ReadsLastIs
    <3>2. q \in ParNodes(c) /\ Taker(c, q) = i
      BY <3>1, TakenIs
    <3> DEFINE k == Consumer(c, q)
    <3>3. n \in DefsAt(c, k) \/ k + 1 \notin L
      BY <1>0, <3>1, <3>2, LastUseIs
    <3>4. k \in 1 .. Len(c) /\ c[k].op \in {"nonass", "expr", "ass"}
      <4>1. q \in 1 .. Len(c) /\ k \in q + 1 .. Len(c) /\ c[k].op \in {"nonass", "expr", "ass"}
        BY <1>0, <3>2, ConsumerFacts
      <4> HIDE DEF k
      <4>2. QED
        BY <1>0, <4>1
    <3>5. CASE IsDeferred(c[k]) \/ c[k].op = "nonass"
      <4>1. k + 1 = i
        BY <3>2, <3>5, TakerCases
      <4>2. n \notin DefsAt(c, k)
        <5> HIDE DEF k
        <5>1. c[k].op # "ass"
          BY <3>5 DEF IsDeferred
        <5>2. QED
          BY <1>0, <3>4, <5>1, NoDefs
      <4>3. QED
        BY <2>2, <3>3, <4>1, <4>2
    <3>6. CASE ~(IsDeferred(c[k]) \/ c[k].op = "nonass")
      <4>1. k = i
        BY <3>2, <3>6, TakerCases
      <4>2. j = i + 1
        BY <1>3, <3>4, <4>1 DEF LoopEnd
      <4>3. QED
        BY <1>2, <2>1, <3>3, <4>1, <4>2
    <3>7. QED
      BY <3>5, <3>6
  <2>5. QED
    BY <1>4, <1>6, <2>3, <2>4
<1>7. QED
  BY <1>5, <1>6

\* With the exact marks no value is taken away that is still used.
LEMMA ExactUsesKept ==
  ASSUME NEW c, NEW names, Executable(c, names)
  PROVE  UsesKept(ExactlyMarked(c), Waiting(c), LiveIn(c), names)
<1> DEFINE x == ExactlyMarked(c)
<1>0. Structured(c) /\ x.code = c
  BY ExecutableParts, ExactFields
<1>1. ASSUME NEW i \in 1 .. Len(c), c[i].op = "par"
      PROVE  <<i, c[i].name>> \in LiveIn(c)
  <2>1. i \in ParNodes(c) /\ i \in 1 .. Len(c)
    BY <1>0, <1>1, StructuredParts DEF ParNodes
  <2> DEFINE k == Consumer(c, i)
  <2>2. i \in i .. k
    <3>1. k \in i + 1 .. Len(c) /\ Len(c) \in Nat
      BY <1>0, <2>1, ParFacts, StructuredParts
    <3> HIDE DEF k
    <3>2. QED
      BY <2>1, <3>1
  <2>3. c[i].name \in NamesOf(c) /\ i \in LivePlaces(c, c[i].name, {})
    BY <2>1, <2>2, LiveBeforeUse
  <2>4. QED
    BY <1>0, <2>1, <2>3, LiveAtNode
<1> HIDE DEF x
<1>2. ASSUME NEW i \in 1 .. Len(c)
      PROVE  PopsInOrder(x, Waiting(c)[i], names)
  BY ExactPopsInOrder DEF x
<1>3. ASSUME NEW i \in 1 .. Len(c), NEW j \in Next1(c, i), NEW n \in names,
             <<j, n>> \in LiveIn(c)
      PROVE  /\ ~DeletesTo(x, i, j, n)
             /\ IF n \in Assigned(c, i) THEN Keeps(x, i, n)
                ELSE <<i, n>> \in LiveIn(c) /\ ~TakesLast(x, Waiting(c), i, n)
  BY <1>3, ExactKeeps DEF x
<1>4. UsesKept(x, Waiting(c), LiveIn(c), names)
  BY <1>0, <1>1, <1>2, <1>3, Zenon DEF UsesKept
<1>5. QED
  BY <1>4 DEF x

\* A name that is live before such a node is used there, or deleted.
LEMMA QuitsLive ==
  ASSUME NEW c, Structured(c), NEW i \in 1 .. Len(c), NEW g, NEW n, Quits(c, i, g, n),
         ~Drops(c, i, g, n), i \in LivePlaces(c, n, {})
  PROVE  UsedAt(c, n, i)
<1> DEFINE L == LivePlaces(c, n, {})
<1>0. Len(c) \in Nat /\ IsFiniteSet({}) /\ n \in NamesOf(c)
  BY StructuredParts, FS_EmptySet DEF Quits
<1>1. UsedAt(c, n, i) \/ i + 1 \in L \/ (LoopEnd(c, i) /\ c[i].blk \in L)
  BY <1>0, LivePlacesFacts
<1>2. CASE g = i + 1
  BY <1>1, <1>2 DEF Quits, Drops
<1>3. CASE LoopEnd(c, i) /\ g = c[i].blk
  <2>1. g \in L
    BY <1>0, <1>3, LiveAtEntrance DEF Quits
  <2>2. QED
    BY <2>1 DEF Quits
<1>4. QED
  BY <1>2, <1>3 DEF Quits

\* If such a node takes the name, one of the parameters it takes is the last use.
LEMMA QuitsTaken ==
  ASSUME NEW c, NEW names, Executable(c, names), NEW i \in 1 .. Len(c), NEW g, NEW n,
         Quits(c, i, g, n), ~Drops(c, i, g, n),
         NEW q \in ParNodes(c), Taker(c, q) = i, c[q].name = n
  PROVE  \E p \in ParNodes(c) :
           Taker(c, p) = i /\ c[p].name = n /\ <<p, 0>> \in LastOccurrences(c, {})
<1> DEFINE L == LivePlaces(c, n, {})
           k == Consumer(c, q)
<1>0. Structured(c) /\ Len(c) \in Nat
  BY ExecutableParts
<1>1. ASSUME k + 1 \notin L
      PROVE  \E p \in ParNodes(c) :
               Taker(c, p) = i /\ c[p].name = n /\ <<p, 0>> \in LastOccurrences(c, {})
  <2>1. PICK p \in ParNodes(c) :
          c[p].name = n /\ Consumer(c, p) = k /\ <<p, 0>> \in LastOccurrences(c, {})
    BY <1>0, <1>1, FirstIsLast
  <2>2. Taker(c, p) = Taker(c, q)
    BY <2>1 DEF Taker
  <2>3. QED
    BY <2>1, <2>2
<1>2. k \in 1 .. Len(c) /\ c[k].op \in {"nonass", "expr", "ass"}
  <2>1. q \in 1 .. Len(c) /\ k \in q + 1 .. Len(c) /\ c[k].op \in {"nonass", "expr", "ass"}
    BY <1>0, ConsumerFacts
  <2> HIDE DEF k
  <2>2. QED
    BY <1>0, <2>1
<1>3. CASE ~(IsDeferred(c[k]) \/ c[k].op = "nonass")
  <2>1. k = i
    BY <1>3, TakerCases
  <2>2. g = i + 1
    BY <1>2, <2>1 DEF Quits, LoopEnd
  <2>3. k + 1 \notin L
    BY <2>1, <2>2 DEF Quits
  <2>4. QED
    BY <1>1, <2>3
<1>4. CASE IsDeferred(c[k]) \/ c[k].op = "nonass"
  <2>1. k + 1 = i /\ Late(c, i)
    BY <1>4, TakerCases
  <2>2. i \notin L
    <3> SUFFICES ASSUME i \in L
                 PROVE  FALSE
      OBVIOUS
    <3>1. UsedAt(c, n, i)
      BY <1>0, QuitsLive
    <3>2. PICK p \in ParNodes(c) : Consumer(c, p) = i
      BY <3>1 DEF UsedAt
    <3>3. ~Late(c, i)
      BY <3>2, TakerCases
    <3>4. QED
      BY <2>1, <3>3
  <2>3. QED
    BY <1>1, <2>1, <2>2
<1>5. QED
  BY <1>3, <1>4

\* If it does not take the name, there is no reason to keep it before the node either.
LEMMA QuitsUntaken ==
  ASSUME NEW c, NEW names, Executable(c, names), NEW i \in 1 .. Len(c), NEW g, NEW n,
         Quits(c, i, g, n), ~Drops(c, i, g, n),
         \A q \in ParNodes(c) : Taker(c, q) = i => c[q].name # n
  PROVE  /\ i \notin LivePlaces(c, n, {}) /\ \A m \in i .. Len(c) : n \notin DefsAt(c, m)
         /\ \A q \in ParNodes(c) : q < i /\ i <= Taker(c, q) /\ c[q].name = n =>
              <<q, 0>> \notin LastOccurrences(c, {})
<1> DEFINE L == LivePlaces(c, n, {})
<1>0. Structured(c) /\ Len(c) \in Nat
  BY ExecutableParts
<1>1. g = i + 1 \/ (LoopEnd(c, i) /\ g \in 1 .. i - 1)
  BY <1>0, SuccPlaces DEF Quits
<1>2. ASSUME i \in L
      PROVE  FALSE
  <2>1. PICK q \in ParNodes(c) : Consumer(c, q) = i /\ c[q].name = n
    BY <1>0, <1>2, QuitsLive DEF UsedAt
  <2>2. Taker(c, q) # i
    BY <2>1
  <2>3. Taker(c, q) = i + 1 /\ i + 1 \in q + 1 .. Len(c) /\ q \in 1 .. Len(c)
        /\ (IsDeferred(c[i]) \/ c[i].op = "nonass")
    BY <2>1, <2>2, TakerCases
  <2>4. g = i + 1
    BY <1>1, <2>3 DEF LoopEnd, IsDeferred
  <2>5. i + 1 \notin L
    BY <2>4 DEF Quits
  <2>6. PICK p \in ParNodes(c) :
          c[p].name = n /\ Consumer(c, p) = i /\ <<p, 0>> \in LastOccurrences(c, {})
    BY <1>0, <2>1, <2>5, FirstIsLast
  <2>7. Taker(c, p) = i + 1 /\ p \in 1 .. Len(c) /\ i \in p + 1 .. Len(c)
    BY <2>3, <2>6, TakerCases
  <2>8. p < g /\ g <= Taker(c, p)
    BY <1>0, <2>4, <2>7
  <2>9. QED
    BY <2>6, <2>8 DEF Quits
<1>3. ASSUME NEW m \in i .. Len(c)
      PROVE  n \notin DefsAt(c, m)
  <2>1. CASE m = i
    BY <2>1 DEF Quits
  <2>2. CASE m # i
    <3>1. m \in g .. Len(c)
      BY <1>0, <1>1, <2>2
    <3>2. QED
      BY <3>1 DEF Quits
  <2>3. QED
    BY <2>1, <2>2
<1>4. ASSUME NEW q \in ParNodes(c), q < i, i <= Taker(c, q), c[q].name = n
      PROVE  <<q, 0>> \notin LastOccurrences(c, {})
  <2> DEFINE t == Taker(c, q)
             k == Consumer(c, q)
  <2>1. t # i
    BY <1>4
  <2>2. /\ q \in 1 .. Len(c) /\ k \in q + 1 .. Len(c) /\ t \in q + 1 .. Len(c)
        /\ c[k].op # "jump" /\ (t = k \/ t = k + 1)
    BY <1>0, TakerCases, ConsumerFacts
  <2>3. i <= t
    BY <1>4
  <2> HIDE DEF t, k
  <2>4. i = k \/ (q < i /\ i < k)
    BY <1>0, <1>4, <2>1, <2>2, <2>3
  <2>5. c[i].op # "jump"
    BY <2>2, <2>4, NothingBetween DEF k
  <2>6. g = i + 1
    BY <1>1, <2>5 DEF LoopEnd
  <2>7. q < g /\ g <= t
    BY <1>0, <1>4, <2>1, <2>2, <2>3, <2>6
  <2>8. QED
    BY <1>4, <2>7 DEF Quits, t
<1>5. QED
  BY <1>2, <1>3, <1>4

\* The reasons to keep a name on arrival at a node.
LEMMA ReasonIs ==
  ASSUME NEW c, NEW names, Executable(c, names), NEW n \in NamesOf(c), NEW j \in 1 .. Len(c)
  PROVE  HasReason(ExactlyMarked(c), Waiting(c), j, n) <=>
           \/ j \in LivePlaces(c, n, {}) \/ \E m \in j .. Len(c) : n \in DefsAt(c, m)
           \/ \E q \in ParNodes(c) : /\ q < j /\ j <= Taker(c, q) /\ c[q].name = n
                                     /\ <<q, 0>> \in LastOccurrences(c, {})
<1> DEFINE x == ExactlyMarked(c)
           s == Waiting(c)[j]
<1>0. Structured(c) /\ Len(c) \in Nat
  BY ExecutableParts
<1>1. j \in 1 .. Len(c) + 1 /\ PlaceOf(c, j) = j /\ j # 0
  BY <1>0 DEF PlaceOf
<1>2. <<j, n>> \in x.needed <=>
        j \in LivePlaces(c, n, {}) \/ \E m \in j .. Len(c) : n \in DefsAt(c, m)
  BY <1>0, <1>1, NeededIs, ExactFields
<1>3. (\E a \in 1 .. Len(s) : ReadsLast(x, s[a], n)) <=>
        \E q \in ParNodes(c) : /\ q < j /\ j <= Taker(c, q) /\ c[q].name = n
                               /\ <<q, 0>> \in LastOccurrences(c, {})
  <2>1. \A a \in 1 .. Len(s) : c[s[a]].op = "par" =>
          s[a] \in ParNodes(c) /\ s[a] < j /\ j <= Taker(c, s[a])
    BY OnStack
  <2>2. \A q \in ParNodes(c) : q < j /\ j <= Taker(c, q) =>
          \E a \in 1 .. Len(s) : s[a] = q
    BY OnStack
  <2>3. \A q \in ParNodes(c) : c[q].op = "par"
    BY DEF ParNodes
  <2>4. \A q : ReadsLast(x, q, n) <=>
          c[q].op = "par" /\ c[q].name = n /\ <<q, 0>> \in LastOccurrences(c, {})
    BY ReadsLastIs
  <2> HIDE DEF x, s
  <2>5. QED
    BY <2>1, <2>2, <2>3, <2>4
<1>4. HasReason(x, Waiting(c), j, n) <=>
        <<j, n>> \in x.needed \/ \E a \in 1 .. Len(s) : ReadsLast(x, s[a], n)
  <2> HIDE DEF x
  <2>1. QED
    BY <1>1 DEF HasReason
<1>5. QED
  BY <1>2, <1>3, <1>4

\* What a node does with a name that there is no reason to keep after it.
LEMMA ExactEnds ==
  ASSUME NEW c, NEW names, Executable(c, names), NEW i \in 1 .. Len(c),
         NEW j \in SuccSet(c, i) \cap (0 .. Len(c)), NEW n \in names, n \in NamesOf(c),
         ~HasReason(ExactlyMarked(c), Waiting(c), j, n), n \notin Assigned(c, i)
  PROVE  \/ TakesLast(ExactlyMarked(c), Waiting(c), i, n)
         \/ DeletesTo(ExactlyMarked(c), i, j, n)
         \/ /\ ~HasReason(ExactlyMarked(c), Waiting(c), i, n)
            /\ \A q \in Taken(c, Waiting(c), i) : ~Reads(c, q, n)
<1> DEFINE x == ExactlyMarked(c)
           w == Waiting(c)
           g == IF j = 0 THEN Len(c) + 1 ELSE j
<1>0. Structured(c) /\ Len(c) \in Nat /\ IsFiniteSet({})
  BY ExecutableParts, FS_EmptySet
<1>1. j = PlaceOf(c, i + 1) \/ (LoopEnd(c, i) /\ j = c[i].blk /\ j \in 1 .. i - 1)
  BY <1>0, SuccPlaces
<1>2. /\ g \in 1 .. Len(c) + 1 /\ PlaceOf(c, g) = j
      /\ g = i + 1 \/ (LoopEnd(c, i) /\ g = c[i].blk)
  <2>1. j \in 0 .. Len(c)
    OBVIOUS
  <2>2. CASE j = 0
    <3>1. i + 1 = Len(c) + 1
      BY <1>0, <1>1, <2>2 DEF PlaceOf
    <3>2. QED
      BY <1>0, <2>2, <3>1 DEF PlaceOf
  <2>3. CASE j # 0
    <3>1. g = j /\ j \in 1 .. Len(c)
      BY <1>0, <2>1, <2>3
    <3>2. j = i + 1 \/ (LoopEnd(c, i) /\ j = c[i].blk)
      BY <1>1, <2>3 DEF PlaceOf
    <3>3. PlaceOf(c, j) = j /\ j \in 1 .. Len(c) + 1
      BY <1>0, <3>1 DEF PlaceOf
    <3>4. QED
      BY <3>1, <3>2, <3>3
  <2>4. QED
    BY <2>2, <2>3
<1>3. n \notin DefsAt(c, i)
  BY AssignedIs
<1> HIDE DEF x
<1>4. g \notin LivePlaces(c, n, {}) /\ \A m \in g .. Len(c) : n \notin DefsAt(c, m)
  <2>1. <<j, n>> \notin Needed(c)
    BY ExactFields DEF HasReason
  <2> HIDE DEF g
  <2>2. QED
    BY <1>0, <1>2, <2>1, NeededIs
<1>5. ASSUME NEW q \in ParNodes(c), q < g, g <= Taker(c, q), c[q].name = n
      PROVE  <<q, 0>> \notin LastOccurrences(c, {})
  <2>1. j \in 1 .. Len(c) /\ g = j
    <3> DEFINE t == Taker(c, q)
    <3>1. q \in 1 .. Len(c) /\ t \in q + 1 .. Len(c) /\ g <= t
      BY <1>5, TakerCases
    <3> HIDE DEF t
    <3>2. j # 0
      BY <1>0, <3>1
    <3>3. QED
      BY <1>0, <3>2
  <2>2. q < j /\ j <= Taker(c, q)
    BY <1>5, <2>1
  <2>3. QED
    BY <1>5, <2>1, <2>2, ReasonIs
<1> HIDE DEF g
<1>6. Quits(c, i, g, n)
  BY <1>2, <1>3, <1>4, <1>5 DEF Quits
<1>7. CASE Drops(c, i, g, n)
  <2>1. DeletesTo(x, i, j, n)
    BY <1>0, <1>2, <1>4, <1>7, DeletesToIs DEF Drops, x
  <2>2. QED
    BY <2>1 DEF x
<1>8. CASE ~Drops(c, i, g, n) /\ \E q \in ParNodes(c) : Taker(c, q) = i /\ c[q].name = n
  <2>1. PICK p \in ParNodes(c) :
          Taker(c, p) = i /\ c[p].name = n /\ <<p, 0>> \in LastOccurrences(c, {})
    BY <1>6, <1>8, QuitsTaken
  <2>2. p \in Taken(c, w, i) /\ c[p].op = "par"
    BY <2>1, TakenIs
  <2>3. ReadsLast(x, p, n)
    BY <2>1, <2>2, ReadsLastIs DEF x
  <2>4. TakesLast(x, w, i, n)
    BY <2>2, <2>3, ExactFields DEF TakesLast, x
  <2>5. QED
    BY <2>4 DEF x
<1>9. CASE ~Drops(c, i, g, n) /\ \A q \in ParNodes(c) : Taker(c, q) = i => c[q].name # n
  <2>1. /\ i \notin LivePlaces(c, n, {}) /\ \A m \in i .. Len(c) : n \notin DefsAt(c, m)
        /\ \A q \in ParNodes(c) : q < i /\ i <= Taker(c, q) /\ c[q].name = n =>
             <<q, 0>> \notin LastOccurrences(c, {})
    BY <1>6, <1>9, QuitsUntaken
  <2>2. ~HasReason(x, w, i, n)
    BY <2>1, ReasonIs DEF x
  <2>3. \A q \in Taken(c, w, i) : ~Reads(c, q, n)
    BY <1>9, TakenIs DEF Reads
  <2>4. QED
    BY <2>2, <2>3 DEF x
<1>10. QED
  BY <1>7, <1>8, <1>9

\* With the exact marks no value stays that is no longer needed.
LEMMA ExactUsesEnd ==
  ASSUME NEW c, NEW names, Executable(c, names)
  PROVE  UsesEnd(ExactlyMarked(c), Waiting(c), names)
<1> DEFINE x == ExactlyMarked(c)
           w == Waiting(c)
<1>0. Structured(c) /\ Len(c) \in Nat \ {0} /\ IsFiniteSet({})
  BY ExecutableParts, FS_EmptySet
<1>1. x.code = c /\ x.needed = Needed(c)
  BY ExactFields
<1> HIDE DEF x, w
<1>2. ASSUME NEW n \in names
      PROVE  <<0, n>> \notin x.needed
  <2> SUFFICES ASSUME <<0, n>> \in Needed(c)
               PROVE  FALSE
    BY <1>1
  <2>1. n \in NamesOf(c)
    BY <1>0, NeededNames
  <2> DEFINE e == Len(c) + 1
  <2>2. e \in 1 .. Len(c) + 1 /\ PlaceOf(c, e) = 0 /\ e .. Len(c) = {}
    BY <1>0 DEF PlaceOf
  <2>3. e \notin LivePlaces(c, n, {})
    BY <1>0, <2>1, LivePlacesFacts
  <2> HIDE DEF e
  <2>4. QED
    BY <1>0, <2>1, <2>2, <2>3, NeededIs
<1>3. ASSUME NEW i \in 1 .. Len(c), NEW j \in SuccSet(c, i) \cap (0 .. Len(c)), NEW n \in names
      PROVE  \/ HasReason(x, w, j, n)
             \/ IF n \in Assigned(c, i) THEN ~Keeps(x, i, n)
                ELSE \/ TakesLast(x, w, i, n)
                     \/ DeletesTo(x, i, j, n)
                     \/ /\ ~HasReason(x, w, i, n)
                        /\ \A q \in Taken(c, w, i) : ~Reads(c, q, n)
  <2> SUFFICES ASSUME ~HasReason(x, w, j, n)
               PROVE  IF n \in Assigned(c, i) THEN ~Keeps(x, i, n)
                      ELSE \/ TakesLast(x, w, i, n)
                           \/ DeletesTo(x, i, j, n)
                           \/ /\ ~HasReason(x, w, i, n)
                              /\ \A q \in Taken(c, w, i) : ~Reads(c, q, n)
    OBVIOUS
  <2>1. CASE n \in Assigned(c, i)
    <3>1. n \in DefsAt(c, i) /\ c[i].op = "ass" /\ n \in NamesOf(c)
      <4>1. n \in DefsAt(c, i) /\ c[i].op = "ass"
        BY <2>1, AssignedIs
      <4>2. i \in DOMAIN c
        BY <1>0, StructuredParts
      <4>3. QED
        BY <4>1, <4>2 DEF NamesOf
    <3>2. j = PlaceOf(c, i + 1) /\ i + 1 \in 1 .. Len(c) + 1
      <4>1. j \in SuccSet(c, i) /\ ~LoopEnd(c, i)
        BY <3>1 DEF LoopEnd
      <4>2. j = PlaceOf(c, i + 1)
        BY <1>0, <4>1, SuccPlaces
      <4>3. QED
        BY <1>0, <4>2
    <3>3. <<j, n>> \notin Needed(c)
      BY <1>1 DEF HasReason
    <3>4. i + 1 \notin LivePlaces(c, n, {})
      BY <1>0, <3>1, <3>2, <3>3, NeededIs
    <3>5. ~Keeps(x, i, n)
      BY <1>0, <3>1, <3>4, KeepsIs DEF x
    <3>6. QED
      BY <2>1, <3>5
  <2>2. CASE n \notin Assigned(c, i) /\ n \in NamesOf(c)
    <3>1. \/ TakesLast(x, w, i, n)
          \/ DeletesTo(x, i, j, n)
          \/ /\ ~HasReason(x, w, i, n)
             /\ \A q \in Taken(c, w, i) : ~Reads(c, q, n)
      BY <2>2, ExactEnds DEF x, w
    <3>2. QED
      BY <2>2, <3>1
  <2>3. CASE n \notin Assigned(c, i) /\ n \notin NamesOf(c)
    <3>1. \A q \in ParNodes(c) : c[q].name # n
      BY <2>3 DEF NamesOf
    <3>2. \A q \in Taken(c, w, i) : ~Reads(c, q, n)
      BY <3>1, TakenIs DEF Reads, w
    <3>3. <<i, n>> \notin x.needed
      BY <1>0, <1>1, <2>3, NeededNames
    <3>4. \A a \in 1 .. Len(w[i]) : ~ReadsLast(x, w[i][a], n)
      <4>1. \A a \in 1 .. Len(w[i]) : c[w[i][a]].op = "par" => w[i][a] \in ParNodes(c)
        BY OnStack DEF w
      <4>2. \A q : ReadsLast(x, q, n) => c[q].op = "par" /\ c[q].name = n
        BY <1>1 DEF ReadsLast, Reads
      <4>3. QED
        BY <3>1, <4>1, <4>2
    <3>5. ~HasReason(x, w, i, n)
      BY <3>3, <3>4 DEF HasReason
    <3>6. QED
      BY <2>3, <3>2, <3>5
  <2>4. QED
    BY <2>1, <2>2, <2>3
<1>4. UsesEnd(x, w, names)
  BY <1>1, <1>2, <1>3, Zenon DEF UsesEnd
<1>5. QED
  BY <1>4 DEF x, w

-------------------------------------------------------------------------------
(* What the executor gets *)

\* The code with the marks of the analysis, as the executor gets it.
Result == [code |-> code, last |-> last, deletes |-> deletes, needed |-> Needed(code)]

\* The marks of calc::setLastUse are such that a run over any names that the
\* script can be executed with finds every value that it still uses, and keeps
\* none that it does not.
THEOREM MarksServe ==
  Spec => [](phase = "done" /\ ~keepLiveAtEnd =>
               \A names : Executable(code, names) =>
                 /\ UsesKept(Result, Waiting(code), LiveIn(code), names)
                 /\ UsesEnd(Result, Waiting(code), names))
<1> DEFINE Served == phase = "done" /\ ~keepLiveAtEnd =>
                       \A names : Executable(code, names) =>
                         /\ UsesKept(Result, Waiting(code), LiveIn(code), names)
                         /\ UsesEnd(Result, Waiting(code), names)
<1>1. LastUseExact /\ DeletesExact => Served
  <2> SUFFICES ASSUME LastUseExact, DeletesExact, phase = "done", ~keepLiveAtEnd,
                      NEW names, Executable(code, names)
               PROVE  /\ UsesKept(Result, Waiting(code), LiveIn(code), names)
                      /\ UsesEnd(Result, Waiting(code), names)
    OBVIOUS
  <2>1. last = LastOccurrences(code, {}) /\ deletes = DeadAfterLoop(code, {})
    BY DEF LastUseExact, DeletesExact, AtEnd
  <2>2. Result = ExactlyMarked(code)
    BY <2>1 DEF Result, ExactlyMarked
  <2>3. QED
    BY <2>2, ExactUsesKept, ExactUsesEnd
<1>2. QED
  BY <1>1, LastUsesCorrect, DeletesCorrect, PTL
================================================================================
