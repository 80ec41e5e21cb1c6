------------------------------- MODULE MlddProofs -------------------------------
(***************************************************************************)
(* For every raster, every elevation model and every sequence of           *)
(* operations on streams: the graph of a multiple outflow ldd is one, the  *)
(* visits follow it, what getStream returns is the whole of it, diffuse    *)
(* has a term for each edge, and accuflux the material of every path; and  *)
(* the ldd is a network of streams: the order fails exactly where there is *)
(* a cycle, and a removal takes what was asked and all that then runs dry. *)
(***************************************************************************)
EXTENDS Mldd, TLAPS, FiniteSetTheorems, WellFoundedInduction

-------------------------------------------------------------------------------
(* Neighbours *)

\* The neighbour in the reverse direction of a neighbour is the cell itself.
LEMMA NeighbourBack ==
  ASSUME NEW c \in Cells, NEW nb \in NBCodes
  PROVE  /\ Reverse(nb) \in NBCodes /\ Reverse(Reverse(nb)) = nb
         /\ Target(Target(c, nb), Reverse(nb)) = c
<1>1. Reverse(nb) \in NBCodes /\ Reverse(Reverse(nb)) = nb
  BY DEF NBCodes, Reverse
<1>2. PICK r \in Int, k \in Int : c = <<r, k>>
  BY RasterAssumption DEF Cells
<1>3. \E dr \in Int, dk \in Int :
        Delta[nb + 1] = <<dr, dk>> /\ Delta[Reverse(nb) + 1] = <<0 - dr, 0 - dk>>
  <2>1. /\ Delta[1] = <<1, -1>> /\ Delta[2] = <<1, 0>> /\ Delta[3] = <<1, 1>>
        /\ Delta[4] = <<0, -1>> /\ Delta[5] = <<0, 1>>
        /\ Delta[6] = <<-1, -1>> /\ Delta[7] = <<-1, 0>> /\ Delta[8] = <<-1, 1>>
    BY DEF Delta
  <2>2. \E n \in 1..8 : nb + 1 = n /\ Reverse(nb) + 1 = 9 - n
    BY DEF NBCodes, Reverse
  <2>3. QED
    BY <2>1, <2>2
<1>4. PICK dr \in Int, dk \in Int :
        Delta[nb + 1] = <<dr, dk>> /\ Delta[Reverse(nb) + 1] = <<0 - dr, 0 - dk>>
  BY <1>3
<1>5. Target(c, nb) = <<r + dr, k + dk>>
  BY <1>2, <1>4 DEF Target
<1>6. Target(<<r + dr, k + dk>>, Reverse(nb)) = <<(r + dr) + (0 - dr), (k + dk) + (0 - dk)>>
  BY <1>4 DEF Target
<1>7. (r + dr) + (0 - dr) = r /\ (k + dk) + (0 - dk) = k
  OBVIOUS
<1>8. QED
  BY <1>1, <1>2, <1>5, <1>6, <1>7

\* Different directions have different neighbours.
LEMMA TargetInjective ==
  ASSUME NEW c \in Cells, NEW nb \in NBCodes, NEW m \in NBCodes,
         Target(c, nb) = Target(c, m)
  PROVE  nb = m
<1>1. PICK r \in Int, k \in Int : c = <<r, k>>
  BY RasterAssumption DEF Cells
<1>2. /\ Delta[1] = <<1, -1>> /\ Delta[2] = <<1, 0>> /\ Delta[3] = <<1, 1>>
      /\ Delta[4] = <<0, -1>> /\ Delta[5] = <<0, 1>>
      /\ Delta[6] = <<-1, -1>> /\ Delta[7] = <<-1, 0>> /\ Delta[8] = <<-1, 1>>
  BY DEF Delta
<1> DEFINE Number(n) == 3 * Delta[n][1] + Delta[n][2]
<1>3. \A i, j \in 1..8 : Number(i) = Number(j) => i = j
  <2>1. /\ Number(1) = 2 /\ Number(2) = 3 /\ Number(3) = 4 /\ Number(4) = -1
        /\ Number(5) = 1 /\ Number(6) = -4 /\ Number(7) = -3 /\ Number(8) = -2
    BY <1>2
  <2> HIDE DEF Number
  <2>2. QED
    BY <2>1
<1>4. \A i \in 1..8 : Delta[i][1] \in Int /\ Delta[i][2] \in Int
  BY <1>2
<1>5. nb + 1 \in 1..8 /\ m + 1 \in 1..8
  BY DEF NBCodes
<1>6. /\ r + Delta[nb + 1][1] = r + Delta[m + 1][1]
      /\ k + Delta[nb + 1][2] = k + Delta[m + 1][2]
  BY <1>1 DEF Target
<1>7. Delta[nb + 1][1] = Delta[m + 1][1] /\ Delta[nb + 1][2] = Delta[m + 1][2]
  <2>1. /\ Delta[nb + 1][1] \in Int /\ Delta[m + 1][1] \in Int
        /\ Delta[nb + 1][2] \in Int /\ Delta[m + 1][2] \in Int
    BY <1>4, <1>5
  <2>2. \A x, a, b \in Int : x + a = x + b => a = b
    OBVIOUS
  <2>3. QED
    BY <1>6, <2>1, <2>2, Zenon
<1>8. Number(nb + 1) = Number(m + 1)
  BY <1>7
<1> HIDE DEF Number
<1>9. nb + 1 = m + 1
  BY <1>3, <1>5, <1>8
<1>10. QED
  BY <1>9 DEF NBCodes

\* The lowest bit of a byte that is not zero is one of its bits.
LEMMA LowestBit ==
  ASSUME NEW S \in SUBSET NBCodes, S # {}
  PROVE  Min(S) \in S /\ \A m \in S : Min(S) =< m
<1> DEFINE Least(n) == n \in S /\ \A m \in 0..7 : m < n => m \notin S
<1>1. \E n \in 0..7 : Least(n)
  <2>1. 0..7 = {0, 1, 2, 3, 4, 5, 6, 7}
    OBVIOUS
  <2>2. \E n \in {0, 1, 2, 3, 4, 5, 6, 7} : n \in S
    BY <2>1 DEF NBCodes
  <2>3. CASE 0 \in S
    BY <2>1, <2>3
  <2>4. CASE 0 \notin S /\ 1 \in S
    BY <2>1, <2>4
  <2>5. CASE {0, 1} \cap S = {} /\ 2 \in S
    BY <2>1, <2>5
  <2>6. CASE {0, 1, 2} \cap S = {} /\ 3 \in S
    BY <2>1, <2>6
  <2>7. CASE {0, 1, 2, 3} \cap S = {} /\ 4 \in S
    BY <2>1, <2>7
  <2>8. CASE {0, 1, 2, 3, 4} \cap S = {} /\ 5 \in S
    BY <2>1, <2>8
  <2>9. CASE {0, 1, 2, 3, 4, 5} \cap S = {} /\ 6 \in S
    BY <2>1, <2>9
  <2>10. CASE {0, 1, 2, 3, 4, 5, 6} \cap S = {} /\ 7 \in S
    BY <2>1, <2>10
  <2>11. QED
    BY <2>2, <2>3, <2>4, <2>5, <2>6, <2>7, <2>8, <2>9, <2>10
<1>2. \E x \in S : \A y \in S : x =< y
  BY <1>1 DEF NBCodes
<1>3. QED
  BY <1>2 DEF Min

\* A flow is a bit.
LEMMA EdgeIsBit ==
  ASSUME NEW d \in Dags
  PROVE  \A c \in Cells : \A nb \in NBCodes :
           <<c, Target(c, nb)>> \in Edges(d) <=> nb \in d.outflow[c]
<1> SUFFICES ASSUME NEW c \in Cells, NEW nb \in NBCodes
             PROVE  <<c, Target(c, nb)>> \in Edges(d) <=> nb \in d.outflow[c]
  OBVIOUS
<1>1. ASSUME <<c, Target(c, nb)>> \in Edges(d) PROVE nb \in d.outflow[c]
  <2>1. PICK x \in Cells : \E m \in d.outflow[x] : <<c, Target(c, nb)>> = <<x, Target(x, m)>>
    BY <1>1 DEF Edges
  <2>2. PICK m \in d.outflow[x] : <<c, Target(c, nb)>> = <<x, Target(x, m)>>
    BY <2>1
  <2>3. x = c /\ m \in NBCodes /\ Target(c, nb) = Target(c, m)
    BY <2>2 DEF Dags
  <2>4. QED
    BY <2>2, <2>3, TargetInjective
<1>2. QED
  BY <1>1 DEF Edges

\* Every flow is one from a cell in a direction.
LEMMA EdgeHasBit ==
  ASSUME NEW d \in Dags
  PROVE  \A e \in Edges(d) : \E c \in Cells : \E nb \in NBCodes :
           nb \in d.outflow[c] /\ e = <<c, Target(c, nb)>>
BY DEF Edges, Dags

-------------------------------------------------------------------------------
(* Subsets and places *)

\* Of some subsets of a finite set, one has no other in it.
LEMMA MinimalSubset ==
  ASSUME NEW S, IsFiniteSet(S)
  PROVE  \A T \in SUBSET SUBSET S :
           T # {} => \E x \in T : \A y \in T : y \subseteq x => y = x
<1> SUFFICES ASSUME NEW T \in SUBSET SUBSET S, T # {}
             PROVE  \E x \in T : \A y \in T : y \subseteq x => y = x
  OBVIOUS
<1> DEFINE R == StrictSubsetOrdering(S)
<1>1. FiniteSubsetsOf(S) = SUBSET S
  BY FS_FiniteSubsetsOfFinite
<1>2. IsWellFoundedOn(R, SUBSET S)
  BY <1>1, FS_StrictSubsetOrderingWellFounded
<1> HIDE DEF R
<1>3. PICK x \in T : \A y \in T : ~(<<y, x>> \in R)
  BY <1>2, WFMin
<1>4. ASSUME NEW y \in T, y \subseteq x PROVE y = x
  <2>1. y \in SUBSET S /\ x \in SUBSET S
    OBVIOUS
  <2>2. y # x => <<y, x>> \in R
    BY <1>4, <2>1 DEF R, StrictSubsetOrdering
  <2>3. QED
    BY <1>3, <2>2
<1>5. QED
  BY <1>4

\* Of some places in a sequence, one is the last.
LEMMA LastPlace ==
  ASSUME NEW n \in Nat
  PROVE  \A T \in SUBSET (1..n) : T # {} => \E i \in T : \A j \in T : j =< i
<1> SUFFICES ASSUME NEW T \in SUBSET (1..n), T # {}
             PROVE  \E i \in T : \A j \in T : j =< i
  OBVIOUS
<1> DEFINE All == 1..n
           From == {i..n : i \in T}
<1>1. IsFiniteSet(All)
  BY FS_Interval
<1>2. From \in SUBSET SUBSET All /\ From # {}
  <2>1. \A i \in T : i..n \subseteq All
    OBVIOUS
  <2>2. QED
    BY <2>1
<1> HIDE DEF From, All
<1>3. PICK x \in From : \A y \in From : y \subseteq x => y = x
  BY <1>1, <1>2, MinimalSubset
<1>4. PICK i \in T : x = i..n
  BY DEF From
<1>5. ASSUME NEW j \in T, ~(j =< i) PROVE FALSE
  <2>1. i \in 1..n /\ j \in 1..n
    OBVIOUS
  <2>2. j..n \in From /\ j..n \subseteq x /\ i \in x /\ i \notin j..n
    BY <1>4, <1>5, <2>1 DEF From
  <2>3. QED
    BY <1>3, <2>2
<1>6. QED
  BY <1>5

-------------------------------------------------------------------------------
(* Operations on the graph *)

\* The empty graph.
LEMMA EmptyMirrors == EmptyDag \in Dags /\ Mirrors(EmptyDag)
  BY DEF EmptyDag, NoFlow, Dags, Mirrors

\* Adding one flow inside the map.
LEMMA AddFlowMirrors ==
  ASSUME NEW d \in Dags, Mirrors(d), NEW c \in Cells, NEW nb \in NBCodes,
         Target(c, nb) \in Cells
  PROVE  AddFlow(d, c, nb) \in Dags /\ Mirrors(AddFlow(d, c, nb))
<1> DEFINE t == Target(c, nb)
           e == AddFlow(d, c, nb)
<1>1. e.outflow = [d.outflow EXCEPT ![c] = @ \cup {nb}]
      /\ e.inflow = [d.inflow EXCEPT ![t] = @ \cup {Reverse(nb)}]
      /\ e \in Dags
  BY NeighbourBack DEF AddFlow, Dags
<1>2. ASSUME NEW x \in Cells, NEW m \in NBCodes
      PROVE  /\ m \in e.outflow[x] <=> m \in d.outflow[x] \/ (x = c /\ m = nb)
             /\ m \in e.inflow[x] <=> m \in d.inflow[x] \/ (x = t /\ m = Reverse(nb))
  BY <1>1 DEF Dags
<1>3. ASSUME NEW x \in Cells, NEW m \in NBCodes, Target(x, m) \in Cells
      PROVE  m \in e.outflow[x] <=> Reverse(m) \in e.inflow[Target(x, m)]
  <2>1. m \in d.outflow[x] <=> Reverse(m) \in d.inflow[Target(x, m)]
    BY <1>3 DEF Mirrors
  <2>2. Reverse(m) \in NBCodes
    BY NeighbourBack
  <2>3. Target(x, m) = t /\ Reverse(m) = Reverse(nb) => x = c /\ m = nb
    <3>1. Target(Target(x, m), Reverse(m)) = x /\ Reverse(Reverse(m)) = m
      BY NeighbourBack
    <3>2. Target(t, Reverse(nb)) = c /\ Reverse(Reverse(nb)) = nb
      BY NeighbourBack
    <3>3. QED
      BY <3>1, <3>2
  <2> HIDE DEF e, t
  <2>4. m \in e.outflow[x] <=> m \in d.outflow[x] \/ (x = c /\ m = nb)
    BY <1>2
  <2>5. Reverse(m) \in e.inflow[Target(x, m)] <=>
          \/ Reverse(m) \in d.inflow[Target(x, m)]
          \/ Target(x, m) = t /\ Reverse(m) = Reverse(nb)
    BY <1>2, <1>3, <2>2
  <2>6. QED
    BY <2>1, <2>3, <2>4, <2>5 DEF t
<1>4. ASSUME NEW x \in Cells, NEW m \in NBCodes, Target(x, m) \notin Cells
      PROVE  m \notin e.outflow[x] /\ m \notin e.inflow[x]
  <2>1. m \notin d.outflow[x] /\ m \notin d.inflow[x]
    BY <1>4 DEF Mirrors
  <2>2. Target(t, Reverse(nb)) = c
    BY NeighbourBack
  <2> HIDE DEF e
  <2>3. QED
    BY <1>2, <1>4, <2>1, <2>2
<1> HIDE DEF e
<1>5. Mirrors(e)
  BY <1>3, <1>4 DEF Mirrors
<1>6. QED
  BY <1>1, <1>5 DEF e

\* Adding the flows of ldds.
LEMMA AddLddsMirrors ==
  ASSUME NEW d \in Dags, Mirrors(d), NEW ldds
  PROVE  AddLdds(d, ldds) \in Dags /\ Mirrors(AddLdds(d, ldds))
<1> DEFINE e == AddLdds(d, ldds)
<1>1. ASSUME NEW x \in Cells
      PROVE  FlowsOf(ldds, x) \in SUBSET {nb \in NBCodes : Target(x, nb) \in Cells}
  BY DEF FlowsOf
<1>2. e \in Dags
  BY <1>1 DEF AddLdds, Dags
<1>3. ASSUME NEW x \in Cells
      PROVE  /\ e.outflow[x] = d.outflow[x] \cup FlowsOf(ldds, x)
             /\ e.inflow[x] = d.inflow[x] \cup
                  {nb \in NBCodes : /\ Target(x, nb) \in Cells
                                    /\ Reverse(nb) \in FlowsOf(ldds, Target(x, nb))}
  BY DEF AddLdds
<1> HIDE DEF e
<1>4. ASSUME NEW x \in Cells, NEW m \in NBCodes, Target(x, m) \in Cells
      PROVE  m \in e.outflow[x] <=> Reverse(m) \in e.inflow[Target(x, m)]
  <2>1. m \in d.outflow[x] <=> Reverse(m) \in d.inflow[Target(x, m)]
    BY <1>4 DEF Mirrors
  <2>2. /\ Reverse(m) \in NBCodes /\ Reverse(Reverse(m)) = m
        /\ Target(Target(x, m), Reverse(m)) = x
    BY NeighbourBack
  <2>3. QED
    BY <1>3, <1>4, <2>1, <2>2
<1>5. ASSUME NEW x \in Cells, NEW m \in NBCodes, Target(x, m) \notin Cells
      PROVE  m \notin e.outflow[x] /\ m \notin e.inflow[x]
  BY <1>1, <1>3, <1>5 DEF Mirrors
<1>6. Mirrors(e)
  BY <1>4, <1>5 DEF Mirrors
<1>7. QED
  BY <1>2, <1>6 DEF e

\* Removing the flows of another graph.
LEMMA RemoveMirrors ==
  ASSUME NEW d \in Dags, Mirrors(d), NEW rm \in Dags, Mirrors(rm)
  PROVE  Remove(d, rm) \in Dags /\ Mirrors(Remove(d, rm))
<1> DEFINE e == Remove(d, rm)
<1>1. e \in Dags
  BY DEF Remove, SymDiff, Dags
<1>2. ASSUME NEW x \in Cells, NEW m \in NBCodes
      PROVE  /\ m \in e.outflow[x] <=> ~(m \in d.outflow[x] <=> m \in rm.outflow[x])
             /\ m \in e.inflow[x] <=> ~(m \in d.inflow[x] <=> m \in rm.inflow[x])
  BY DEF Remove, SymDiff
<1> HIDE DEF e
<1>3. ASSUME NEW x \in Cells, NEW m \in NBCodes, Target(x, m) \in Cells
      PROVE  m \in e.outflow[x] <=> Reverse(m) \in e.inflow[Target(x, m)]
  <2>1. Reverse(m) \in NBCodes
    BY NeighbourBack
  <2>2. /\ m \in d.outflow[x] <=> Reverse(m) \in d.inflow[Target(x, m)]
        /\ m \in rm.outflow[x] <=> Reverse(m) \in rm.inflow[Target(x, m)]
    BY <1>3 DEF Mirrors
  <2>3. QED
    BY <1>2, <1>3, <2>1, <2>2
<1>4. ASSUME NEW x \in Cells, NEW m \in NBCodes, Target(x, m) \notin Cells
      PROVE  m \notin e.outflow[x] /\ m \notin e.inflow[x]
  BY <1>2, <1>4 DEF Mirrors
<1>5. Mirrors(e)
  BY <1>3, <1>4 DEF Mirrors
<1>6. QED
  BY <1>1, <1>5 DEF e

-------------------------------------------------------------------------------
(* The order *)

\* There are finitely many cells, and so many vertices.
LEMMA CellsFinite == \A S \in SUBSET Cells : IsFiniteSet(S) /\ Cardinality(S) \in Nat
<1>1. IsFiniteSet(0..(NrRows - 1)) /\ IsFiniteSet(0..(NrCols - 1))
  BY RasterAssumption, FS_Interval
<1>2. IsFiniteSet(Cells)
  BY <1>1, FS_Product DEF Cells
<1>3. QED
  BY <1>2, FS_Subset, FS_CardinalityType

\* A permutation is a sequence without repetitions, of all elements.
LEMMA PermutationIsOrder ==
  ASSUME NEW S \in SUBSET Cells, NEW q \in Permutation(S)
  PROVE  /\ q \in Seq(S) /\ q \in Seq(Cells) /\ Len(q) = Cardinality(S)
         /\ \A i, j \in 1..Len(q) : i # j => q[i] # q[j]
         /\ {q[i] : i \in 1..Len(q)} = S
<1>1. IsFiniteSet(S) /\ Cardinality(S) \in Nat
  BY CellsFinite
<1>2. q \in [1..Cardinality(S) -> S] /\ \A i, j \in DOMAIN q : i # j => q[i] # q[j]
  BY DEF Permutation
<1>3. q \in Seq(S) /\ Len(q) = Cardinality(S)
  BY <1>1, <1>2
<1>4. q \in Seq(Cells)
  BY <1>1, <1>2
<1>5. q \in Injection(1..Cardinality(S), S)
  BY <1>2 DEF Injection, IsInjective
<1>6. Cardinality(1..Cardinality(S)) = Cardinality(S)
  BY <1>1, FS_Interval
<1>7. q \in Surjection(1..Cardinality(S), S)
  BY <1>1, <1>5, <1>6, FS_Injection
<1>8. {q[i] : i \in 1..Len(q)} = S
  BY <1>2, <1>3, <1>7 DEF Surjection
<1>9. QED
  BY <1>2, <1>3, <1>4, <1>8

\* A sequence of different cells is an order.
LEMMA OrderMeaning ==
  ASSUME NEW q
  PROVE  q \in Orders <=> /\ q \in Seq(Cells)
                          /\ \A i, j \in 1..Len(q) : i # j => q[i] # q[j]
<1>1. ASSUME q \in Orders
      PROVE  q \in Seq(Cells) /\ \A i, j \in 1..Len(q) : i # j => q[i] # q[j]
  <2>1. PICK S \in SUBSET Cells : q \in Permutation(S)
    BY <1>1 DEF Orders
  <2>2. QED
    BY <2>1, PermutationIsOrder
<1>2. ASSUME q \in Seq(Cells), \A i, j \in 1..Len(q) : i # j => q[i] # q[j]
      PROVE  q \in Orders
  <2> DEFINE all == {q[i] : i \in 1..Len(q)}
  <2>1. all \in SUBSET Cells
    BY <1>2
  <2>2. IsFiniteSet(all) /\ Cardinality(all) \in Nat
    BY <2>1, CellsFinite
  <2>3. q \in [1..Len(q) -> all] /\ Len(q) \in Nat
    BY <1>2
  <2>4. ExistsBijection(1..Len(q), all)
    <3>1. q \in Bijection(1..Len(q), all)
      BY <1>2, <2>3 DEF Bijection, Injection, IsInjective, Surjection
    <3>2. QED
      BY <3>1 DEF ExistsBijection
  <2>5. Cardinality(all) = Len(q)
    BY <2>3, <2>4, FS_CountingElements
  <2> HIDE DEF all
  <2>6. q \in Permutation(all)
    BY <1>2, <2>3, <2>5 DEF Permutation
  <2>7. QED
    BY <2>1, <2>6 DEF Orders
<1>3. QED
  BY <1>1, <1>2

\* What topological_sort leaves, whether it throws or not.
LEMMA PartialIsOrder ==
  ASSUME NEW d, NEW q \in Partial(d)
  PROVE  /\ q \in Seq(Cells) /\ TargetsFirst(q, Edges(d))
         /\ \A i, j \in 1..Len(q) : i # j => q[i] # q[j]
         /\ {q[i] : i \in 1..Len(q)} \subseteq Vertices(d)
<1>1. q \in Orders /\ TargetsFirst(q, Edges(d)) /\ \A i \in 1..Len(q) : q[i] \in Vertices(d)
  BY DEF Partial
<1>2. PICK S \in SUBSET Cells : q \in Permutation(S)
  BY <1>1 DEF Orders
<1>3. QED
  BY <1>1, <1>2, PermutationIsOrder

LEMMA CompleteIsOrder ==
  ASSUME NEW d, NEW q \in Complete(d)
  PROVE  /\ q \in Seq(Cells) /\ TargetsFirst(q, Edges(d))
         /\ \A i, j \in 1..Len(q) : i # j => q[i] # q[j]
         /\ {q[i] : i \in 1..Len(q)} = Vertices(d)
<1>1. q \in Permutation(Vertices(d)) /\ TargetsFirst(q, Edges(d))
  BY DEF Complete
<1>2. Vertices(d) \in SUBSET Cells
  BY DEF Vertices
<1>3. QED
  BY <1>1, <1>2, PermutationIsOrder

\* After updateOrder the order is that of the graph.
LEMMA UpdateOrderCurrent ==
  ASSUME NEW d, UpdateOrder(d)
  PROVE  /\ dag' = d /\ rto' \in Seq(Cells) /\ failed' \in BOOLEAN
         /\ OrderIsCurrent'
<1>1. /\ dag' = d /\ failed' = (Complete(d) = {})
      /\ rto' \in IF Complete(d) = {} THEN Partial(d) ELSE Complete(d)
  BY DEF UpdateOrder
<1>2. CASE Complete(d) = {}
  <2>1. rto' \in Partial(d) /\ failed'
    BY <1>1, <1>2
  <2>2. QED
    BY <1>1, <2>1, PartialIsOrder DEF OrderIsCurrent, InOrder
<1>3. CASE Complete(d) # {}
  <2>1. rto' \in Complete(d) /\ ~failed'
    BY <1>1, <1>3
  <2>2. QED
    BY <1>1, <2>1, CompleteIsOrder DEF OrderIsCurrent, InOrder
<1>4. QED
  BY <1>2, <1>3

-------------------------------------------------------------------------------
(* The inductive invariant *)

Rest == op = "none" => Idle

Inv == TypeOK /\ FlowsMirror /\ OrderIsCurrent /\ Rest

\* The empty graph is a part of every graph.
LEMMA EmptyIsPart ==
  /\ EmptyDag \in Dags /\ Mirrors(EmptyDag)
  /\ \A d \in Dags, c \in Cells : /\ EmptyDag.outflow[c] \subseteq d.outflow[c]
                                  /\ EmptyDag.inflow[c] \subseteq d.inflow[c]
<1>1. \A c \in Cells : EmptyDag.outflow[c] = {} /\ EmptyDag.inflow[c] = {}
  BY DEF EmptyDag, NoFlow
<1>2. QED
  BY <1>1, EmptyMirrors

LEMMA InitInv == Init => Inv
<1> SUFFICES ASSUME Init PROVE Inv
  OBVIOUS
<1>1. dag = EmptyDag /\ rto = <<>> /\ failed = FALSE /\ missing = {} /\ Idle
  BY DEF Init
<1>2. FlowsMirror
  <2>1. removeDag = EmptyDag
    BY <1>1 DEF Idle
  <2>2. QED
    BY <1>1, <2>1, EmptyIsPart DEF FlowsMirror
<1>3. TypeOK
  <2>1. dag \in Dags /\ removeDag \in Dags
    BY <1>1, EmptyMirrors DEF Idle
  <2>2. op = "none" /\ at = 0 /\ todo \subseteq OutOf(at)
    BY <1>1 DEF Idle
  <2>3. without \subseteq Cells /\ marks \subseteq Cells \X Cells /\ DOMAIN result = Cells
    BY <1>1 DEF Idle, NoResult
  <2>4. terms \in Seq(Cells \X Cells) /\ edgeNr \in Nat /\ iteration \in 0..NrIterations
    <3>1. <<>> \in Seq(Cells \X Cells)
      OBVIOUS
    <3>2. 0 \in 0..NrIterations
      BY IterationAssumption
    <3>3. QED
      BY <1>1, <3>1, <3>2 DEF Idle
  <2>5. rto \in Seq(Cells) /\ 0 \in 0..Len(rto) /\ failed \in BOOLEAN /\ missing \subseteq Cells
    <3>1. rto \in Seq(Cells)
      BY <1>1, SMT
    <3>2. 0 \in 0..Len(rto)
      BY <1>1, SMT
    <3>3. QED
      BY <1>1, <3>1, <3>2
  <2>6. QED
    BY <2>1, <2>2, <2>3, <2>4, <2>5 DEF TypeOK
<1>4. OrderIsCurrent
  <2>1. Vertices(EmptyDag) = {}
    BY DEF Vertices, IsVertex, EmptyDag, NoFlow
  <2>2. InOrder = {} /\ Len(rto) = 0
    BY <1>1 DEF InOrder
  <2>3. QED
    BY <1>1, <2>1, <2>2 DEF OrderIsCurrent, TargetsFirst
<1>5. QED
  BY <1>1, <1>2, <1>3, <1>4 DEF Inv, Rest

\* When an operation ends, and between operations.
LEMMA FinishInv ==
  ASSUME dag' \in Dags, Mirrors(dag'), rto' \in Seq(Cells), failed' \in BOOLEAN,
         missing' \subseteq Cells, OrderIsCurrent', Finish
  PROVE  Inv'
<1>1. removeDag' = EmptyDag
  BY DEF Finish
<1>2. FlowsMirror'
  BY <1>1, EmptyIsPart DEF FlowsMirror
<1>3. TypeOK'
  <2>1. dag' \in Dags /\ removeDag' \in Dags
    BY <1>1, EmptyMirrors
  <2>2. op' = "none" /\ at' = 0 /\ todo' = {}
    BY DEF Finish
  <2>3. /\ without' \subseteq Cells /\ marks' \subseteq Cells \X Cells
        /\ DOMAIN result' = Cells
    BY DEF Finish, NoResult
  <2>4. terms' \in Seq(Cells \X Cells) /\ edgeNr' \in Nat /\ iteration' \in 0..NrIterations
    <3>1. <<>> \in Seq(Cells \X Cells)
      OBVIOUS
    <3>2. 0 \in 0..NrIterations
      BY IterationAssumption
    <3>3. QED
      BY <3>1, <3>2 DEF Finish
  <2>5. at' \in 0..Len(rto')
    BY <2>2
  <2>6. QED
    BY <2>1, <2>2, <2>3, <2>4, <2>5 DEF TypeOK
<1>4. Rest'
  BY DEF Finish, Rest, Idle, NoResult
<1>5. QED
  BY <1>2, <1>3, <1>4 DEF Inv

\* An operation that is done at once leaves the visitors idle.
LEMMA StaysIdle ==
  ASSUME Inv, op = "none", UNCHANGED visit
  PROVE  Finish
BY DEF Inv, Rest, Idle, Finish, visit, removal, flux, diffusion

\* The variables of each visitor have their types.
RemovalOK ==
  /\ marks \subseteq Cells \X Cells
  /\ removeDag \in Dags /\ Mirrors(removeDag)
  /\ \A c \in Cells : /\ removeDag.outflow[c] \subseteq dag.outflow[c]
                      /\ removeDag.inflow[c] \subseteq dag.inflow[c]
FluxOK == without \subseteq Cells /\ DOMAIN result = Cells
DiffusionOK ==
  terms \in Seq(Cells \X Cells) /\ edgeNr \in Nat /\ iteration \in 0..NrIterations

LEMMA PartsOK ==
  ASSUME Inv, UNCHANGED graph
  PROVE  /\ RemovalOK /\ FluxOK /\ DiffusionOK
         /\ UNCHANGED removal => RemovalOK'
         /\ UNCHANGED flux => FluxOK'
         /\ UNCHANGED diffusion => DiffusionOK'
<1>1. RemovalOK /\ FluxOK /\ DiffusionOK
  BY DEF Inv, TypeOK, FlowsMirror, RemovalOK, FluxOK, DiffusionOK
<1>2. dag' = dag
  BY DEF graph
<1>3. UNCHANGED removal => RemovalOK'
  BY <1>1, <1>2 DEF RemovalOK, removal
<1>4. UNCHANGED flux => FluxOK'
  BY <1>1 DEF FluxOK, flux
<1>5. UNCHANGED diffusion => DiffusionOK'
  BY <1>1 DEF DiffusionOK, diffusion
<1>6. QED
  BY <1>1, <1>3, <1>4, <1>5

\* A step of a visitor.
LEMMA VisitInv ==
  ASSUME Inv, UNCHANGED graph, missing' \subseteq Cells,
         op' \in {"remove", "accuflux", "upstream", "init", "iter"},
         at' \in 0..Len(rto), todo' \subseteq OutOf(at'),
         RemovalOK', FluxOK', DiffusionOK'
  PROVE  Inv'
<1>1. dag' = dag /\ rto' = rto /\ failed' = failed
  BY DEF graph
<1>2. OutOf(at)' = OutOf(at')
  BY <1>1 DEF OutOf
<1>3. TypeOK'
  <2>1. dag \in Dags /\ rto \in Seq(Cells) /\ failed \in BOOLEAN
    BY DEF Inv, TypeOK
  <2>2. dag' \in Dags /\ rto' \in Seq(Cells) /\ failed' \in BOOLEAN
        /\ at' \in 0..Len(rto') /\ todo' \subseteq OutOf(at)'
    BY <1>1, <1>2, <2>1
  <2>3. /\ marks' \subseteq Cells \X Cells /\ removeDag' \in Dags
        /\ without' \subseteq Cells /\ DOMAIN result' = Cells
        /\ terms' \in Seq(Cells \X Cells) /\ edgeNr' \in Nat
        /\ iteration' \in 0..NrIterations
    BY DEF RemovalOK, FluxOK, DiffusionOK
  <2>4. op' \in {"none", "remove", "accuflux", "upstream", "init", "iter"}
    OBVIOUS
  <2>5. QED
    BY <2>2, <2>3, <2>4 DEF TypeOK
<1>4. FlowsMirror'
  <2>1. Mirrors(dag')
    BY <1>1 DEF Inv, FlowsMirror
  <2>2. QED
    BY <2>1 DEF RemovalOK, FlowsMirror
<1>5. OrderIsCurrent'
  BY <1>1 DEF Inv, OrderIsCurrent, InOrder
<1>6. Rest'
  BY DEF Rest
<1>7. QED
  BY <1>3, <1>4, <1>5, <1>6 DEF Inv

\* The first vertex of a visitor.
LEMMA StartOK ==
  ASSUME Inv, NEW v, Start(v)
  PROVE  op' = v /\ at' \in 0..Len(rto) /\ todo' \subseteq OutOf(at')
<1>1. rto \in Seq(Cells)
  BY DEF Inv, TypeOK
<1>2. Len(rto) \in 0..Len(rto)
  BY <1>1
<1>3. QED
  BY <1>2 DEF Start

\* The edge that is visited is one of the graph, inside the map.
LEMMA EdgeVisited ==
  ASSUME Inv, NEW v, Visiting(v)
  PROVE  /\ Source \in Cells /\ Bit \in NBCodes /\ Bit \in dag.outflow[Source]
         /\ Downstream \in Cells /\ Reverse(Bit) \in dag.inflow[Downstream]
         /\ Edge \in Cells \X Cells
         /\ todo \ {Bit} \subseteq OutOf(at)
<1>1. /\ todo # {} /\ todo \subseteq OutOf(at) /\ at \in 0..Len(rto) /\ rto \in Seq(Cells)
      /\ dag \in Dags
  BY DEF Inv, TypeOK, Visiting
<1>2. at # 0
  BY <1>1 DEF OutOf
<1>3. Source \in Cells /\ OutOf(at) = dag.outflow[Source]
  BY <1>1, <1>2 DEF Source, OutOf
<1>4. dag.outflow[Source] \in SUBSET NBCodes
  BY <1>1, <1>3 DEF Dags
<1>5. Bit \in todo
  BY <1>1, <1>3, <1>4, LowestBit DEF Bit
<1>6. Bit \in NBCodes /\ Bit \in dag.outflow[Source]
  BY <1>1, <1>3, <1>4, <1>5
<1>7. Downstream \in Cells /\ Reverse(Bit) \in dag.inflow[Downstream]
  BY <1>3, <1>6 DEF Inv, FlowsMirror, Mirrors, Downstream
<1>8. Edge \in Cells \X Cells
  BY <1>3, <1>7 DEF Edge
<1>9. QED
  BY <1>1, <1>3, <1>6, <1>7, <1>8

-------------------------------------------------------------------------------
(* The steps *)

\* addStream, setStream, and the end of removeStream.
LEMMA StreamsInv ==
  ASSUME Inv, NEW new \in Dags, Mirrors(new), UpdateOrder(new), UNCHANGED missing, Finish
  PROVE  Inv'
<1>1. dag' = new /\ rto' \in Seq(Cells) /\ failed' \in BOOLEAN /\ OrderIsCurrent'
  BY UpdateOrderCurrent
<1>2. missing' \subseteq Cells
  BY DEF Inv, TypeOK
<1>3. QED
  BY <1>1, <1>2, FinishInv

LEMMA AddStreamInv == ASSUME Inv, NEW ldd, AddStream(ldd) PROVE Inv'
<1>1. dag \in Dags /\ Mirrors(dag)
  BY DEF Inv, TypeOK, FlowsMirror
<1>2. op = "none" /\ UNCHANGED missing /\ UNCHANGED visit /\ UpdateOrder(AddLdds(dag, {ldd}))
  BY DEF AddStream
<1>3. AddLdds(dag, {ldd}) \in Dags /\ Mirrors(AddLdds(dag, {ldd}))
  BY <1>1, AddLddsMirrors
<1>4. QED
  BY <1>2, <1>3, StaysIdle, StreamsInv

LEMMA SetStreamInv == ASSUME Inv, NEW ldds, SetStream(ldds) PROVE Inv'
<1>1. op = "none" /\ UNCHANGED missing /\ UNCHANGED visit
      /\ UpdateOrder(AddLdds(EmptyDag, ldds))
  BY DEF SetStream
<1>2. AddLdds(EmptyDag, ldds) \in Dags /\ Mirrors(AddLdds(EmptyDag, ldds))
  BY EmptyMirrors, AddLddsMirrors
<1>3. QED
  BY <1>1, <1>2, StaysIdle, StreamsInv

\* The end of a visit that changed no stream, and setDem.
LEMMA ReturnInv ==
  ASSUME Inv, UNCHANGED graph, missing' \subseteq Cells, Finish
  PROVE  Inv'
<1>1. dag' = dag /\ rto' = rto /\ failed' = failed
  BY DEF graph
<1>2. dag' \in Dags /\ Mirrors(dag') /\ rto' \in Seq(Cells) /\ failed' \in BOOLEAN
  BY <1>1 DEF Inv, TypeOK, FlowsMirror
<1>3. OrderIsCurrent'
  BY <1>1 DEF Inv, OrderIsCurrent, InOrder
<1>4. QED
  BY <1>2, <1>3, FinishInv

LEMMA SetDemInv == ASSUME Inv, NEW cells \in Dems, SetDem(cells) PROVE Inv'
<1>1. op = "none" /\ UNCHANGED graph /\ UNCHANGED visit /\ missing' \subseteq Cells
  BY MissingAssumption DEF SetDem
<1>2. QED
  BY <1>1, StaysIdle, ReturnInv

LEMMA ReturnedInv == ASSUME Inv, Returned \/ Diffused PROVE Inv'
<1>1. Finish /\ UNCHANGED graph /\ missing' \subseteq Cells
  BY DEF Returned, Diffused, Inv, TypeOK
<1>2. QED
  BY <1>1, ReturnInv

\* removeStream, from the marks to the graph without them.
LEMMA RemoveStreamInv ==
  ASSUME Inv, NEW edges \in SUBSET Edges(dag), RemoveStream(edges) PROVE Inv'
<1>1. Start("remove") /\ marks' = edges
      /\ UNCHANGED <<graph, missing, removeDag, flux, diffusion>>
  BY DEF RemoveStream
<1>2. edges \subseteq Cells \X Cells
  <2>1. \A c \in Cells, nb \in NBCodes : nb \in dag.outflow[c] => Target(c, nb) \in Cells
    BY DEF Inv, FlowsMirror, Mirrors
  <2>2. \A c \in Cells : dag.outflow[c] \subseteq NBCodes
    BY DEF Inv, TypeOK, Dags
  <2>3. \A e \in Edges(dag) : \E c \in Cells, nb \in NBCodes :
          nb \in dag.outflow[c] /\ e = <<c, Target(c, nb)>>
    BY <2>2 DEF Edges
  <2>4. QED
    BY <2>1, <2>3
<1>3. RemovalOK /\ FluxOK' /\ DiffusionOK'
  BY <1>1, PartsOK
<1>4. RemovalOK'
  BY <1>1, <1>2, <1>3 DEF RemovalOK, graph
<1>5. missing' \subseteq Cells
  BY <1>1 DEF Inv, TypeOK
<1>6. QED
  BY <1>1, <1>3, <1>4, <1>5, StartOK, VisitInv

\* The next edge of the vertex that is visited.
LEMMA NextEdgeOK ==
  ASSUME Inv, NEW v \in {"remove", "accuflux", "upstream", "init", "iter"},
         Visiting(v), NextEdge
  PROVE  /\ op' \in {"remove", "accuflux", "upstream", "init", "iter"}
         /\ at' \in 0..Len(rto) /\ todo' \subseteq OutOf(at')
<1>1. op' = v /\ at' = at /\ todo' = todo \ {Bit}
  BY DEF Visiting, NextEdge
<1>2. at \in 0..Len(rto)
  BY DEF Inv, TypeOK
<1>3. QED
  BY <1>1, <1>2, EdgeVisited

LEMMA RemoveEdgeInv == ASSUME Inv, RemoveEdge PROVE Inv'
<1>1. Visiting("remove") /\ NextEdge /\ UNCHANGED <<graph, missing, marks, flux, diffusion>>
      /\ removeDag' \in {removeDag, AddFlow(removeDag, Source, Bit)}
  BY DEF RemoveEdge
<1>2. RemovalOK /\ FluxOK' /\ DiffusionOK'
  BY <1>1, PartsOK
<1>3. /\ Source \in Cells /\ Bit \in NBCodes /\ Bit \in dag.outflow[Source]
      /\ Downstream \in Cells /\ Reverse(Bit) \in dag.inflow[Downstream]
  BY <1>1, EdgeVisited
<1>4. RemovalOK'
  <2>1. CASE removeDag' = removeDag
    BY <1>1, <1>2, <2>1 DEF RemovalOK, graph
  <2>2. CASE removeDag' = AddFlow(removeDag, Source, Bit)
    <3> DEFINE new == AddFlow(removeDag, Source, Bit)
    <3>1. new \in Dags /\ Mirrors(new)
      BY <1>2, <1>3, AddFlowMirrors DEF RemovalOK, Downstream
    <3>2. ASSUME NEW c \in Cells
          PROVE  /\ new.outflow[c] \subseteq removeDag.outflow[c] \cup
                                             {b \in {Bit} : c = Source}
                 /\ new.inflow[c] \subseteq removeDag.inflow[c] \cup
                                            {b \in {Reverse(Bit)} : c = Downstream}
      BY <1>2, <1>3 DEF AddFlow, RemovalOK, Dags, Downstream
    <3> HIDE DEF new
    <3>3. ASSUME NEW c \in Cells
          PROVE  /\ new.outflow[c] \subseteq dag.outflow[c]
                 /\ new.inflow[c] \subseteq dag.inflow[c]
      <4>1. /\ removeDag.outflow[c] \subseteq dag.outflow[c]
            /\ removeDag.inflow[c] \subseteq dag.inflow[c]
        BY <1>2 DEF RemovalOK
      <4>2. QED
        BY <1>3, <3>2, <4>1
    <3>4. removeDag' = new /\ dag' = dag /\ marks' = marks
      BY <1>1, <2>2 DEF new, graph
    <3>5. QED
      BY <1>2, <3>1, <3>3, <3>4 DEF RemovalOK
  <2>3. QED
    BY <1>1, <2>1, <2>2
<1>5. missing' \subseteq Cells
  BY <1>1 DEF Inv, TypeOK
<1>6. QED
  BY <1>1, <1>2, <1>4, <1>5, NextEdgeOK, VisitInv

LEMMA RemovedInv == ASSUME Inv, Removed PROVE Inv'
<1>1. Finish /\ UpdateOrder(Remove(dag, removeDag)) /\ UNCHANGED missing
  BY DEF Removed
<1>2. dag \in Dags /\ Mirrors(dag) /\ removeDag \in Dags /\ Mirrors(removeDag)
  BY DEF Inv, TypeOK, FlowsMirror
<1>3. Remove(dag, removeDag) \in Dags /\ Mirrors(Remove(dag, removeDag))
  BY <1>2, RemoveMirrors
<1>4. QED
  BY <1>1, <1>3, StreamsInv

LEMMA FluxInv == ASSUME Inv, NEW cells \in Materials, Accuflux(cells) \/ Upstream(cells) PROVE Inv'
<1>1. PICK v \in {"accuflux", "upstream"} : Start(v)
  BY DEF Accuflux, Upstream
<1>2. /\ without' = cells /\ DOMAIN result' = Cells
      /\ UNCHANGED <<graph, missing, removal, diffusion>>
  BY DEF Accuflux, Upstream
<1>3. RemovalOK' /\ DiffusionOK'
  BY <1>2, PartsOK
<1>4. FluxOK'
  BY <1>2, MissingAssumption DEF FluxOK
<1>5. missing' \subseteq Cells
  BY <1>2 DEF Inv, TypeOK
<1>6. QED
  BY <1>1, <1>2, <1>3, <1>4, <1>5, StartOK, VisitInv

LEMMA FluxEdgeInv == ASSUME Inv, FluxEdge PROVE Inv'
<1>1. PICK v \in {"accuflux", "upstream"} : Visiting(v)
  BY DEF FluxEdge
<1>2. /\ NextEdge /\ DOMAIN result' = DOMAIN result
      /\ UNCHANGED <<graph, missing, removal, without, diffusion>>
  BY DEF FluxEdge
<1>3. RemovalOK' /\ DiffusionOK' /\ FluxOK
  BY <1>2, PartsOK
<1>4. FluxOK'
  BY <1>2, <1>3 DEF FluxOK
<1>5. missing' \subseteq Cells
  BY <1>2 DEF Inv, TypeOK
<1>6. QED
  BY <1>1, <1>2, <1>3, <1>4, <1>5, NextEdgeOK, VisitInv

LEMMA DiffuseInv == ASSUME Inv, NEW args \in DiffusionArgs, Diffuse(args) PROVE Inv'
<1>1. /\ Start("init") /\ marks' = args.edges
      /\ missing' = missing \cup (InOrder \cap args.cells)
      /\ UNCHANGED <<graph, removeDag, flux, diffusion>>
  BY DEF Diffuse
<1>2. args.cells \subseteq Cells /\ args.edges \subseteq Cells \X Cells
  BY DiffusionAssumption
<1>3. RemovalOK /\ FluxOK' /\ DiffusionOK'
  BY <1>1, PartsOK
<1>4. RemovalOK'
  BY <1>1, <1>2, <1>3 DEF RemovalOK, graph
<1>5. missing' \subseteq Cells
  BY <1>1, <1>2 DEF Inv, TypeOK
<1>6. QED
  BY <1>1, <1>3, <1>4, <1>5, StartOK, VisitInv

LEMMA InitFlowTermInv == ASSUME Inv, InitFlowTerm PROVE Inv'
<1>1. /\ Visiting("init") /\ NextEdge /\ terms' = Append(terms, Edge)
      /\ missing' \in {missing, missing \cup {Source, Downstream}}
      /\ UNCHANGED <<graph, removal, flux, edgeNr, iteration>>
  BY DEF InitFlowTerm
<1>2. Source \in Cells /\ Downstream \in Cells /\ Edge \in Cells \X Cells
  BY <1>1, EdgeVisited
<1>3. RemovalOK' /\ FluxOK' /\ DiffusionOK
  BY <1>1, PartsOK
<1>4. DiffusionOK'
  BY <1>1, <1>2, <1>3 DEF DiffusionOK
<1>5. missing' \subseteq Cells
  BY <1>1, <1>2 DEF Inv, TypeOK
<1>6. QED
  BY <1>1, <1>3, <1>4, <1>5, NextEdgeOK, VisitInv

LEMMA IterateInv == ASSUME Inv, Iterate PROVE Inv'
<1>1. /\ iteration < NrIterations /\ iteration' = iteration + 1 /\ edgeNr' = 0
      /\ Start("iter") /\ UNCHANGED <<graph, missing, removal, flux, terms>>
  BY DEF Iterate
<1>2. RemovalOK' /\ FluxOK' /\ DiffusionOK
  BY <1>1, PartsOK
<1>3. DiffusionOK'
  BY <1>1, <1>2, IterationAssumption DEF DiffusionOK
<1>4. missing' \subseteq Cells
  BY <1>1 DEF Inv, TypeOK
<1>5. QED
  BY <1>1, <1>2, <1>3, <1>4, StartOK, VisitInv

LEMMA DiffuseEdgeInv == ASSUME Inv, DiffuseEdge PROVE Inv'
<1>1. /\ Visiting("iter") /\ NextEdge /\ edgeNr' \in {edgeNr, edgeNr + 1}
      /\ UNCHANGED <<graph, missing, removal, flux, terms, iteration>>
  BY DEF DiffuseEdge
<1>2. RemovalOK' /\ FluxOK' /\ DiffusionOK
  BY <1>1, PartsOK
<1>3. DiffusionOK'
  BY <1>1, <1>2 DEF DiffusionOK
<1>4. missing' \subseteq Cells
  BY <1>1 DEF Inv, TypeOK
<1>5. QED
  BY <1>1, <1>2, <1>3, <1>4, NextEdgeOK, VisitInv

LEMMA FinishVertexInv == ASSUME Inv, FinishVertex PROVE Inv'
<1>1. /\ op # "none" /\ at > 0 /\ at' = at - 1 /\ todo' = OutOf(at - 1)
      /\ UNCHANGED <<graph, missing, op, removal, flux, diffusion>>
  BY DEF FinishVertex
<1>2. RemovalOK' /\ FluxOK' /\ DiffusionOK'
  BY <1>1, PartsOK
<1>3. op' \in {"remove", "accuflux", "upstream", "init", "iter"} /\ missing' \subseteq Cells
  BY <1>1 DEF Inv, TypeOK
<1>4. at' \in 0..Len(rto)
  <2>1. at \in 0..Len(rto) /\ rto \in Seq(Cells)
    BY DEF Inv, TypeOK
  <2>2. QED
    BY <1>1, <2>1
<1>5. todo' \subseteq OutOf(at')
  BY <1>1
<1>6. QED
  BY <1>1, <1>2, <1>3, <1>4, <1>5, VisitInv

LEMMA StutterInv == ASSUME Inv, UNCHANGED vars PROVE Inv'
<1>1. op' = op /\ UNCHANGED graph /\ UNCHANGED missing /\ UNCHANGED visit
  BY DEF vars, visit
<1>2. missing' \subseteq Cells
  BY <1>1 DEF Inv, TypeOK
<1>3. CASE op = "none"
  BY <1>1, <1>2, <1>3, StaysIdle, ReturnInv
<1>4. CASE op # "none"
  <2>1. UNCHANGED removal /\ UNCHANGED flux /\ UNCHANGED diffusion
        /\ at' = at /\ todo' = todo
    BY <1>1 DEF visit
  <2>2. /\ op' \in {"remove", "accuflux", "upstream", "init", "iter"}
        /\ at' \in 0..Len(rto) /\ todo' \subseteq OutOf(at')
    BY <1>1, <1>4, <2>1 DEF Inv, TypeOK
  <2>3. QED
    BY <1>1, <1>2, <2>1, <2>2, PartsOK, VisitInv
<1>5. QED
  BY <1>3, <1>4

LEMMA InvInductive == Inv /\ [Next]_vars => Inv'
<1> SUFFICES ASSUME Inv, [Next]_vars PROVE Inv'
  OBVIOUS
<1>1. CASE \E ldd \in Ldds : AddStream(ldd)
  BY <1>1, AddStreamInv
<1>2. CASE \E ldds \in Streams : SetStream(ldds)
  BY <1>2, SetStreamInv
<1>3. CASE \E cells \in Dems : SetDem(cells)
  BY <1>3, SetDemInv
<1>4. CASE \E edges \in SUBSET Edges(dag) : RemoveStream(edges)
  BY <1>4, RemoveStreamInv
<1>5. CASE \E cells \in Materials : Accuflux(cells) \/ Upstream(cells)
  BY <1>5, FluxInv
<1>6. CASE \E args \in DiffusionArgs : Diffuse(args)
  BY <1>6, DiffuseInv
<1>7. CASE RemoveEdge
  BY <1>7, RemoveEdgeInv
<1>8. CASE Removed
  BY <1>8, RemovedInv
<1>9. CASE FluxEdge
  BY <1>9, FluxEdgeInv
<1>10. CASE Returned \/ Diffused
  BY <1>10, ReturnedInv
<1>11. CASE InitFlowTerm
  BY <1>11, InitFlowTermInv
<1>12. CASE Iterate
  BY <1>12, IterateInv
<1>13. CASE DiffuseEdge
  BY <1>13, DiffuseEdgeInv
<1>14. CASE FinishVertex
  BY <1>14, FinishVertexInv
<1>15. CASE UNCHANGED vars
  BY <1>15, StutterInv
<1>16. QED
  BY <1>1, <1>2, <1>3, <1>4, <1>5, <1>6, <1>7, <1>8, <1>9, <1>10, <1>11, <1>12, <1>13,
     <1>14, <1>15 DEF Next

-------------------------------------------------------------------------------
(* The round trip *)

\* A direction is the ldd value that getStream gives it, which is neither a pit
\* nor missing.
LEMMA DirectionRoundTrip ==
  ASSUME NEW nb \in NBCodes
  PROVE  ToLDD(nb) \notin {Pit, MV} /\ ToNB(ToLDD(nb)) = nb
BY DEF NBCodes, ToLDD, ToNB, Pit, MV

LEMMA RoundTripOfMirrors ==
  ASSUME dag \in Dags, Mirrors(dag)
  PROVE  StreamRoundTrip
<1> DEFINE ldds == GetStream(dag)
           all == {ldds[nb] : nb \in NBCodes}
<1>1. ASSUME NEW c \in Cells, NEW k \in NBCodes
      PROVE  /\ ldds[k][c] \notin {Pit, MV} <=> k \in dag.outflow[c]
             /\ k \in dag.outflow[c] => ToNB(ldds[k][c]) = k
  <2>1. ldds[k][c] = IF dag.inflow[c] # {} /\ dag.outflow[c] = {} THEN Pit
                     ELSE IF k \in dag.outflow[c] THEN ToLDD(k) ELSE MV
    BY DEF GetStream
  <2>2. QED
    BY <2>1, DirectionRoundTrip
<1>2. ASSUME NEW c \in Cells
      PROVE  FlowsOf(all, c) = dag.outflow[c]
  <2> HIDE DEF ldds
  <2>1. dag.outflow[c] \subseteq NBCodes
    BY DEF Dags
  <2>2. ASSUME NEW nb \in FlowsOf(all, c) PROVE nb \in dag.outflow[c]
    <3>1. PICK k \in NBCodes : ldds[k][c] \notin {Pit, MV} /\ nb = ToNB(ldds[k][c])
      BY <2>2 DEF FlowsOf
    <3>2. QED
      BY <1>1, <3>1
  <2>3. ASSUME NEW nb \in dag.outflow[c] PROVE nb \in FlowsOf(all, c)
    <3>1. nb \in NBCodes /\ Target(c, nb) \in Cells
      BY <2>1, <2>3 DEF Mirrors
    <3>2. /\ ldds[nb] \in all /\ ldds[nb][c] \notin {Pit, MV}
          /\ nb = ToNB(ldds[nb][c])
      BY <1>1, <2>3, <3>1
    <3> HIDE DEF all
    <3>3. QED
      BY <3>1, <3>2 DEF FlowsOf
  <2>4. QED
    BY <2>2, <2>3
<1>3. ASSUME NEW c \in Cells
      PROVE  {nb \in NBCodes : /\ Target(c, nb) \in Cells
                               /\ Reverse(nb) \in FlowsOf(all, Target(c, nb))}
               = dag.inflow[c]
  <2> HIDE DEF all
  <2>1. dag.inflow[c] \subseteq NBCodes
    BY DEF Dags
  <2>2. ASSUME NEW nb \in NBCodes, Target(c, nb) \in Cells
        PROVE  Reverse(nb) \in FlowsOf(all, Target(c, nb)) <=> nb \in dag.inflow[c]
    <3>1. /\ Reverse(nb) \in NBCodes /\ Reverse(Reverse(nb)) = nb
          /\ Target(Target(c, nb), Reverse(nb)) = c
      BY NeighbourBack
    <3>2. Reverse(nb) \in dag.outflow[Target(c, nb)] <=> nb \in dag.inflow[c]
      BY <2>2, <3>1 DEF Mirrors
    <3>3. QED
      BY <1>2, <2>2, <3>2
  <2>3. ASSUME NEW nb \in NBCodes, Target(c, nb) \notin Cells
        PROVE  nb \notin dag.inflow[c]
    BY <2>3 DEF Mirrors
  <2>4. QED
    BY <2>1, <2>2, <2>3
<1> HIDE DEF ldds, all
<1>4. AddLdds(EmptyDag, all) =
        [outflow |-> [c \in Cells |-> dag.outflow[c]],
         inflow |-> [c \in Cells |-> dag.inflow[c]]]
  <2>1. \A c \in Cells : EmptyDag.outflow[c] = {} /\ EmptyDag.inflow[c] = {}
    BY DEF EmptyDag, NoFlow
  <2>2. [c \in Cells |-> EmptyDag.outflow[c] \cup FlowsOf(all, c)]
          = [c \in Cells |-> dag.outflow[c]]
    BY <1>2, <2>1
  <2>3. [c \in Cells |-> EmptyDag.inflow[c] \cup
           {nb \in NBCodes : /\ Target(c, nb) \in Cells
                             /\ Reverse(nb) \in FlowsOf(all, Target(c, nb))}]
          = [c \in Cells |-> dag.inflow[c]]
    BY <1>3, <2>1
  <2>4. QED
    BY <2>2, <2>3 DEF AddLdds
<1>5. dag = [outflow |-> [c \in Cells |-> dag.outflow[c]],
             inflow |-> [c \in Cells |-> dag.inflow[c]]]
  BY DEF Dags
<1>6. QED
  BY <1>4, <1>5 DEF StreamRoundTrip, ldds, all

-------------------------------------------------------------------------------
(* The theorems of the graph *)

\* In every behaviour the two graphs have their bytes, the order is a sequence
\* of cells, and a visitor stays at a vertex and its edges (mldd_dagraster.cc).
THEOREM TypeCorrect == Spec => []TypeOK
<1>1. Inv => TypeOK
  BY DEF Inv
<1>2. QED
  BY <1>1, InitInv, InvInductive, PTL DEF Spec

\* Adding and removing streams, flow by flow, keeps the outflow of every cell
\* equal to what its neighbours receive, and what removeStream collects stays a
\* part of the graph, so that flipping its bits clears them (DagRaster::remove).
THEOREM FlowsMirrorCorrect == Spec => []FlowsMirror
<1>1. Inv => FlowsMirror
  BY DEF Inv
<1>2. QED
  BY <1>1, InitInv, InvInductive, PTL DEF Spec

\* Whatever streams are set, added and removed, d_rto is an order of the current
\* graph, with every vertex unless updateOrder threw NotADag.
THEOREM OrderCorrect == Spec => []OrderIsCurrent
<1>1. Inv => OrderIsCurrent
  BY DEF Inv
<1>2. QED
  BY <1>1, InitInv, InvInductive, PTL DEF Spec

\* Whatever streams are set, added and removed, the ldds that getStream returns
\* have the whole graph: setStream makes it again.
THEOREM RoundTripCorrect == Spec => []StreamRoundTrip
<1>1. Inv => StreamRoundTrip
  BY RoundTripOfMirrors DEF Inv, TypeOK, FlowsMirror
<1>2. QED
  BY <1>1, InitInv, InvInductive, PTL DEF Spec

-------------------------------------------------------------------------------
(* What a visit has passed *)

\* The edge in direction nb of the i-th vertex has been visited.
Passed(i, nb) == i > at \/ (i = at /\ nb \notin todo)

EdgeOf(i, nb) == <<rto[i], Target(rto[i], nb)>>

\* The bits of a vertex are visited from low to high.
TodoIsRest == \A m \in todo : \A nb \in OutOf(at) \ todo : nb < m

\* An edge is that of one vertex in one direction.
LEMMA EdgeOfOnce ==
  ASSUME Inv
  PROVE  \A i, j \in 1..Len(rto) :
           \A nb \in dag.outflow[rto[i]] : \A m \in dag.outflow[rto[j]] :
             EdgeOf(i, nb) = EdgeOf(j, m) => i = j /\ nb = m
<1> SUFFICES ASSUME NEW i \in 1..Len(rto), NEW j \in 1..Len(rto),
                    NEW nb \in dag.outflow[rto[i]], NEW m \in dag.outflow[rto[j]],
                    EdgeOf(i, nb) = EdgeOf(j, m)
             PROVE  i = j /\ nb = m
  OBVIOUS
<1>1. rto[i] = rto[j] /\ Target(rto[i], nb) = Target(rto[j], m)
  BY DEF EdgeOf
<1>2. i = j
  BY <1>1 DEF Inv, OrderIsCurrent
<1>3. rto \in Seq(Cells) /\ dag \in Dags
  BY DEF Inv, TypeOK
<1>4. rto[i] \in Cells /\ nb \in NBCodes /\ m \in NBCodes
  BY <1>2, <1>3 DEF Dags
<1>5. QED
  BY <1>1, <1>2, <1>4, TargetInjective

\* Where the visit is.
LEMMA AtEdge ==
  ASSUME Inv, NEW v, Visiting(v)
  PROVE  /\ at \in 1..Len(rto) /\ Bit \in todo /\ Bit \in dag.outflow[rto[at]]
         /\ todo \subseteq dag.outflow[rto[at]] /\ OutOf(at) = dag.outflow[rto[at]]
         /\ dag.outflow[rto[at]] \subseteq NBCodes /\ at \in Nat
         /\ Edge = EdgeOf(at, Bit) /\ \A m \in todo : Bit =< m
<1>1. at \in 0..Len(rto) /\ todo # {} /\ todo \subseteq OutOf(at) /\ rto \in Seq(Cells)
      /\ dag \in Dags
  BY DEF Inv, TypeOK, Visiting
<1>2. at # 0
  BY <1>1 DEF OutOf
<1>3. at \in 1..Len(rto) /\ at \in Nat /\ OutOf(at) = dag.outflow[rto[at]] /\ rto[at] \in Cells
  BY <1>1, <1>2 DEF OutOf
<1>4. dag.outflow[rto[at]] \subseteq NBCodes
  BY <1>1, <1>3 DEF Dags
<1>5. todo \in SUBSET NBCodes
  BY <1>1, <1>3, <1>4
<1>6. Bit \in todo /\ \A m \in todo : Bit =< m
  BY <1>1, <1>5, LowestBit DEF Bit
<1>7. QED
  BY <1>1, <1>3, <1>4, <1>6 DEF Edge, EdgeOf, Source, Downstream

\* A visit starts with nothing passed.
LEMMA StartPasses ==
  ASSUME Inv, NEW v, Start(v), UNCHANGED graph
  PROVE  /\ \A i \in 1..Len(rto) : \A nb \in dag.outflow[rto[i]] : ~Passed(i, nb)'
         /\ TodoIsRest'
<1>1. at' = Len(rto) /\ todo' = OutOf(Len(rto)) /\ rto' = rto /\ dag' = dag
  BY DEF Start, graph
<1>2. TodoIsRest'
  <2>1. OutOf(at)' = todo'
    BY <1>1 DEF OutOf
  <2>2. QED
    BY <2>1 DEF TodoIsRest
<1>3. Len(rto) \in Nat
  BY DEF Inv, TypeOK
<1>4. ASSUME NEW i \in 1..Len(rto), NEW nb \in dag.outflow[rto[i]], Passed(i, nb)'
      PROVE  FALSE
  <2>1. i = Len(rto) /\ nb \notin OutOf(Len(rto)) /\ i # 0
    BY <1>1, <1>3, <1>4 DEF Passed
  <2>2. QED
    BY <2>1 DEF OutOf
<1>5. QED
  BY <1>2, <1>4

\* The edge that is visited was not passed, and then is.
LEMMA EdgePasses ==
  ASSUME Inv, NEW v, Visiting(v), NextEdge, UNCHANGED graph
  PROVE  /\ ~Passed(at, Bit) /\ (TodoIsRest => TodoIsRest')
         /\ \A i, nb : Passed(i, nb)' <=> Passed(i, nb) \/ (i = at /\ nb = Bit)
<1>1. at' = at /\ todo' = todo \ {Bit} /\ rto' = rto /\ dag' = dag
  BY DEF NextEdge, graph
<1>2. /\ at \in Nat /\ Bit \in todo /\ todo \subseteq OutOf(at) /\ OutOf(at) \subseteq NBCodes
      /\ \A m \in todo : Bit =< m
  BY AtEdge
<1>3. ~Passed(at, Bit)
  BY <1>2 DEF Passed
<1>4. ASSUME TodoIsRest PROVE TodoIsRest'
  <2>1. OutOf(at)' = OutOf(at)
    BY <1>1 DEF OutOf
  <2>2. ASSUME NEW m \in todo \ {Bit}, NEW nb \in OutOf(at) \ (todo \ {Bit})
        PROVE  nb < m
    <3>1. m \in NBCodes /\ nb \in NBCodes /\ Bit \in NBCodes
      BY <1>2
    <3>2. CASE nb = Bit
      BY <1>2, <3>1, <3>2 DEF NBCodes
    <3>3. CASE nb # Bit
      BY <1>4, <3>3 DEF TodoIsRest
    <3>4. QED
      BY <3>2, <3>3
  <2>3. QED
    BY <1>1, <2>1, <2>2 DEF TodoIsRest
<1>5. \A i, nb : Passed(i, nb)' <=> Passed(i, nb) \/ (i = at /\ nb = Bit)
  BY <1>1, <1>2 DEF Passed
<1>6. QED
  BY <1>3, <1>4, <1>5

\* The end of a vertex passes nothing.
LEMMA VertexPasses ==
  ASSUME Inv, FinishVertex
  PROVE  /\ \A i \in 1..Len(rto) : \A nb \in dag.outflow[rto[i]] : Passed(i, nb)' <=> Passed(i, nb)
         /\ TodoIsRest'
<1>1. at > 0 /\ at' = at - 1 /\ todo = {} /\ todo' = OutOf(at - 1) /\ rto' = rto /\ dag' = dag
  BY DEF FinishVertex, graph
<1>2. at \in Nat /\ Len(rto) \in Nat
  BY DEF Inv, TypeOK
<1>3. TodoIsRest'
  <2>1. OutOf(at)' = todo'
    BY <1>1 DEF OutOf
  <2>2. QED
    BY <2>1 DEF TodoIsRest
<1>4. ASSUME NEW i \in 1..Len(rto), NEW nb \in dag.outflow[rto[i]]
      PROVE  Passed(i, nb)' <=> Passed(i, nb)
  <2>1. i \in Nat /\ i # 0
    BY <1>2
  <2>2. i = at - 1 => nb \in OutOf(at - 1)
    BY <2>1 DEF OutOf
  <2>3. Passed(i, nb) <=> i >= at
    BY <1>1, <1>2, <2>1 DEF Passed
  <2>4. Passed(i, nb)' <=> i > at - 1 \/ (i = at - 1 /\ nb \notin OutOf(at - 1))
    BY <1>1 DEF Passed
  <2>5. QED
    BY <1>2, <2>1, <2>2, <2>3, <2>4
<1>5. QED
  BY <1>3, <1>4

\* At the end all are passed.
LEMMA AllPassed ==
  ASSUME Inv, at = 0
  PROVE  \A i \in 1..Len(rto) : \A nb : Passed(i, nb)
<1>1. Len(rto) \in Nat
  BY DEF Inv, TypeOK
<1>2. QED
  BY <1>1 DEF Passed

-------------------------------------------------------------------------------
(* The terms of diffuse *)

Ahead(i, nb, j, m) == i > j \/ (i = j /\ nb < m)

HasTerm(i, nb) == \E k \in 1..Len(terms) : terms[k] = EdgeOf(i, nb)

\* Every term is that of an edge.
AreTerms ==
  \A k \in 1..Len(terms) : \E i \in 1..Len(rto) : \E nb \in dag.outflow[rto[i]] :
    terms[k] = EdgeOf(i, nb)

\* The terms are in the order of the visits.
TermsSorted ==
  \A k, l \in 1..Len(terms) : \A i, j \in 1..Len(rto) :
    \A nb \in dag.outflow[rto[i]] : \A m \in dag.outflow[rto[j]] :
      (k < l /\ terms[k] = EdgeOf(i, nb) /\ terms[l] = EdgeOf(j, m)) => Ahead(i, nb, j, m)

\* The first visit makes a term for each edge that it passes.
InitTerms ==
  \A i \in 1..Len(rto) : \A nb \in dag.outflow[rto[i]] : HasTerm(i, nb) <=> Passed(i, nb)

AllTerms == \A i \in 1..Len(rto) : \A nb \in dag.outflow[rto[i]] : HasTerm(i, nb)

\* The first n terms are those of the edges that are passed.
TermsUpto(n) ==
  \A k \in 1..Len(terms) : \A i \in 1..Len(rto) : \A nb \in dag.outflow[rto[i]] :
    terms[k] = EdgeOf(i, nb) => (k =< n <=> Passed(i, nb))

\* An iteration is never ahead of the terms of the edges that it passed, and not
\* behind when no elevation is missing.
Used == \E n \in 0..Len(terms) :
  /\ edgeNr =< n /\ (missing = {} => edgeNr = n)
  /\ TermsUpto(n)

Terms ==
  /\ TodoIsRest
  /\ op \in {"init", "iter"} => AreTerms /\ TermsSorted
  /\ op = "init" => InitTerms
  /\ op = "iter" => AllTerms /\ Used

TInv == Inv /\ Terms

LEMMA DiffuseTerms == ASSUME TInv, NEW args, Diffuse(args) PROVE Terms'
<1>1. /\ op = "none" /\ op' = "init" /\ Start("init") /\ UNCHANGED graph /\ terms' = terms
  BY DEF Diffuse, Start, diffusion
<1>2. terms' = <<>> /\ Len(terms') = 0
  BY <1>1 DEF TInv, Inv, Rest, Idle
<1>3. dag' = dag /\ rto' = rto
  BY <1>1 DEF graph
<1>4. /\ \A i \in 1..Len(rto) : \A nb \in dag.outflow[rto[i]] : ~Passed(i, nb)'
      /\ TodoIsRest'
  BY <1>1, StartPasses DEF TInv
<1>5. InitTerms'
  BY <1>2, <1>3, <1>4 DEF InitTerms, HasTerm
<1>6. AreTerms' /\ TermsSorted'
  BY <1>2 DEF AreTerms, TermsSorted
<1>7. QED
  BY <1>1, <1>4, <1>5, <1>6 DEF Terms

LEMMA InitFlowTermTerms == ASSUME TInv, InitFlowTerm PROVE Terms'
<1>1. /\ Visiting("init") /\ NextEdge /\ op = "init" /\ op' = "init" /\ UNCHANGED graph
      /\ terms' = Append(terms, Edge) /\ dag' = dag /\ rto' = rto
  BY DEF InitFlowTerm, Visiting, NextEdge, graph
<1>2. /\ AreTerms /\ TermsSorted /\ InitTerms /\ TodoIsRest /\ Inv
      /\ terms \in Seq(Cells \X Cells)
  BY <1>1 DEF TInv, Terms, Inv, TypeOK
<1>3. /\ at \in 1..Len(rto) /\ Bit \in dag.outflow[rto[at]] /\ Bit \in todo
      /\ OutOf(at) = dag.outflow[rto[at]] /\ Edge = EdgeOf(at, Bit)
  BY <1>1, <1>2, AtEdge
<1>4. /\ Len(terms') = Len(terms) + 1 /\ Len(terms) \in Nat
      /\ \A k \in 1..Len(terms) : terms'[k] = terms[k]
      /\ terms'[Len(terms) + 1] = EdgeOf(at, Bit)
  <2>1. Edge \in Cells \X Cells
    BY <1>1, <1>2, EdgeVisited
  <2>2. QED
    BY <1>1, <1>2, <1>3, <2>1
<1>5. \A k \in 1..Len(terms') : k \in 1..Len(terms) \/ k = Len(terms) + 1
  BY <1>4
<1>6. /\ ~Passed(at, Bit) /\ TodoIsRest'
      /\ \A i, nb : Passed(i, nb)' <=> Passed(i, nb) \/ (i = at /\ nb = Bit)
  BY <1>1, <1>2, EdgePasses
<1>7. \A i, nb : EdgeOf(i, nb)' = EdgeOf(i, nb)
  BY <1>1 DEF EdgeOf
<1>8. AreTerms'
  BY <1>1, <1>2, <1>3, <1>4, <1>5, <1>7 DEF AreTerms
<1>9. TermsSorted'
  <2> SUFFICES ASSUME NEW k \in 1..Len(terms'), NEW l \in 1..Len(terms'),
                      NEW i \in 1..Len(rto'), NEW j \in 1..Len(rto'),
                      NEW nb \in dag'.outflow[rto'[i]], NEW m \in dag'.outflow[rto'[j]],
                      k < l, terms'[k] = EdgeOf(i, nb)', terms'[l] = EdgeOf(j, m)'
               PROVE  Ahead(i, nb, j, m)'
    BY Zenon DEF TermsSorted
  <2>5. SUFFICES Ahead(i, nb, j, m)
    BY DEF Ahead
  <2>6. /\ i \in 1..Len(rto) /\ j \in 1..Len(rto)
        /\ nb \in dag.outflow[rto[i]] /\ m \in dag.outflow[rto[j]]
    BY <1>1
  <2>1. /\ k \in 1..Len(terms) /\ terms[k] = EdgeOf(i, nb)
        /\ terms'[l] = EdgeOf(j, m)
    BY <1>4, <1>7
  <2>2. CASE l \in 1..Len(terms)
    <3>1. terms[l] = EdgeOf(j, m)
      BY <1>4, <2>1, <2>2
    <3>2. QED
      BY <1>2, <2>1, <2>2, <2>6, <3>1 DEF TermsSorted
  <2>3. CASE l = Len(terms) + 1
    <3>1. j = at /\ m = Bit
      BY <1>2, <1>3, <1>4, <2>1, <2>3, <2>6, EdgeOfOnce
    <3>2. Passed(i, nb)
      BY <1>2, <2>1, <2>6 DEF InitTerms, HasTerm
    <3>3. CASE i > at
      BY <3>1, <3>3 DEF Ahead
    <3>4. CASE i = at /\ nb \notin todo
      BY <1>2, <1>3, <2>6, <3>1, <3>4 DEF Ahead, TodoIsRest
    <3>5. QED
      BY <3>2, <3>3, <3>4 DEF Passed
  <2>4. QED
    BY <1>5, <2>2, <2>3
<1>10. ASSUME NEW i \in 1..Len(rto), NEW nb \in dag.outflow[rto[i]]
       PROVE  HasTerm(i, nb)' <=> HasTerm(i, nb) \/ (i = at /\ nb = Bit)
  <2>1. ASSUME HasTerm(i, nb)' PROVE HasTerm(i, nb) \/ (i = at /\ nb = Bit)
    <3>1. PICK k \in 1..Len(terms') : terms'[k] = EdgeOf(i, nb)
      BY <1>7, <2>1 DEF HasTerm
    <3>2. CASE k \in 1..Len(terms)
      BY <1>4, <3>1, <3>2 DEF HasTerm
    <3>3. CASE k = Len(terms) + 1
      BY <1>2, <1>3, <1>4, <3>1, <3>3, EdgeOfOnce
    <3>4. QED
      BY <1>5, <3>2, <3>3
  <2>2. ASSUME HasTerm(i, nb) PROVE HasTerm(i, nb)'
    <3>1. PICK k \in 1..Len(terms) : terms[k] = EdgeOf(i, nb)
      BY <2>2 DEF HasTerm
    <3>2. k \in 1..Len(terms')
      BY <1>4
    <3>3. QED
      BY <1>4, <1>7, <3>1, <3>2 DEF HasTerm
  <2>3. ASSUME i = at, nb = Bit PROVE HasTerm(i, nb)'
    <3>1. Len(terms) + 1 \in 1..Len(terms')
      BY <1>4
    <3>2. QED
      BY <1>4, <1>7, <2>3, <3>1 DEF HasTerm
  <2>4. QED
    BY <2>1, <2>2, <2>3
<1>11. InitTerms'
  BY <1>1, <1>2, <1>6, <1>10 DEF InitTerms
<1>12. QED
  BY <1>1, <1>6, <1>8, <1>9, <1>11 DEF Terms

\* What the terms are does not depend on where the visit is.
LEMMA SameTerms ==
  ASSUME UNCHANGED graph, terms' = terms
  PROVE  /\ AreTerms => AreTerms'
         /\ TermsSorted => TermsSorted'
         /\ AllTerms => AllTerms'
         /\ \A i, nb : EdgeOf(i, nb)' = EdgeOf(i, nb) /\ HasTerm(i, nb)' = HasTerm(i, nb)
<1>1. dag' = dag /\ rto' = rto
  BY DEF graph
<1>2. \A i, nb : EdgeOf(i, nb)' = EdgeOf(i, nb)
  BY <1>1 DEF EdgeOf
<1>3. \A i, nb : HasTerm(i, nb)' = HasTerm(i, nb)
  BY <1>2 DEF HasTerm
<1>4. QED
  BY <1>1, <1>2, <1>3 DEF AreTerms, TermsSorted, AllTerms, Ahead

\* Where the visit of an iteration is, the next term is that of its edge.
LEMMA NextTerm ==
  ASSUME TInv, Visiting("iter"), NEW n \in 0..Len(terms), TermsUpto(n)
  PROVE  n + 1 \in 1..Len(terms) /\ terms[n + 1] = EdgeOf(at, Bit)
<1>1. op = "iter" /\ Inv /\ AreTerms /\ TermsSorted /\ AllTerms /\ terms \in Seq(Cells \X Cells)
  BY DEF Visiting, TInv, Terms, Inv, TypeOK
<1>2. /\ at \in 1..Len(rto) /\ Bit \in dag.outflow[rto[at]] /\ Bit \in todo
      /\ \A m \in todo : Bit =< m
      /\ at \in Nat /\ dag.outflow[rto[at]] \subseteq NBCodes
  BY <1>1, AtEdge
<1>3. ~Passed(at, Bit)
  BY <1>2 DEF Passed
<1>4. PICK k \in 1..Len(terms) : terms[k] = EdgeOf(at, Bit)
  BY <1>1, <1>2 DEF AllTerms, HasTerm
<1>5. ~(k =< n)
  BY <1>2, <1>3, <1>4 DEF TermsUpto
<1>6. Len(terms) \in Nat /\ n \in Nat /\ k \in Nat
  BY <1>1
<1>7. n + 1 \in 1..Len(terms) /\ n + 1 =< k /\ ~(n + 1 =< n)
  BY <1>5, <1>6
<1>8. CASE n + 1 < k
  <2>1. PICK i \in 1..Len(rto) : \E m \in dag.outflow[rto[i]] : terms[n + 1] = EdgeOf(i, m)
    BY <1>1, <1>7 DEF AreTerms
  <2>7. PICK m \in dag.outflow[rto[i]] : terms[n + 1] = EdgeOf(i, m)
    BY <2>1
  <2>2. ~Passed(i, m)
    BY <1>7, <2>7 DEF TermsUpto
  <2>3. Ahead(i, m, at, Bit)
    BY <1>1, <1>2, <1>4, <1>7, <1>8, <2>7 DEF TermsSorted
  <2>4. i = at /\ m < Bit /\ m \in todo
    BY <2>2, <2>3 DEF Ahead, Passed
  <2>5. m \in NBCodes /\ Bit \in NBCodes /\ Bit =< m
    BY <1>2, <2>4
  <2>6. QED
    BY <2>4, <2>5 DEF NBCodes
<1>9. CASE ~(n + 1 < k)
  <2>1. n + 1 = k
    BY <1>6, <1>7, <1>9
  <2>2. QED
    BY <1>4, <1>7, <2>1
<1>10. QED
  BY <1>8, <1>9

\* Every iteration starts at the first term.
LEMMA IterateTerms == ASSUME TInv, Iterate PROVE Terms'
<1>1. /\ op \in {"init", "iter"} /\ at = 0 /\ op' = "iter" /\ edgeNr' = 0 /\ Start("iter")
      /\ UNCHANGED graph /\ terms' = terms /\ missing' = missing
  BY DEF Iterate, Visited, Start
<1>2. /\ AreTerms /\ TermsSorted /\ Inv /\ (op = "init" => InitTerms) /\ (op = "iter" => AllTerms)
      /\ terms \in Seq(Cells \X Cells)
  BY <1>1 DEF TInv, Terms, Inv, TypeOK
<1>3. AllTerms
  BY <1>1, <1>2, AllPassed DEF AllTerms, InitTerms
<1>4. AreTerms' /\ TermsSorted' /\ AllTerms'
  BY <1>1, <1>2, <1>3, SameTerms
<1>5. /\ \A i \in 1..Len(rto) : \A nb \in dag.outflow[rto[i]] : ~Passed(i, nb)'
      /\ TodoIsRest'
  BY <1>1, <1>2, StartPasses
<1>6. TermsUpto(0)'
  <2>1. \A k \in 1..Len(terms) : ~(k =< 0)
    OBVIOUS
  <2>2. dag' = dag /\ rto' = rto
    BY <1>1 DEF graph
  <2>3. QED
    BY <1>1, <1>5, <2>1, <2>2 DEF TermsUpto
<1>7. Used'
  <2>1. 0 \in 0..Len(terms)'
    BY <1>1, <1>2
  <2>2. QED
    BY <1>1, <1>6, <2>1 DEF Used
<1>8. QED
  BY <1>1, <1>4, <1>5, <1>7 DEF Terms

\* An edge uses its term, or none.
LEMMA DiffuseEdgeTerms == ASSUME TInv, DiffuseEdge PROVE Terms'
<1>1. /\ op = "iter" /\ op' = "iter" /\ Visiting("iter") /\ NextEdge
      /\ edgeNr' = (IF HasDrop THEN edgeNr + 1 ELSE edgeNr)
      /\ UNCHANGED graph /\ terms' = terms /\ missing' = missing
  BY DEF DiffuseEdge, Visiting, NextEdge
<1>2. /\ Inv /\ AreTerms /\ TermsSorted /\ AllTerms /\ Used /\ TodoIsRest
      /\ terms \in Seq(Cells \X Cells) /\ edgeNr \in Nat
  BY <1>1 DEF TInv, Terms, Inv, TypeOK
<1>3. PICK n \in 0..Len(terms) :
        edgeNr =< n /\ (missing = {} => edgeNr = n) /\ TermsUpto(n)
  BY <1>2 DEF Used
<1>4. n + 1 \in 1..Len(terms) /\ terms[n + 1] = EdgeOf(at, Bit)
  BY <1>1, <1>3, NextTerm
<1>5. at \in 1..Len(rto) /\ Bit \in dag.outflow[rto[at]]
      /\ at \in Nat /\ dag.outflow[rto[at]] \subseteq NBCodes
  BY <1>1, <1>2, AtEdge
<1>6. /\ TodoIsRest'
      /\ \A i, nb : Passed(i, nb)' <=> Passed(i, nb) \/ (i = at /\ nb = Bit)
  BY <1>1, <1>2, EdgePasses
<1>7. /\ AreTerms' /\ TermsSorted' /\ AllTerms'
      /\ \A i, nb : EdgeOf(i, nb)' = EdgeOf(i, nb)
  BY <1>1, <1>2, SameTerms
<1>8. n \in Nat /\ Len(terms) \in Nat
  BY <1>2
<1>9. ASSUME NEW k \in 1..Len(terms), NEW i \in 1..Len(rto), NEW nb \in dag.outflow[rto[i]],
             terms[k] = EdgeOf(i, nb)
      PROVE  k =< n + 1 <=> Passed(i, nb)'
  <2>1. k =< n <=> Passed(i, nb)
    BY <1>3, <1>9 DEF TermsUpto
  <2>2. CASE k = n + 1
    <3>1. i = at /\ nb = Bit
      BY <1>2, <1>4, <1>5, <1>9, <2>2, EdgeOfOnce
    <3>2. QED
      BY <1>6, <1>8, <2>2, <3>1
  <2>3. CASE k # n + 1
    <3>1. ~(i = at /\ nb = Bit)
      <4> SUFFICES ASSUME i = at, nb = Bit PROVE FALSE
        OBVIOUS
      <4>1. terms[k] = terms[n + 1] /\ k \in Nat
        BY <1>4, <1>9
      <4>2. ~Ahead(at, Bit, at, Bit)
        BY <1>5 DEF Ahead, NBCodes
      <4>3. CASE k < n + 1
        BY <1>2, <1>4, <1>5, <4>1, <4>2, <4>3 DEF TermsSorted
      <4>4. CASE n + 1 < k
        BY <1>2, <1>4, <1>5, <4>1, <4>2, <4>4 DEF TermsSorted
      <4>5. QED
        BY <1>8, <2>3, <4>1, <4>3, <4>4
    <3>2. k =< n + 1 <=> k =< n
      BY <1>8, <2>3
    <3>3. QED
      BY <1>6, <2>1, <3>1, <3>2
  <2>4. QED
    BY <2>2, <2>3
<1>10. TermsUpto(n + 1)'
  <2>1. dag' = dag /\ rto' = rto
    BY <1>1 DEF graph
  <2>2. QED
    BY <1>1, <1>7, <1>9, <2>1 DEF TermsUpto
<1>11. Used'
  <2>1. missing = {} => HasDrop
    BY DEF HasDrop
  <2>2. edgeNr' =< n + 1 /\ (missing' = {} => edgeNr' = n + 1)
    BY <1>1, <1>2, <1>3, <1>8, <2>1
  <2>3. n + 1 \in 0..Len(terms')
    BY <1>1, <1>4
  <2>4. QED
    BY <1>10, <2>2, <2>3 DEF Used
<1>12. QED
  BY <1>1, <1>6, <1>7, <1>11 DEF Terms

LEMMA FinishVertexTerms == ASSUME TInv, FinishVertex PROVE Terms'
<1>1. op' = op /\ UNCHANGED graph /\ terms' = terms /\ edgeNr' = edgeNr /\ missing' = missing
      /\ dag' = dag /\ rto' = rto
  BY DEF FinishVertex, diffusion, graph
<1>2. /\ \A i \in 1..Len(rto) : \A nb \in dag.outflow[rto[i]] : Passed(i, nb)' <=> Passed(i, nb)
      /\ TodoIsRest'
  BY VertexPasses DEF TInv
<1>3. /\ AreTerms => AreTerms'
      /\ TermsSorted => TermsSorted'
      /\ AllTerms => AllTerms'
      /\ \A i, nb : EdgeOf(i, nb)' = EdgeOf(i, nb) /\ HasTerm(i, nb)' = HasTerm(i, nb)
  BY <1>1, SameTerms
<1>4. InitTerms => InitTerms'
  BY <1>1, <1>2, <1>3 DEF InitTerms
<1>5. \A n : TermsUpto(n) => TermsUpto(n)'
  BY <1>1, <1>2, <1>3 DEF TermsUpto
<1>6. Used => Used'
  BY <1>1, <1>5 DEF Used
<1>7. QED
  BY <1>1, <1>2, <1>3, <1>4, <1>6 DEF TInv, Terms

\* The visits of the others have no terms.
LEMMA OtherVisitTerms ==
  ASSUME TInv, RemoveEdge \/ FluxEdge
  PROVE  Terms'
<1>1. PICK v \in {"remove", "accuflux", "upstream"} :
        Visiting(v) /\ NextEdge /\ UNCHANGED graph /\ op' = v
  BY DEF RemoveEdge, FluxEdge, Visiting, NextEdge
<1>2. TodoIsRest'
  BY <1>1, EdgePasses DEF TInv, Terms
<1>3. QED
  BY <1>1, <1>2 DEF Terms

LEMMA OtherStartTerms ==
  ASSUME TInv, NEW x, RemoveStream(x) \/ Accuflux(x) \/ Upstream(x)
  PROVE  Terms'
<1>1. PICK v \in {"remove", "accuflux", "upstream"} : Start(v) /\ UNCHANGED graph /\ op' = v
  BY DEF RemoveStream, Accuflux, Upstream, Start
<1>2. TodoIsRest'
  BY <1>1, StartPasses DEF TInv
<1>3. QED
  BY <1>1, <1>2 DEF Terms

\* Between operations there is nothing.
LEMMA NoVisitTerms == op' = "none" /\ todo' = {} => Terms'
BY DEF Terms, TodoIsRest

LEMMA TInvInductive == TInv /\ [Next]_vars => TInv'
<1> SUFFICES ASSUME TInv, [Next]_vars PROVE Terms'
  BY InvInductive DEF TInv
<1>1. op = "none" /\ UNCHANGED visit => op' = "none" /\ todo' = {}
  BY DEF TInv, Inv, Rest, Idle, visit
<1>2. CASE \/ \E ldd \in Ldds : AddStream(ldd)
           \/ \E ldds \in Streams : SetStream(ldds)
           \/ \E cells \in Dems : SetDem(cells)
  BY <1>1, <1>2, NoVisitTerms DEF AddStream, SetStream, SetDem
<1>3. CASE Removed \/ Returned \/ Diffused
  BY <1>3, NoVisitTerms DEF Removed, Returned, Diffused, Finish
<1>4. CASE \/ \E edges \in SUBSET Edges(dag) : RemoveStream(edges)
           \/ \E cells \in Materials : Accuflux(cells) \/ Upstream(cells)
  BY <1>4, OtherStartTerms
<1>5. CASE \E args \in DiffusionArgs : Diffuse(args)
  BY <1>5, DiffuseTerms
<1>6. CASE RemoveEdge \/ FluxEdge
  BY <1>6, OtherVisitTerms
<1>7. CASE InitFlowTerm
  BY <1>7, InitFlowTermTerms
<1>8. CASE Iterate
  BY <1>8, IterateTerms
<1>9. CASE DiffuseEdge
  BY <1>9, DiffuseEdgeTerms
<1>10. CASE FinishVertex
  BY <1>10, FinishVertexTerms
<1>11. CASE UNCHANGED vars
  <2>1. UNCHANGED <<dag, rto, at, todo, op, terms, edgeNr, missing>> /\ UNCHANGED graph
    BY <1>11 DEF vars, graph, visit, diffusion
  <2>2. /\ AreTerms => AreTerms'
        /\ TermsSorted => TermsSorted'
        /\ AllTerms => AllTerms'
        /\ \A i, nb : EdgeOf(i, nb)' = EdgeOf(i, nb) /\ HasTerm(i, nb)' = HasTerm(i, nb)
    BY <2>1, SameTerms
  <2>3. \A i, nb : Passed(i, nb)' = Passed(i, nb)
    BY <2>1 DEF Passed
  <2>4. TodoIsRest => TodoIsRest'
    BY <2>1 DEF TodoIsRest, OutOf
  <2>5. InitTerms => InitTerms'
    BY <2>1, <2>2, <2>3 DEF InitTerms
  <2>6. \A n : TermsUpto(n) => TermsUpto(n)'
    BY <2>1, <2>2, <2>3 DEF TermsUpto
  <2>7. Used => Used'
    BY <2>1, <2>6 DEF Used
  <2>8. QED
    BY <2>1, <2>2, <2>4, <2>5, <2>7 DEF TInv, Terms
<1>12. QED
  BY <1>2, <1>3, <1>4, <1>5, <1>6, <1>7, <1>8, <1>9, <1>10, <1>11 DEF Next

LEMMA InitTInv == Init => TInv
BY InitInv DEF Init, Idle, TInv, Terms, TodoIsRest

\* In every iteration of diffuse, on every raster, there is a term for an edge with
\* a drop, its own when no elevation is missing (the assertion of downstreamEdge,
\* mldd_diffuse.h).
THEOREM TermsCorrect == Spec => []TermsMatch
<1>1. TInv => TermsMatch
  <2> SUFFICES ASSUME TInv, Visiting("iter"), HasDrop
               PROVE  edgeNr < Len(terms) /\ (missing = {} => terms[edgeNr + 1] = Edge)
    BY DEF TermsMatch
  <2>1. Inv /\ Used /\ edgeNr \in Nat /\ Len(terms) \in Nat
    BY DEF TInv, Terms, Visiting, Inv, TypeOK
  <2>2. PICK n \in 0..Len(terms) :
          edgeNr =< n /\ (missing = {} => edgeNr = n) /\ TermsUpto(n)
    BY <2>1 DEF Used
  <2>3. n + 1 \in 1..Len(terms) /\ terms[n + 1] = EdgeOf(at, Bit)
    BY <2>2, NextTerm
  <2>4. Edge = EdgeOf(at, Bit)
    BY <2>1, AtEdge
  <2>5. QED
    BY <2>1, <2>2, <2>3, <2>4
<1>2. QED
  BY <1>1, InitTInv, TInvInductive, PTL DEF Spec

-------------------------------------------------------------------------------
(* Paths *)

\* A path has a first cell.
LEMMA NotEmpty ==
  ASSUME NEW q \in Seq(Cells)
  PROVE  q # <<>> <=> Len(q) >= 1
<1>1. Len(<<>>) = 0 /\ <<>> \in Seq(Cells)
  OBVIOUS
<1>2. Len(q) \in Nat
  OBVIOUS
<1>3. Len(q) = 0 => q = <<>>
  OBVIOUS
<1>4. q = <<>> => Len(q) = 0
  BY <1>1, Zenon
<1>5. QED
  BY <1>2, <1>3, <1>4

\* A path, and the one that it comes from.
LEMMA PathStep ==
  ASSUME NEW q \in Seq(Cells), NEW c \in Cells
  PROVE  /\ Append(q, c) \in Seq(Cells) /\ Append(q, c) # <<>>
         /\ Len(Append(q, c)) = Len(q) + 1 /\ Len(q) \in Nat
         /\ Append(q, c)[Len(q) + 1] = c
         /\ \A i \in 1..Len(q) : Append(q, c)[i] = q[i]
<1>1. /\ Append(q, c) \in Seq(Cells) /\ Len(Append(q, c)) = Len(q) + 1 /\ Len(q) \in Nat
      /\ Append(q, c)[Len(q) + 1] = c /\ \A i \in 1..Len(q) : Append(q, c)[i] = q[i]
  OBVIOUS
<1>2. Append(q, c) # <<>>
  <2>1. Len(Append(q, c)) >= 1
    BY <1>1
  <2>2. QED
    BY <1>1, <2>1, NotEmpty
<1>3. QED
  BY <1>1, <1>2

LEMMA PathFront ==
  ASSUME NEW p \in Seq(Cells), Len(p) > 1
  PROVE  \E q \in Seq(Cells) :
           /\ Len(q) = Len(p) - 1 /\ q # <<>> /\ p = Append(q, p[Len(p)])
           /\ \A i \in 1..Len(q) : q[i] = p[i]
<1> DEFINE q == SubSeq(p, 1, Len(p) - 1)
<1>1. q \in Seq(Cells) /\ Len(q) = Len(p) - 1 /\ \A i \in 1..Len(q) : q[i] = p[i]
  OBVIOUS
<1>2. q # <<>>
  <2>1. Len(q) >= 1
    BY <1>1
  <2> HIDE DEF q
  <2>2. QED
    BY <1>1, <2>1, NotEmpty
<1>3. p = Append(q, p[Len(p)])
  <2>1. /\ Append(q, p[Len(p)]) \in Seq(Cells) /\ Len(Append(q, p[Len(p)])) = Len(p)
        /\ \A i \in 1..Len(p) : Append(q, p[Len(p)])[i] = p[i]
    <3>1. p[Len(p)] \in Cells
      OBVIOUS
    <3> HIDE DEF q
    <3>2. /\ Append(q, p[Len(p)]) \in Seq(Cells) /\ Len(Append(q, p[Len(p)])) = Len(q) + 1
          /\ Append(q, p[Len(p)])[Len(q) + 1] = p[Len(p)]
          /\ \A i \in 1..Len(q) : Append(q, p[Len(p)])[i] = q[i]
      BY <1>1, <3>1, PathStep
    <3>3. \A i \in 1..Len(p) : i \in 1..Len(q) \/ i = Len(q) + 1
      BY <1>1
    <3>4. Len(q) + 1 = Len(p) /\ Len(p) \in Nat
      BY <1>1
    <3>5. QED
      BY <1>1, <3>2, <3>3, <3>4
  <2> HIDE DEF q
  <2>2. QED
    BY <2>1
<1>4. QED
  BY <1>1, <1>2, <1>3

-------------------------------------------------------------------------------
(* The material of upstream and accuflux *)

\* What a cell gives to the cells that it flows to.
From(s) ==
  IF op = "accuflux" THEN result[s] ELSE IF s \in without THEN NoAmount ELSE {<<s>>}

\* The flow from s to c has been visited.
Flowed(s, c) ==
  \E i \in 1..Len(rto) : \E nb \in dag.outflow[rto[i]] :
    rto[i] = s /\ Target(s, nb) = c /\ Passed(i, nb)

Carries(s, c) == From(s) # NoAmount /\ Weight(s, c) \in {"one", "fraction"}

\* No value: it was not given, or a weight is not a number.
Lost(c) ==
  \/ op = "accuflux" /\ c \in without
  \/ \E s \in InOrder : Flowed(s, c) /\ From(s) # NoAmount /\ Weight(s, c) = "NaN"

Brought(p, c) ==
  \E s \in InOrder : Flowed(s, c) /\ Carries(s, c) /\ \E q \in From(s) : p = Append(q, c)

\* A cell has what it had, and what it was brought.
Fluxed(c) ==
  /\ Lost(c) => result[c] = NoAmount
  /\ ~Lost(c) => /\ result[c] # NoAmount
                 /\ \A p : p \in result[c] <=> (op = "accuflux" /\ p = <<c>>) \/ Brought(p, c)

ArePaths(c) == result[c] # NoAmount => \A p \in result[c] : p \in Seq(Cells) /\ p # <<>>

Flux == op \in {"accuflux", "upstream"} => \A c \in InOrder : Fluxed(c) /\ ArePaths(c)

FInv == Inv /\ Flux

\* Nothing has flowed from the cells downstream of the one that is visited.
LEMMA FlowedStep ==
  ASSUME Inv, NEW v, Visiting(v), NextEdge, UNCHANGED graph
  PROVE  /\ Source \in InOrder /\ Downstream \in InOrder /\ Source # Downstream
         /\ Source \in Cells /\ Downstream \in Cells
         /\ \A s, c : Flowed(s, c)' <=> Flowed(s, c) \/ (s = Source /\ c = Downstream)
         /\ \A d, c : d = Downstream => ~Flowed(d, c) /\ ~Flowed(d, c)'
<1>1. /\ at' = at /\ todo' = todo \ {Bit} /\ rto' = rto /\ dag' = dag
      /\ rto \in Seq(Cells) /\ Len(rto) \in Nat /\ dag \in Dags
  BY DEF NextEdge, graph, Inv, TypeOK
<1>2. /\ at \in 1..Len(rto) /\ Bit \in todo /\ Bit \in dag.outflow[rto[at]] /\ at \in Nat
      /\ dag.outflow[rto[at]] \subseteq NBCodes
  BY AtEdge
<1>3. \A i, nb : Passed(i, nb)' <=> Passed(i, nb) \/ (i = at /\ nb = Bit)
  BY EdgePasses
<1>4. Source = rto[at] /\ Downstream = Target(rto[at], Bit)
  BY DEF Source, Downstream
<1>5. Source \in Cells /\ Downstream \in Cells
  BY EdgeVisited
<1>6. PICK j \in 1..(at - 1) : rto[j] = Downstream
  <2>1. <<Source, Downstream>> \in Edges(dag)
    BY <1>1, <1>2, <1>4, <1>5, EdgeIsBit
  <2>2. TargetsFirst(rto, Edges(dag))
    BY DEF Inv, OrderIsCurrent
  <2>3. \E e \in Edges(dag) : e[1] = rto[at] /\ e[2] = Downstream
    BY <1>4, <2>1
  <2>4. QED
    BY <1>2, <2>2, <2>3 DEF TargetsFirst
<1>7. j \in 1..Len(rto) /\ j < at /\ j \in Nat
  BY <1>1, <1>2
<1>8. \A i \in 1..Len(rto) : rto[i] = Downstream => i = j
  BY <1>6, <1>7 DEF Inv, OrderIsCurrent
<1>9. Source \in InOrder /\ Downstream \in InOrder
  BY <1>2, <1>4, <1>6, <1>7 DEF InOrder
<1>10. Source # Downstream
  BY <1>2, <1>4, <1>7, <1>8
<1>11. \A nb : ~Passed(j, nb) /\ ~Passed(j, nb)'
  <2>1. \A nb : ~Passed(j, nb)
    BY <1>2, <1>7 DEF Passed
  <2>2. j # at
    BY <1>2, <1>7
  <2>3. QED
    BY <1>3, <2>1, <2>2
<1>12. ASSUME NEW d, NEW c, d = Downstream
       PROVE  ~Flowed(d, c) /\ ~Flowed(d, c)'
  <2>1. \A i \in 1..Len(rto) : rto[i] = d => i = j
    BY <1>8, <1>12
  <2>2. QED
    BY <1>1, <1>11, <2>1 DEF Flowed
<1>13. ASSUME NEW s, NEW c
       PROVE  Flowed(s, c)' <=> Flowed(s, c) \/ (s = Source /\ c = Downstream)
  <2>1. Flowed(s, c)' <=>
          \E i \in 1..Len(rto) : \E nb \in dag.outflow[rto[i]] :
            rto[i] = s /\ Target(s, nb) = c /\ Passed(i, nb)'
    BY <1>1 DEF Flowed
  <2>2. ASSUME Flowed(s, c)' PROVE Flowed(s, c) \/ (s = Source /\ c = Downstream)
    <3>1. PICK i \in 1..Len(rto) : \E nb \in dag.outflow[rto[i]] :
            rto[i] = s /\ Target(s, nb) = c /\ Passed(i, nb)'
      BY <2>1, <2>2
    <3>2. PICK nb \in dag.outflow[rto[i]] : rto[i] = s /\ Target(s, nb) = c /\ Passed(i, nb)'
      BY <3>1
    <3>3. CASE Passed(i, nb)
      BY <3>2, <3>3 DEF Flowed
    <3>4. CASE i = at /\ nb = Bit
      BY <1>4, <3>2, <3>4
    <3>5. QED
      BY <1>3, <3>2, <3>3, <3>4
  <2>3. Flowed(s, c) => Flowed(s, c)'
    BY <1>3, <2>1 DEF Flowed
  <2>4. (s = Source /\ c = Downstream) => Flowed(s, c)'
    BY <1>2, <1>3, <1>4, <2>1
  <2>5. QED
    BY <2>2, <2>3, <2>4
<1>14. QED
  BY <1>5, <1>9, <1>10, <1>12, <1>13

\* What a visited vertex gives are paths to it.
LEMMA FromPaths ==
  ASSUME FInv, op \in {"accuflux", "upstream"}
  PROVE  \A s \in InOrder : From(s) # NoAmount => \A q \in From(s) : q \in Seq(Cells)
<1> SUFFICES ASSUME NEW s \in InOrder, From(s) # NoAmount, NEW q \in From(s)
             PROVE  q \in Seq(Cells)
  OBVIOUS
<1>1. s \in Cells
  BY DEF FInv, Inv, TypeOK, InOrder
<1>2. <<s>> \in Seq(Cells)
  BY <1>1
<1>3. CASE op = "accuflux"
  BY <1>3 DEF From, FInv, Flux, ArePaths
<1>4. CASE op # "accuflux"
  BY <1>2, <1>4 DEF From
<1>5. QED
  BY <1>3, <1>4

\* The weight of a flow.
LEMMA WeightValues == \A s, c : Weight(s, c) \in {"one", "mvMark", "NaN", "fraction"}
BY DEF Weight

LEMMA FluxEdgeFlux == ASSUME FInv, FluxEdge PROVE Flux'
<1>0. PICK S, D, W : S = Source /\ D = Downstream /\ W = Weight(Source, Downstream)
  OBVIOUS
<1>1. PICK v \in {"accuflux", "upstream"} :
        /\ Visiting(v) /\ NextEdge /\ op = v /\ op' = op /\ without' = without
        /\ missing' = missing /\ UNCHANGED graph /\ dag' = dag /\ rto' = rto
  BY DEF FluxEdge, Visiting, NextEdge, graph
<1>2. /\ Inv /\ op \in {"accuflux", "upstream"}
      /\ \A c \in InOrder : Fluxed(c) /\ ArePaths(c)
      /\ DOMAIN result = Cells /\ rto \in Seq(Cells)
  BY <1>1 DEF FInv, Flux, Inv, TypeOK
<1>3. /\ S \in InOrder /\ D \in InOrder /\ S # D /\ S \in Cells /\ D \in Cells
      /\ \A s, c : Flowed(s, c)' <=> Flowed(s, c) \/ (s = S /\ c = D)
      /\ \A c : ~Flowed(D, c) /\ ~Flowed(D, c)'
  BY <1>1, <1>2, <1>0, FlowedStep
<1>4. result' = [result EXCEPT ![D] = Flow(result[D], W, From(S), D)]
  BY <1>1, <1>0 DEF FluxEdge, Visiting, From
<1>5. /\ result'[D] = Flow(result[D], W, From(S), D)
      /\ \A c \in Cells : c # D => result'[c] = result[c]
  BY <1>2, <1>3, <1>4
<1>6. \A s, c : Weight(s, c)' = Weight(s, c)
  BY <1>1 DEF Weight
<1>7. InOrder' = InOrder /\ InOrder \subseteq Cells
  BY <1>1, <1>2 DEF InOrder
<1>8. \A s \in InOrder : s # D => From(s)' = From(s)
  BY <1>1, <1>5, <1>7 DEF From
<1>9. W \in {"one", "mvMark", "NaN", "fraction"}
  BY <1>0, WeightValues
<1>10. From(S) # NoAmount => \A q \in From(S) : q \in Seq(Cells)
  BY <1>2, <1>3, FromPaths
<1>11. \A s \in InOrder : \A c : Flowed(s, c)' => From(s)' = From(s)
  BY <1>3, <1>8
<1>12. ASSUME NEW c \in InOrder, c # D PROVE (Fluxed(c) /\ ArePaths(c))'
  <2>1. \A s : Flowed(s, c)' <=> Flowed(s, c)
    BY <1>3, <1>12
  <2>2. \A s \in InOrder : Flowed(s, c) => From(s)' = From(s)
    BY <1>11, <2>1
  <2>3. Lost(c)' <=> Lost(c)
    BY <1>1, <1>6, <1>7, <2>1, <2>2 DEF Lost
  <2>4. \A p : Brought(p, c)' <=> Brought(p, c)
    BY <1>1, <1>6, <1>7, <2>1, <2>2 DEF Brought, Carries
  <2>5. result'[c] = result[c]
    BY <1>5, <1>7, <1>12
  <2>6. Fluxed(c) /\ ArePaths(c)
    BY <1>2
  <2>7. QED
    BY <1>1, <2>3, <2>4, <2>5, <2>6 DEF Fluxed, ArePaths
<1>13. (Fluxed(D) /\ ArePaths(D))'
  <2>1. \A s : Flowed(s, D)' <=> Flowed(s, D) \/ s = S
    BY <1>3
  <2>2. \A s \in InOrder : Flowed(s, D) \/ s = S => From(s)' = From(s)
    BY <1>11, <2>1
  <2>3. Lost(D)' <=> Lost(D) \/ (From(S) # NoAmount /\ W = "NaN")
    BY <1>1, <1>3, <1>6, <1>7, <1>0, <2>1, <2>2 DEF Lost
  <2>4. \A p : Brought(p, D)' <=>
          \/ Brought(p, D)
          \/ From(S) # NoAmount /\ W \in {"one", "fraction"} /\ \E q \in From(S) : p = Append(q, D)
    BY <1>1, <1>3, <1>6, <1>7, <1>0, <2>1, <2>2 DEF Brought, Carries
  <2>5. Fluxed(D) /\ ArePaths(D)
    BY <1>2, <1>3
  <2>6. CASE From(S) = NoAmount \/ W = "mvMark"
    <3>1. result'[D] = result[D]
      BY <1>5, <2>6 DEF Flow
    <3>2. (Lost(D)' <=> Lost(D)) /\ \A p : Brought(p, D)' <=> Brought(p, D)
      BY <2>3, <2>4, <2>6
    <3>3. QED
      BY <1>1, <2>5, <3>1, <3>2 DEF Fluxed, ArePaths
  <2>7. CASE From(S) # NoAmount /\ W = "NaN"
    <3>1. result'[D] = NoAmount
      BY <1>5, <2>7 DEF Flow
    <3>2. Lost(D)'
      BY <2>3, <2>7
    <3>3. QED
      BY <3>1, <3>2 DEF Fluxed, ArePaths
  <2>8. CASE From(S) # NoAmount /\ W \in {"one", "fraction"} /\ result[D] = NoAmount
    <3>1. result'[D] = NoAmount
      BY <1>5, <2>8 DEF Flow
    <3>2. Lost(D)'
      BY <2>3, <2>5, <2>8 DEF Fluxed
    <3>3. QED
      BY <3>1, <3>2 DEF Fluxed, ArePaths
  <2>9. CASE From(S) # NoAmount /\ W \in {"one", "fraction"} /\ result[D] # NoAmount
    <3>1. result'[D] = result[D] \cup {Append(q, D) : q \in From(S)}
      BY <1>5, <2>9 DEF Flow
    <3>2. ~Lost(D) /\ ~Lost(D)'
      BY <2>3, <2>5, <2>9 DEF Fluxed
    <3>3. \A q \in From(S) : Append(q, D) \in Seq(Cells) /\ Append(q, D) # <<>>
      BY <1>3, <1>10, <2>9, PathStep
    <3>4. \A p \in result'[D] : p \in Seq(Cells) /\ p # <<>>
      BY <2>5, <2>9, <3>1, <3>3 DEF ArePaths
    <3>5. result'[D] # NoAmount
      BY <3>4 DEF NoAmount
    <3>6. \A p : p \in result'[D] <=> (op = "accuflux" /\ p = <<D>>) \/ Brought(p, D)'
      BY <2>4, <2>5, <2>9, <3>1, <3>2 DEF Fluxed
    <3>7. QED
      BY <1>1, <3>2, <3>4, <3>5, <3>6 DEF Fluxed, ArePaths
  <2>10. QED
    BY <1>9, <2>6, <2>7, <2>8, <2>9
<1>14. QED
  BY <1>7, <1>12, <1>13 DEF Flux

\* At the start a cell has its own material, or nothing.
LEMMA FluxStart ==
  ASSUME Inv, NEW cells \in Materials, Accuflux(cells) \/ Upstream(cells)
  PROVE  Flux'
<1>1. PICK v \in {"accuflux", "upstream"} :
        Start(v) /\ op' = v /\ without' = cells /\ UNCHANGED graph /\ dag' = dag /\ rto' = rto
  BY DEF Accuflux, Upstream, Start, graph
<1>2. InOrder' = InOrder /\ InOrder \subseteq Cells
  BY <1>1 DEF InOrder, Inv, TypeOK
<1>3. \A c \in InOrder :
        result'[c] = IF op' = "accuflux" THEN IF c \in cells THEN NoAmount ELSE {<<c>>} ELSE {}
  BY <1>2 DEF Accuflux, Upstream, Start
<1>4. \A i \in 1..Len(rto) : \A nb \in dag.outflow[rto[i]] : ~Passed(i, nb)'
  BY <1>1, StartPasses
<1>5. \A s, c : ~Flowed(s, c)'
  BY <1>1, <1>4 DEF Flowed
<1>6. \A c : (Lost(c)' <=> op' = "accuflux" /\ c \in cells) /\ \A p : ~Brought(p, c)'
  BY <1>1, <1>5 DEF Lost, Brought
<1>7. ASSUME NEW c \in InOrder PROVE (Fluxed(c) /\ ArePaths(c))'
  <2>1. c \in Cells /\ <<c>> \in Seq(Cells)
    BY <1>2
  <2>2. <<c>> # <<>>
    <3>1. Len(<<c>>) >= 1
      OBVIOUS
    <3>2. QED
      BY <2>1, <3>1, NotEmpty
  <2>3. {<<c>>} # NoAmount /\ {} # NoAmount
    BY <2>2 DEF NoAmount
  <2>4. ArePaths(c)'
    BY <1>3, <2>1, <2>2 DEF ArePaths
  <2>5. Fluxed(c)'
    BY <1>3, <1>6, <2>3 DEF Fluxed
  <2>6. QED
    BY <2>4, <2>5
<1>8. QED
  BY <1>2, <1>7 DEF Flux

LEMMA FluxVertex ==
  ASSUME FInv, FinishVertex \/ UNCHANGED vars
  PROVE  Flux'
<1>1. /\ op' = op /\ dag' = dag /\ rto' = rto /\ without' = without /\ result' = result
      /\ missing' = missing
  BY DEF FinishVertex, vars, visit, graph, flux
<1>2. \A i \in 1..Len(rto) : \A nb \in dag.outflow[rto[i]] : Passed(i, nb)' <=> Passed(i, nb)
  <2>1. CASE FinishVertex
    BY <2>1, VertexPasses DEF FInv
  <2>2. CASE UNCHANGED vars
    BY <2>2 DEF vars, visit, Passed
  <2>3. QED
    BY <2>1, <2>2
<1>3. \A s, c : Flowed(s, c)' <=> Flowed(s, c)
  BY <1>1, <1>2 DEF Flowed
<1>4. InOrder' = InOrder /\ (\A s : From(s)' = From(s)) /\ \A s, c : Weight(s, c)' = Weight(s, c)
  BY <1>1 DEF InOrder, From, Weight
<1>5. \A c : Lost(c)' <=> Lost(c)
  BY <1>1, <1>3, <1>4 DEF Lost
<1>6. \A p, c : Brought(p, c)' <=> Brought(p, c)
  BY <1>1, <1>3, <1>4 DEF Brought, Carries
<1>7. \A c : (Fluxed(c) => Fluxed(c)') /\ (ArePaths(c) => ArePaths(c)')
  BY <1>1, <1>5, <1>6 DEF Fluxed, ArePaths
<1>8. QED
  BY <1>1, <1>4, <1>7 DEF FInv, Flux

LEMMA FInvInductive == FInv /\ [Next]_vars => FInv'
<1> SUFFICES ASSUME FInv, [Next]_vars PROVE Flux'
  BY InvInductive DEF FInv
<1>1. op = "none" /\ UNCHANGED visit => op' = "none"
  BY DEF visit
<1>2. CASE \/ \E ldd \in Ldds : AddStream(ldd)
           \/ \E ldds \in Streams : SetStream(ldds)
           \/ \E cells \in Dems : SetDem(cells)
  BY <1>1, <1>2 DEF AddStream, SetStream, SetDem, Flux
<1>3. CASE Removed \/ Returned \/ Diffused
  BY <1>3 DEF Removed, Returned, Diffused, Finish, Flux
<1>4. CASE \/ \E edges \in SUBSET Edges(dag) : RemoveStream(edges)
           \/ \E args \in DiffusionArgs : Diffuse(args)
           \/ Iterate
  BY <1>4 DEF RemoveStream, Diffuse, Iterate, Start, Flux
<1>5. CASE \E cells \in Materials : Accuflux(cells) \/ Upstream(cells)
  BY <1>5, FluxStart DEF FInv
<1>6. CASE RemoveEdge \/ InitFlowTerm \/ DiffuseEdge
  BY <1>6 DEF RemoveEdge, InitFlowTerm, DiffuseEdge, Visiting, NextEdge, Flux
<1>7. CASE FluxEdge
  BY <1>7, FluxEdgeFlux
<1>8. CASE FinishVertex \/ UNCHANGED vars
  BY <1>8, FluxVertex
<1>9. QED
  BY <1>2, <1>3, <1>4, <1>5, <1>6, <1>7, <1>8 DEF Next

LEMMA InitFInv == Init => FInv
BY InitInv DEF Init, Idle, FInv, Flux

-------------------------------------------------------------------------------
(* Every path *)

\* At the end all flows from visited vertices have been visited.
LEMMA AllFlowed ==
  ASSUME Inv, at = 0
  PROVE  \A s \in InOrder : \A c : Flowed(s, c) <=> <<s, c>> \in Edges(dag)
<1> SUFFICES ASSUME NEW s \in InOrder, NEW c
             PROVE  Flowed(s, c) <=> <<s, c>> \in Edges(dag)
  OBVIOUS
<1>1. PICK i \in 1..Len(rto) : s = rto[i]
  BY DEF InOrder
<1>2. s \in Cells /\ dag \in Dags /\ rto \in Seq(Cells)
  BY <1>1 DEF Inv, TypeOK
<1>3. ASSUME Flowed(s, c) PROVE <<s, c>> \in Edges(dag)
  <2>1. PICK j \in 1..Len(rto) : \E nb \in dag.outflow[rto[j]] : rto[j] = s /\ Target(s, nb) = c
    BY <1>3 DEF Flowed
  <2>2. QED
    BY <1>2, <2>1 DEF Edges
<1>4. ASSUME <<s, c>> \in Edges(dag) PROVE Flowed(s, c)
  <2>1. PICK x \in Cells : \E nb \in NBCodes :
          nb \in dag.outflow[x] /\ <<s, c>> = <<x, Target(x, nb)>>
    BY <1>2, <1>4, EdgeHasBit
  <2>2. PICK nb \in NBCodes : nb \in dag.outflow[x] /\ <<s, c>> = <<x, Target(x, nb)>>
    BY <2>1
  <2>3. x = s /\ Target(s, nb) = c /\ nb \in dag.outflow[rto[i]]
    BY <1>1, <2>2
  <2>4. Passed(i, nb)
    BY AllPassed
  <2>5. QED
    BY <1>1, <2>3, <2>4 DEF Flowed
<1>5. QED
  BY <1>3, <1>4

\* The paths of amounts that are there.
Carrying == {p \in Passing :
  \A i \in 1..(Len(p) - 1) :
    IF op = "accuflux" THEN result[p[i]] # NoAmount ELSE p[i] \notin without}

\* The path goes on from its last cell.
Passes(s, c) == s \in InOrder /\ <<s, c>> \in Edges(dag) /\ Carries(s, c)

\* A path that passes is one whose steps do.
LEMMA PassingMeaning ==
  ASSUME Inv, op \in {"accuflux", "upstream"}
  PROVE  \A p : p \in Carrying <=>
           p \in Orders /\ p # <<>> /\ \A i \in 1..(Len(p) - 1) : Passes(p[i], p[i + 1])
<1>1. ASSUME NEW s
      PROVE  From(s) # NoAmount <=>
               IF op = "accuflux" THEN result[s] # NoAmount ELSE s \notin without
  <2>1. <<s>> # <<>>
    <3>1. Len(<<s>>) = 1 /\ Len(<<>>) = 0
      OBVIOUS
    <3>2. <<s>> = <<>> => Len(<<s>>) = Len(<<>>)
      BY Zenon
    <3>3. QED
      BY <3>1, <3>2
  <2>2. {<<s>>} # NoAmount
    BY <2>1 DEF NoAmount
  <2>3. QED
    BY <2>2 DEF From
<1>2. \A p : p \in Carrying <=>
         /\ p \in Orders /\ p # <<>>
         /\ \A i \in 1..(Len(p) - 1) : <<p[i], p[i + 1]>> \in Edges(dag)
         /\ \A i \in 1..(Len(p) - 1) :
              /\ p[i] \in InOrder /\ Weight(p[i], p[i + 1]) \in {"one", "fraction"}
              /\ IF op = "accuflux" THEN result[p[i]] # NoAmount ELSE p[i] \notin without
  BY DEF Carrying, Passing, Paths
<1>3. QED
  BY <1>1, <1>2 DEF Passes, Carries

\* At the end a cell that is not lost has what was brought over its flows.
LEMMA AtEnd ==
  ASSUME FInv, at = 0, op \in {"accuflux", "upstream"}
  PROVE  \A c \in InOrder :
           /\ Lost(c) => result[c] = NoAmount
           /\ ~Lost(c) =>
                /\ result[c] # NoAmount
                /\ \A p : p \in result[c] <=>
                     \/ op = "accuflux" /\ p = <<c>>
                     \/ \E s \in Cells : Passes(s, c) /\ \E q \in From(s) : p = Append(q, c)
<1>1. \A c \in InOrder : Fluxed(c)
  BY DEF FInv, Flux
<1>2. InOrder \subseteq Cells
  BY DEF FInv, Inv, TypeOK, InOrder
<1>3. \A s \in InOrder : \A c : Flowed(s, c) <=> <<s, c>> \in Edges(dag)
  BY AllFlowed DEF FInv
<1>4. \A c, p : Brought(p, c) <=>
        \E s \in Cells : Passes(s, c) /\ \E q \in From(s) : p = Append(q, c)
  BY <1>2, <1>3 DEF Brought, Passes
<1>5. QED
  BY <1>1, <1>4 DEF Fluxed

\* What a vertex flows to is before it in the order.
LEMMA FlowsDown ==
  ASSUME Inv
  PROVE  \A m, i \in 1..Len(rto) : <<rto[m], rto[i]>> \in Edges(dag) => i < m
<1> SUFFICES ASSUME NEW m \in 1..Len(rto), NEW i \in 1..Len(rto),
                    <<rto[m], rto[i]>> \in Edges(dag)
             PROVE  i < m
  OBVIOUS
<1>1. TargetsFirst(rto, Edges(dag)) /\ Len(rto) \in Nat
      /\ \A x, y \in 1..Len(rto) : x # y => rto[x] # rto[y]
  BY DEF Inv, TypeOK, OrderIsCurrent
<1>2. PICK e \in Edges(dag) : e[1] = rto[m] /\ e[2] = rto[i]
  OBVIOUS
<1>3. PICK j \in 1..(m - 1) : rto[j] = rto[i]
  BY <1>1, <1>2, Zenon DEF TargetsFirst
<1>4. j \in 1..Len(rto) /\ j < m
  BY <1>1
<1>5. j = i
  BY <1>1, <1>3, <1>4
<1>6. QED
  BY <1>4, <1>5

\* A path that passes goes on over a flow that does, to a cell that is not on it.
LEMMA PassingGrows ==
  ASSUME Inv, op \in {"accuflux", "upstream"}, NEW q \in Carrying, NEW c \in Cells,
         Passes(q[Len(q)], c), \A k \in 1..Len(q) : q[k] # c
  PROVE  Append(q, c) \in Carrying
<1> DEFINE p == Append(q, c)
<1>1. /\ q \in Seq(Cells) /\ q # <<>> /\ \A i, j \in 1..Len(q) : i # j => q[i] # q[j]
      /\ \A i \in 1..(Len(q) - 1) : Passes(q[i], q[i + 1])
  BY PassingMeaning, OrderMeaning
<1>2. /\ p \in Seq(Cells) /\ p # <<>> /\ Len(p) = Len(q) + 1 /\ Len(q) \in Nat
      /\ p[Len(q) + 1] = c /\ \A i \in 1..Len(q) : p[i] = q[i]
  BY <1>1, PathStep
<1>3. Len(q) >= 1
  BY <1>1, NotEmpty
<1> HIDE DEF p
<1>4. \A i \in 1..Len(p) : i \in 1..Len(q) \/ i = Len(q) + 1
  BY <1>2
<1>5. \A i, j \in 1..Len(p) : i # j => p[i] # p[j]
  BY <1>1, <1>2, <1>4
<1>6. p \in Orders
  BY <1>2, <1>5, OrderMeaning
<1>7. ASSUME NEW i \in 1..(Len(p) - 1) PROVE Passes(p[i], p[i + 1])
  <2>1. i \in 1..Len(q)
    BY <1>2
  <2>2. CASE i = Len(q)
    BY <1>2, <2>1, <2>2
  <2>3. CASE i # Len(q)
    <3>1. i \in 1..(Len(q) - 1) /\ i + 1 \in 1..Len(q)
      BY <1>2, <2>1, <2>3
    <3>2. QED
      BY <1>1, <1>2, <2>1, <3>1
  <2>4. QED
    BY <2>2, <2>3
<1>8. QED
  BY <1>2, <1>6, <1>7, PassingMeaning DEF p

\* And it came over one.
LEMMA PassingFront ==
  ASSUME Inv, op \in {"accuflux", "upstream"}, NEW p \in Carrying, Len(p) > 1
  PROVE  \E q \in Carrying : /\ Len(q) = Len(p) - 1 /\ p = Append(q, p[Len(p)])
                            /\ Passes(q[Len(q)], p[Len(p)])
<1>1. /\ p \in Seq(Cells) /\ \A i, j \in 1..Len(p) : i # j => p[i] # p[j]
      /\ \A i \in 1..(Len(p) - 1) : Passes(p[i], p[i + 1])
  BY PassingMeaning, OrderMeaning
<1>2. PICK q \in Seq(Cells) : /\ Len(q) = Len(p) - 1 /\ q # <<>> /\ p = Append(q, p[Len(p)])
                              /\ \A i \in 1..Len(q) : q[i] = p[i]
  BY <1>1, PathFront
<1>3. Len(q) \in Nat /\ Len(p) \in Nat /\ Len(q) >= 1
  BY <1>1, <1>2, NotEmpty
<1>4. q \in Orders
  <2>1. \A i \in 1..Len(q) : i \in 1..Len(p)
    BY <1>2, <1>3
  <2>2. \A i, j \in 1..Len(q) : i # j => q[i] # q[j]
    BY <1>1, <1>2, <2>1
  <2>3. QED
    BY <2>2, OrderMeaning
<1>5. \A i \in 1..(Len(q) - 1) : Passes(q[i], q[i + 1])
  <2>1. \A i \in 1..(Len(q) - 1) :
          i \in 1..Len(q) /\ i + 1 \in 1..Len(q) /\ i \in 1..(Len(p) - 1)
    BY <1>2, <1>3
  <2>2. QED
    BY <1>1, <1>2, <2>1
<1>6. Passes(q[Len(q)], p[Len(p)])
  <2>1. /\ Len(q) \in 1..(Len(p) - 1) /\ Len(q) + 1 = Len(p) /\ Len(q) \in 1..Len(q)
    BY <1>2, <1>3
  <2>2. Passes(p[Len(q)], p[Len(q) + 1])
    BY <1>1, <2>1
  <2>3. q[Len(q)] = p[Len(q)]
    BY <1>2, <2>1
  <2>4. QED
    BY <2>1, <2>2, <2>3
<1>7. q \in Carrying
  BY <1>2, <1>4, <1>5, PassingMeaning
<1>8. QED
  BY <1>2, <1>6, <1>7

\* A path of one cell.
LEMMA ShortPath ==
  ASSUME Inv, op \in {"accuflux", "upstream"}, NEW c \in Cells
  PROVE  /\ <<c>> \in Carrying /\ Len(<<c>>) = 1 /\ <<c>>[1] = c
         /\ \A p \in Carrying : Len(p) = 1 => p = <<p[1]>>
<1>1. Len(<<c>>) = 1 /\ <<c>>[1] = c /\ <<c>> \in Seq(Cells)
  OBVIOUS
<1>2. <<c>> # <<>>
  <2>1. Len(<<c>>) >= 1
    BY <1>1
  <2>2. QED
    BY <1>1, <2>1, NotEmpty
<1>3. <<c>> \in Orders
  <2>1. \A i, j \in 1..Len(<<c>>) : i = j
    BY <1>1
  <2>2. QED
    BY <1>1, <2>1, OrderMeaning
<1>4. \A i : i \notin 1..(Len(<<c>>) - 1)
  BY <1>1
<1>5. <<c>> \in Carrying
  BY <1>2, <1>3, <1>4, PassingMeaning
<1>6. ASSUME NEW p \in Carrying, Len(p) = 1 PROVE p = <<p[1]>>
  <2>1. p \in Seq(Cells)
    BY PassingMeaning, OrderMeaning
  <2>2. QED
    BY <1>6, <2>1
<1>7. QED
  BY <1>1, <1>5, <1>6

\* The material of upstream is that of the paths of one flow.
LEMMA UpstreamPaths ==
  ASSUME FInv, at = 0, op = "upstream", NEW c \in InOrder, ~Lost(c)
  PROVE  result[c] = {p \in Carrying : p[Len(p)] = c /\ Len(p) = 2}
<1>1. Inv /\ c \in Cells
  BY DEF FInv, Inv, TypeOK, InOrder
<1>2. \A p : p \in result[c] <=>
        \E s \in Cells : Passes(s, c) /\ \E q \in From(s) : p = Append(q, c)
  BY AtEnd
<1>3. ASSUME NEW s \in Cells, Passes(s, c) PROVE From(s) = {<<s>>} /\ s # c
  <2>1. From(s) = {<<s>>}
    BY <1>3 DEF Passes, Carries, From
  <2>2. s # c
    <3>1. PICK m \in 1..Len(rto), i \in 1..Len(rto) : s = rto[m] /\ c = rto[i]
      BY <1>3 DEF Passes, InOrder
    <3>2. i < m
      BY <1>1, <1>3, <3>1, FlowsDown DEF Passes
    <3>3. rto[m] # rto[i]
      BY <1>1, <3>2 DEF Inv, OrderIsCurrent
    <3>4. QED
      BY <3>1, <3>3
  <2>3. QED
    BY <2>1, <2>2
<1>4. ASSUME NEW p \in result[c] PROVE p \in Carrying /\ p[Len(p)] = c /\ Len(p) = 2
  <2>1. PICK s \in Cells : Passes(s, c) /\ p = Append(<<s>>, c)
    <3>1. PICK s \in Cells : Passes(s, c) /\ \E q \in From(s) : p = Append(q, c)
      BY <1>2, <1>4
    <3>2. PICK q \in From(s) : p = Append(q, c)
      BY <3>1
    <3>3. q = <<s>>
      BY <1>3, <3>1, <3>2
    <3>4. QED
      BY <3>1, <3>2, <3>3
  <2>2. <<s>> \in Carrying /\ Len(<<s>>) = 1 /\ <<s>>[1] = s /\ <<s>> \in Seq(Cells)
    BY <1>1, ShortPath
  <2> DEFINE q == <<s>>
  <2>3. q \in Carrying /\ Len(q) = 1 /\ q[1] = s /\ q \in Seq(Cells) /\ p = Append(q, c)
    BY <2>1, <2>2
  <2> HIDE DEF q
  <2>4. p \in Carrying
    <3>1. Passes(q[Len(q)], c) /\ \A k \in 1..Len(q) : q[k] # c
      BY <1>3, <2>1, <2>3
    <3>2. QED
      BY <1>1, <2>3, <3>1, PassingGrows
  <2>5. Len(p) = 2 /\ p[2] = c
    <3>1. Len(p) = Len(q) + 1 /\ p[Len(q) + 1] = c
      BY <1>1, <2>3, PathStep
    <3>2. Len(q) + 1 = 2
      BY <2>3
    <3>3. QED
      BY <3>1, <3>2
  <2>6. QED
    BY <2>4, <2>5
<1>5. ASSUME NEW p \in Carrying, p[Len(p)] = c, Len(p) = 2 PROVE p \in result[c]
  <2>1. PICK q \in Carrying : Len(q) = 1 /\ p = Append(q, c) /\ Passes(q[1], c)
    <3>1. PICK q \in Carrying : /\ Len(q) = Len(p) - 1 /\ p = Append(q, p[Len(p)])
                              /\ Passes(q[Len(q)], p[Len(p)])
      <4>1. Len(p) > 1
        BY <1>5
      <4>2. QED
        BY <1>1, <4>1, PassingFront
    <3>2. Len(q) = 1
      BY <1>5, <3>1
    <3>3. QED
      BY <1>5, <3>1, <3>2
  <2>2. q = <<q[1]>> /\ q[1] \in Cells
    <3>1. q \in Seq(Cells)
      BY <1>1, PassingMeaning, OrderMeaning
    <3>2. QED
      BY <1>1, <2>1, <3>1, ShortPath
  <2>3. From(q[1]) = {<<q[1]>>}
    BY <1>3, <2>1, <2>2
  <2>4. q \in From(q[1])
    BY <2>2, <2>3
  <2>5. QED
    BY <1>2, <2>1, <2>2, <2>4
<1>6. QED
  BY <1>4, <1>5

-------------------------------------------------------------------------------
(* accuflux, from the cells that flow last *)

\* A cell with a value has the paths to it, over cells that are not before it.
Gathered(i) ==
  result[rto[i]] # NoAmount =>
    /\ \A p : p \in result[rto[i]] <=> p \in Carrying /\ p[Len(p)] = rto[i]
    /\ \A p \in result[rto[i]] : \A k \in 1..Len(p) :
         \E j \in 1..Len(rto) : i =< j /\ p[k] = rto[j]

LEMMA GatheredStep ==
  ASSUME FInv, at = 0, op = "accuflux", NEW i \in 1..Len(rto),
         \A j \in 1..Len(rto) : i < j => Gathered(j)
  PROVE  Gathered(i)
<1> SUFFICES ASSUME result[rto[i]] # NoAmount PROVE Gathered(i)
  BY DEF Gathered
<1>1. PICK c : c = rto[i]
  OBVIOUS
<1>2. /\ Inv /\ c \in InOrder /\ c \in Cells /\ op \in {"accuflux", "upstream"}
      /\ \A x, y \in 1..Len(rto) : x # y => rto[x] # rto[y]
      /\ Len(rto) \in Nat
  BY <1>1 DEF FInv, Inv, TypeOK, InOrder, OrderIsCurrent
<1>3. \A p : p \in result[c] <=>
        p = <<c>> \/ \E s \in Cells : Passes(s, c) /\ \E q \in From(s) : p = Append(q, c)
  BY <1>1, <1>2, AtEnd
<1>4. ASSUME NEW s, Passes(s, c)
      PROVE  \E m \in 1..Len(rto) :
               s = rto[m] /\ i < m /\ From(s) = result[s] /\ result[s] # NoAmount /\ Gathered(m)
  <2>1. PICK m \in 1..Len(rto) : s = rto[m]
    BY <1>4 DEF Passes, InOrder
  <2>2. i < m
    BY <1>1, <1>2, <1>4, <2>1, FlowsDown DEF Passes
  <2>3. From(s) = result[s] /\ result[s] # NoAmount
    BY <1>4 DEF Passes, Carries, From
  <2>4. QED
    BY <2>1, <2>2, <2>3
<1>5. <<c>> \in Carrying /\ Len(<<c>>) = 1 /\ <<c>>[1] = c
  BY <1>2, ShortPath
<1>6. ASSUME NEW p \in result[c]
      PROVE  /\ p \in Carrying /\ p[Len(p)] = c
             /\ \A k \in 1..Len(p) : \E j \in 1..Len(rto) : i =< j /\ p[k] = rto[j]
  <2>1. CASE p = <<c>>
    <3>1. p \in Carrying /\ Len(p) = 1 /\ p[1] = c
      BY <1>5, <2>1
    <3>2. i =< i
      BY <1>2
    <3>3. QED
      BY <1>1, <3>1, <3>2
  <2>2. CASE \E s \in Cells : Passes(s, c) /\ \E q \in From(s) : p = Append(q, c)
    <3>1. PICK s \in Cells : Passes(s, c) /\ \E q \in From(s) : p = Append(q, c)
      BY <2>2
    <3>2. PICK q \in From(s) : p = Append(q, c)
      BY <3>1
    <3>3. PICK m \in 1..Len(rto) :
            s = rto[m] /\ i < m /\ From(s) = result[s] /\ result[s] # NoAmount /\ Gathered(m)
      BY <1>4, <3>1
    <3>4. /\ q \in Carrying /\ q[Len(q)] = s
          /\ \A k \in 1..Len(q) : \E j \in 1..Len(rto) : m =< j /\ q[k] = rto[j]
      BY <3>3 DEF Gathered
    <3>5. \A k \in 1..Len(q) : \E j \in 1..Len(rto) : i < j /\ q[k] = rto[j]
      <4>1. \A j \in 1..Len(rto) : m =< j => i < j
        BY <1>2, <3>3
      <4>2. QED
        BY <3>4, <4>1
    <3>6. \A k \in 1..Len(q) : q[k] # c
      BY <1>1, <1>2, <3>5
    <3>7. p \in Carrying
      BY <1>2, <3>1, <3>2, <3>4, <3>6, PassingGrows
    <3>8. q \in Seq(Cells)
      BY <1>2, <3>4, PassingMeaning, OrderMeaning
    <3>9. /\ Len(p) = Len(q) + 1 /\ Len(q) \in Nat /\ p[Len(q) + 1] = c
          /\ \A k \in 1..Len(q) : p[k] = q[k]
      BY <1>2, <3>2, <3>8, PathStep
    <3>10. ASSUME NEW k \in 1..Len(p)
           PROVE  \E j \in 1..Len(rto) : i =< j /\ p[k] = rto[j]
      <4>1. k \in 1..Len(q) \/ k = Len(q) + 1
        BY <3>9
      <4>2. CASE k \in 1..Len(q)
        <5>1. PICK j \in 1..Len(rto) : i < j /\ q[k] = rto[j]
          BY <3>5, <4>2
        <5>2. i =< j
          BY <1>2, <5>1
        <5>3. QED
          BY <3>9, <4>2, <5>1, <5>2
      <4>3. CASE k = Len(q) + 1
        <5>1. i =< i
          BY <1>2
        <5>2. QED
          BY <1>1, <3>9, <4>3, <5>1
      <4>4. QED
        BY <4>1, <4>2, <4>3
    <3>11. QED
      BY <3>7, <3>9, <3>10
  <2>3. QED
    BY <1>3, <2>1, <2>2
<1>7. ASSUME NEW p \in Carrying, p[Len(p)] = c PROVE p \in result[c]
  <2>1. p \in Seq(Cells) /\ p # <<>>
    BY <1>2, PassingMeaning, OrderMeaning
  <2>2. Len(p) \in Nat /\ Len(p) >= 1
    BY <2>1, NotEmpty
  <2>3. CASE Len(p) = 1
    <3>1. p = <<p[1]>>
      BY <1>2, <2>3, ShortPath
    <3>2. p = <<c>>
      BY <1>7, <2>3, <3>1
    <3>3. QED
      BY <1>3, <3>2
  <2>4. CASE Len(p) > 1
    <3>1. PICK q \in Carrying : p = Append(q, c) /\ Passes(q[Len(q)], c)
      BY <1>2, <1>7, <2>4, PassingFront
    <3>2. PICK m \in 1..Len(rto) :
            /\ q[Len(q)] = rto[m] /\ i < m /\ From(q[Len(q)]) = result[q[Len(q)]]
            /\ result[q[Len(q)]] # NoAmount /\ Gathered(m)
      BY <1>4, <3>1
    <3>3. q \in From(q[Len(q)])
      BY <3>2 DEF Gathered
    <3>4. q[Len(q)] \in Cells
      BY <1>2, <3>2 DEF Inv, TypeOK
    <3>5. QED
      BY <1>3, <3>1, <3>3, <3>4
  <2>5. Len(p) = 1 \/ Len(p) > 1
    <3>1. \A n \in Nat : n >= 1 => n = 1 \/ n > 1
      OBVIOUS
    <3>2. QED
      BY <2>2, <3>1, Zenon
  <2>6. QED
    BY <2>3, <2>4, <2>5, Zenon
<1>8. QED
  BY <1>1, <1>6, <1>7 DEF Gathered

LEMMA AccufluxPaths ==
  ASSUME FInv, at = 0, op = "accuflux"
  PROVE  \A i \in 1..Len(rto) : Gathered(i)
<1> DEFINE Bad == {i \in 1..Len(rto) : ~Gathered(i)}
<1> SUFFICES ASSUME Bad # {} PROVE FALSE
  OBVIOUS
<1>1. Len(rto) \in Nat
  BY DEF FInv, Inv, TypeOK
<1>2. Bad \in SUBSET (1..Len(rto))
  OBVIOUS
<1>3. PICK i \in Bad : \A j \in Bad : j =< i
  <2> DEFINE n == Len(rto)
  <2> HIDE DEF Bad, n
  <2>1. n \in Nat /\ Bad \in SUBSET (1..n)
    BY <1>1, <1>2 DEF n
  <2>2. QED
    BY <2>1, LastPlace
<1>4. \A j \in 1..Len(rto) : i < j => Gathered(j)
  BY <1>1, <1>3
<1>5. Gathered(i)
  BY <1>4, GatheredStep
<1>6. QED
  BY <1>5

\* At the end a cell whose material is there has all that is carried to it, when the
\* weights are numbers.
LEMMA FluxFound ==
  ASSUME FInv, Visited("accuflux") \/ Visited("upstream"), NEW c \in InOrder, c \notin without,
         \A s \in InOrder : <<s, c>> \in Edges(dag) => Weight(s, c) # "NaN"
  PROVE  /\ result[c] # NoAmount
         /\ result[c] = {p \in Carrying : p[Len(p)] = c /\ (op = "upstream" => Len(p) = 2)}
<1>1. at = 0 /\ op \in {"accuflux", "upstream"} /\ Inv /\ InOrder \subseteq Cells
  BY DEF Visited, FInv, Inv, TypeOK, InOrder
<1>2. ~Lost(c)
  <2>1. \A s \in InOrder : Flowed(s, c) => <<s, c>> \in Edges(dag)
    BY <1>1, AllFlowed
  <2>2. QED
    BY <2>1 DEF Lost
<1>3. result[c] # NoAmount
  BY <1>1, <1>2, AtEnd
<1>4. CASE op = "upstream"
  BY <1>1, <1>2, <1>3, <1>4, UpstreamPaths
<1>5. CASE op = "accuflux"
  <2>1. PICK i \in 1..Len(rto) : c = rto[i]
    BY DEF InOrder
  <2>2. \A p : p \in result[c] <=> p \in Carrying /\ p[Len(p)] = c
    BY <1>1, <1>3, <1>5, <2>1, AccufluxPaths DEF Gathered
  <2>3. result[c] = {p \in Carrying : p[Len(p)] = c}
    BY <2>2
  <2>4. QED
    BY <1>3, <1>5, <2>3
<1>6. QED
  BY <1>1, <1>4, <1>5

\* The cells of a path to a catchment are in it.
LEMMA PathInside ==
  ASSUME Inv, op = "accuflux", NEW cells \in SUBSET InOrder, Whole(cells),
         NEW p \in Passing, p[Len(p)] \in cells
  PROVE  \A i \in 1..Len(p) : p[i] \in cells
<1> DEFINE Out == {i \in 1..Len(p) : p[i] \notin cells}
<1> SUFFICES ASSUME Out # {} PROVE FALSE
  OBVIOUS
<1>1. /\ p \in Seq(Cells) /\ Len(p) \in Nat
      /\ \A i \in 1..(Len(p) - 1) : p[i] \in InOrder /\ <<p[i], p[i + 1]>> \in Edges(dag)
  BY OrderMeaning DEF Passing, Paths
<1>2. PICK i \in Out : \A j \in Out : j =< i
  <2> DEFINE n == Len(p)
  <2> HIDE DEF n
  <2>1. n \in Nat /\ Out \in SUBSET (1..n)
    BY <1>1 DEF n
  <2> HIDE DEF Out
  <2>2. QED
    BY <2>1, LastPlace
<1>3. i \in 1..(Len(p) - 1) /\ i + 1 \in 1..Len(p) /\ ~(i + 1 =< i)
  BY <1>1
<1>4. p[i + 1] \in cells
  BY <1>2, <1>3
<1>5. p[i] \in cells
  BY <1>1, <1>3, <1>4 DEF Whole
<1>6. QED
  BY <1>5

\* On every raster and for every streams: in a catchment in which no material is
\* missing and all weights are numbers accuflux has in each cell the material of
\* every path to it, once, and upstream that of the neighbours that flow to it,
\* whatever is missing elsewhere (Mldd::accuflux and upstream, mldd_mldd.cc).
THEOREM FluxCorrect == Spec => []FluxIsEveryPath
<1>1. FInv => FluxIsEveryPath
  <2> SUFFICES ASSUME FInv, Visited("accuflux") \/ Visited("upstream"),
                      NEW cells \in SUBSET InOrder, Whole(cells), NEW c \in cells
               PROVE  result[c] = {p \in Passing :
                                     p[Len(p)] = c /\ (op = "upstream" => Len(p) = 2)}
    BY DEF FluxIsEveryPath
  <2>1. Inv /\ op \in {"accuflux", "upstream"}
    BY DEF Visited, FInv
  <2>2. ASSUME NEW d \in cells
        PROVE  /\ result[d] # NoAmount
               /\ result[d] = {p \in Carrying : p[Len(p)] = d /\ (op = "upstream" => Len(p) = 2)}
    <3>1. d \in InOrder /\ d \notin without
          /\ \A s \in InOrder : <<s, d>> \in Edges(dag) => Weight(s, d) # "NaN"
      BY DEF Whole
    <3>2. QED
      BY <3>1, FluxFound
  <2>3. ASSUME NEW p \in Passing, p[Len(p)] = c, op = "upstream" => Len(p) = 2
        PROVE  p \in Carrying
    <3>1. CASE op = "accuflux"
      <4>1. \A i \in 1..Len(p) : p[i] \in cells
        BY <2>1, <2>3, <3>1, PathInside
      <4>2. \A i \in 1..(Len(p) - 1) : i \in 1..Len(p)
        BY OrderMeaning DEF Passing, Paths
      <4>3. QED
        BY <2>2, <3>1, <4>1, <4>2 DEF Carrying
    <3>2. CASE op = "upstream"
      <4>1. 1..(Len(p) - 1) = {1} /\ p[2] = c
        <5>1. Len(p) = 2
          BY <2>3, <3>2
        <5>2. 1..(2 - 1) = {1}
          OBVIOUS
        <5>3. QED
          BY <2>3, <5>1, <5>2
      <4>2. p[1] \in InOrder /\ <<p[1], c>> \in Edges(dag)
        <5>1. p[1] \in InOrder /\ <<p[1], p[1 + 1]>> \in Edges(dag) /\ 1 + 1 = 2
          BY <4>1 DEF Passing, Paths
        <5>2. QED
          BY <4>1, <5>1
      <4>3. \A s \in InOrder : <<s, c>> \in Edges(dag) => s \notin without
        BY DEF Whole
      <4>4. p[1] \notin without
        BY <4>2, <4>3
      <4>5. QED
        BY <3>2, <4>1, <4>4 DEF Carrying
    <3>3. QED
      BY <2>1, <3>1, <3>2
  <2>4. Carrying \subseteq Passing
    BY DEF Carrying
  <2>5. QED
    BY <2>2, <2>3, <2>4
<1>2. QED
  BY <1>1, InitFInv, FInvInductive, PTL DEF Spec

-------------------------------------------------------------------------------
(* Cycles and orders *)

\* Each cell of S flows to a cell of S.
Turning(S, edges) == \A c \in S : \E d \in S : <<c, d>> \in edges

\* No cell of a cycle is in an order in which targets come first.
LEMMA CycleIsOutside ==
  ASSUME NEW edges, NEW q \in Seq(Cells), TargetsFirst(q, edges),
         NEW S \in SUBSET Cells, Turning(S, edges)
  PROVE  \A i \in 1..Len(q) : q[i] \notin S
<1> DEFINE Places == {i \in 1..Len(q) : q[i] \in S}
           Upto == {1..i : i \in Places}
           All == 1..Len(q)
<1> SUFFICES ASSUME Places # {} PROVE FALSE
  OBVIOUS
<1>1. Len(q) \in Nat
  OBVIOUS
<1>2. IsFiniteSet(All)
  BY <1>1, FS_Interval
<1>3. Upto \in SUBSET SUBSET All /\ Upto # {}
  BY <1>1
<1> HIDE DEF Upto, All
<1>4. PICK x \in Upto : \A y \in Upto : y \subseteq x => y = x
  BY <1>2, <1>3, MinimalSubset
<1>5. PICK i \in Places : x = 1..i
  BY DEF Upto
<1>6. PICK d \in S : <<q[i], d>> \in edges
  BY DEF Turning
<1>7. PICK j \in 1..(i - 1) : q[j] = d
  BY <1>6 DEF TargetsFirst
<1>8. i \in Nat /\ j \in Nat /\ j < i /\ j \in Places
  BY <1>1, <1>7
<1> HIDE DEF Places
<1>9. 1..j \in Upto
  BY <1>8 DEF Upto
<1>10. 1..j \subseteq 1..i /\ i \in 1..i /\ i \notin 1..j
  BY <1>8, <1>5
<1>11. QED
  BY <1>4, <1>5, <1>9, <1>10

\* The flows of a graph that mirrors are between its vertices.
LEMMA EdgesOfMirrors ==
  ASSUME NEW d \in Dags, Mirrors(d)
  PROVE  /\ Edges(d) \subseteq Vertices(d) \X Vertices(d)
         /\ Vertices(d) \subseteq Cells
<1>1. ASSUME NEW e \in Edges(d) PROVE e \in Vertices(d) \X Vertices(d)
  <2>1. PICK c \in Cells : \E nb \in d.outflow[c] : e = <<c, Target(c, nb)>>
    BY <1>1 DEF Edges
  <2>2. PICK nb \in d.outflow[c] : e = <<c, Target(c, nb)>>
    BY <2>1
  <2>3. nb \in NBCodes
    BY DEF Dags
  <2>4. Target(c, nb) \in Cells /\ Reverse(nb) \in d.inflow[Target(c, nb)]
    BY <2>3 DEF Mirrors
  <2>5. c \in Vertices(d) /\ Target(c, nb) \in Vertices(d)
    BY <2>4 DEF Vertices, IsVertex
  <2>6. QED
    BY <2>2, <2>5
<1>2. QED
  BY <1>1 DEF Vertices

\* A sequence of all vertices, targets first, leaves no cycle.
LEMMA OrderMeansNoCycle ==
  ASSUME NEW d \in Dags, Mirrors(d), Complete(d) # {}
  PROVE  ~N!Cyclic(Edges(d))
<1> SUFFICES ASSUME NEW S \in SUBSET Cells, S # {}, Turning(S, Edges(d)) PROVE FALSE
  BY DEF N!Cyclic, Turning
<1>1. PICK q \in Complete(d) : TRUE
  OBVIOUS
<1>2. /\ q \in Seq(Cells) /\ TargetsFirst(q, Edges(d))
      /\ {q[i] : i \in 1..Len(q)} = Vertices(d)
  BY CompleteIsOrder
<1>3. \A i \in 1..Len(q) : q[i] \notin S
  BY <1>2, CycleIsOutside
<1>4. PICK c \in S : TRUE
  OBVIOUS
<1>5. c \in Vertices(d)
  <2>1. PICK t \in S : <<c, t>> \in Edges(d)
    BY DEF Turning
  <2>2. QED
    BY <2>1, EdgesOfMirrors
<1>6. QED
  BY <1>2, <1>3, <1>5

\* A vertex all of whose targets are in an order may come next.
LEMMA OrderGrows ==
  ASSUME NEW d \in Dags, Mirrors(d), NEW q \in Partial(d),
         NEW c \in Vertices(d) \ {q[i] : i \in 1..Len(q)},
         \A t \in Cells : <<c, t>> \in Edges(d) => t \in {q[i] : i \in 1..Len(q)}
  PROVE  Append(q, c) \in Partial(d)
<1> DEFINE p == Append(q, c)
<1>1. /\ q \in Seq(Cells) /\ TargetsFirst(q, Edges(d))
      /\ \A i, j \in 1..Len(q) : i # j => q[i] # q[j]
      /\ {q[i] : i \in 1..Len(q)} \subseteq Vertices(d)
  BY PartialIsOrder
<1>2. c \in Cells /\ Edges(d) \subseteq Cells \X Cells
  BY EdgesOfMirrors
<1>3. /\ p \in Seq(Cells) /\ Len(p) = Len(q) + 1 /\ p[Len(q) + 1] = c
      /\ \A i \in 1..Len(q) : p[i] = q[i]
      /\ Len(q) \in Nat
  BY <1>1, <1>2
<1>4. \A i \in 1..Len(p) : i \in 1..Len(q) \/ i = Len(q) + 1
  BY <1>3
<1> HIDE DEF p
<1>5. \A i, j \in 1..Len(p) : i # j => p[i] # p[j]
  BY <1>1, <1>3, <1>4
<1>6. \A i \in 1..Len(p) : p[i] \in Vertices(d)
  BY <1>1, <1>3, <1>4
<1>7. TargetsFirst(p, Edges(d))
  <2> SUFFICES ASSUME NEW i \in 1..Len(p), NEW e \in Edges(d), e[1] = p[i]
               PROVE  \E j \in 1..(i - 1) : p[j] = e[2]
    BY DEF TargetsFirst
  <2>1. CASE i \in 1..Len(q)
    <3>1. PICK j \in 1..(i - 1) : q[j] = e[2]
      BY <1>1, <1>3, <2>1 DEF TargetsFirst
    <3>2. j \in 1..Len(q)
      BY <1>3, <2>1
    <3>3. QED
      BY <1>3, <3>1, <3>2
  <2>2. CASE i = Len(q) + 1
    <3>1. e = <<c, e[2]>> /\ e[2] \in Cells
      BY <1>2, <1>3, <2>2
    <3>2. PICK j \in 1..Len(q) : q[j] = e[2]
      BY <3>1
    <3>3. j \in 1..(i - 1)
      BY <1>3, <2>2
    <3>4. QED
      BY <1>3, <3>2, <3>3
  <2>3. QED
    BY <1>4, <2>1, <2>2
<1>8. p \in Orders
  BY <1>3, <1>5, OrderMeaning
<1>9. QED
  BY <1>6, <1>7, <1>8 DEF Partial, p

\* Without a cycle there is a sequence of all vertices.
LEMMA NoCycleMeansOrder ==
  ASSUME NEW d \in Dags, Mirrors(d), ~N!Cyclic(Edges(d))
  PROVE  Complete(d) # {}
<1> DEFINE Left(q) == Vertices(d) \ {q[i] : i \in 1..Len(q)}
           T == {Left(q) : q \in Partial(d)}
<1>1. Vertices(d) \in SUBSET Cells /\ IsFiniteSet(Vertices(d))
  BY CellsFinite DEF Vertices
<1>2. <<>> \in Partial(d)
  <2>1. <<>> \in Permutation({})
    <3>1. Cardinality({}) = 0 /\ <<>> \in [1..0 -> {}]
      BY FS_EmptySet
    <3>2. QED
      BY <3>1 DEF Permutation
  <2>2. <<>> \in Orders
    BY <2>1 DEF Orders
  <2>3. QED
    BY <2>2 DEF Partial, TargetsFirst
<1>3. T \in SUBSET SUBSET Vertices(d) /\ T # {}
  <2>1. \A q \in Partial(d) : Left(q) \in SUBSET Vertices(d)
    OBVIOUS
  <2>2. Left(<<>>) \in T
    BY <1>2
  <2> HIDE DEF Left
  <2>3. QED
    BY <2>1, <2>2
<1> HIDE DEF T
<1>4. PICK x \in T : \A y \in T : y \subseteq x => y = x
  BY <1>1, <1>3, MinimalSubset
<1>5. PICK q \in Partial(d) : x = Left(q)
  BY DEF T
<1>6. /\ q \in Seq(Cells) /\ q \in Orders /\ TargetsFirst(q, Edges(d))
      /\ {q[i] : i \in 1..Len(q)} \subseteq Vertices(d)
  BY PartialIsOrder DEF Partial
<1>7. ASSUME NEW c \in Left(q) PROVE \E t \in Left(q) : <<c, t>> \in Edges(d)
  <2> SUFFICES ASSUME \A t \in Left(q) : <<c, t>> \notin Edges(d) PROVE FALSE
    OBVIOUS
  <2>1. ASSUME NEW t \in Cells, <<c, t>> \in Edges(d)
        PROVE  t \in {q[i] : i \in 1..Len(q)}
    <3>1. t \in Vertices(d)
      BY <2>1, EdgesOfMirrors
    <3>2. QED
      BY <2>1, <3>1
  <2>2. Append(q, c) \in Partial(d)
    BY <2>1, OrderGrows
  <2>3. Left(Append(q, c)) = Left(q) \ {c}
    <3>1. /\ Len(Append(q, c)) = Len(q) + 1 /\ Len(q) \in Nat
          /\ Append(q, c)[Len(q) + 1] = c
          /\ \A i \in 1..Len(q) : Append(q, c)[i] = q[i]
      BY <1>1, <1>6
    <3>2. {Append(q, c)[i] : i \in 1..Len(Append(q, c))} = {q[i] : i \in 1..Len(q)} \cup {c}
      <4>1. \A i \in 1..(Len(q) + 1) : i \in 1..Len(q) \/ i = Len(q) + 1
        BY <3>1
      <4>2. 1..Len(q) \subseteq 1..(Len(q) + 1) /\ Len(q) + 1 \in 1..(Len(q) + 1)
        BY <3>1
      <4> DEFINE p == Append(q, c)
      <4> HIDE DEF p
      <4>3. {p[i] : i \in 1..Len(p)} = {q[i] : i \in 1..Len(q)} \cup {c}
        BY <3>1, <4>1, <4>2 DEF p
      <4>4. QED
        BY <4>3 DEF p
    <3>3. QED
      BY <3>2
  <2>4. Left(Append(q, c)) \in T
    BY <2>2 DEF T
  <2>5. QED
    BY <1>4, <1>5, <2>3, <2>4
<1>8. Left(q) = {}
  <2>1. Left(q) \in SUBSET Cells
    BY <1>1
  <2>2. QED
    BY <1>7, <2>1 DEF N!Cyclic
<1>9. {q[i] : i \in 1..Len(q)} = Vertices(d)
  BY <1>6, <1>8
<1>10. PICK S \in SUBSET Cells : q \in Permutation(S)
  BY <1>6 DEF Orders
<1>11. S = Vertices(d)
  BY <1>9, <1>10, PermutationIsOrder
<1>12. q \in Complete(d)
  BY <1>6, <1>10, <1>11 DEF Complete
<1>13. QED
  BY <1>12

\* updateOrder fails where there is a cycle, and only there.
LEMMA UpdateOrderFails ==
  ASSUME NEW d \in Dags, Mirrors(d), UpdateOrder(d)
  PROVE  dag' = d /\ (failed' <=> N!Cyclic(Edges(d)))
BY OrderMeansNoCycle, NoCycleMeansOrder DEF UpdateOrder

-------------------------------------------------------------------------------
(* Removal *)

\* The flows into a cell.
LEMMA EdgesInto ==
  ASSUME NEW d \in Dags, Mirrors(d)
  PROVE  \A c \in Cells : \A nb \in NBCodes :
           Target(c, nb) \in Cells =>
             (<<Target(c, nb), c>> \in Edges(d) <=> nb \in d.inflow[c])
<1> SUFFICES ASSUME NEW c \in Cells, NEW nb \in NBCodes, Target(c, nb) \in Cells
             PROVE  <<Target(c, nb), c>> \in Edges(d) <=> nb \in d.inflow[c]
  OBVIOUS
<1>1. /\ Reverse(nb) \in NBCodes /\ Reverse(Reverse(nb)) = nb
      /\ Target(Target(c, nb), Reverse(nb)) = c
  BY NeighbourBack
<1>2. <<Target(c, nb), c>> \in Edges(d) <=> Reverse(nb) \in d.outflow[Target(c, nb)]
  BY <1>1, EdgeIsBit
<1>3. Reverse(nb) \in d.outflow[Target(c, nb)] <=> nb \in d.inflow[c]
  BY <1>1 DEF Mirrors
<1>4. QED
  BY <1>2, <1>3

\* Every flow into a cell is from a neighbour.
LEMMA EdgeFromNeighbour ==
  ASSUME NEW d \in Dags, Mirrors(d)
  PROVE  \A e \in Edges(d) : \E c \in Cells : \E nb \in NBCodes :
           /\ nb \in d.inflow[c] /\ Target(c, nb) \in Cells
           /\ e = <<Target(c, nb), c>>
<1> SUFFICES ASSUME NEW e \in Edges(d)
             PROVE  \E c \in Cells : \E nb \in NBCodes :
                      /\ nb \in d.inflow[c] /\ Target(c, nb) \in Cells
                      /\ e = <<Target(c, nb), c>>
  OBVIOUS
<1>1. PICK x \in Cells, m \in NBCodes : m \in d.outflow[x] /\ e = <<x, Target(x, m)>>
  BY EdgeHasBit
<1>2. Target(x, m) \in Cells /\ Reverse(m) \in d.inflow[Target(x, m)]
  BY <1>1 DEF Mirrors
<1>3. Reverse(m) \in NBCodes /\ Target(Target(x, m), Reverse(m)) = x
  BY NeighbourBack
<1>4. QED
  BY <1>1, <1>2, <1>3

-------------------------------------------------------------------------------
(* The invariant of a removal *)

\* What flows into c all goes.
Dry(c) == dag.inflow[c] # {} /\ dag.inflow[c] \subseteq removeDag.inflow[c]

Marked(c, nb) == <<c, Target(c, nb)>> \in marks

\* What goes is marked, ran dry, or is beside what is marked where nothing
\* flows in.
Cause ==
  \A c \in Cells : \A nb \in removeDag.outflow[c] :
    \/ Marked(c, nb) \/ Dry(c)
    \/ dag.inflow[c] = {} /\ \E m \in removeDag.outflow[c] : Marked(c, m)

\* What was visited and is marked, or has run dry, goes.
Effect ==
  \A i \in 1..Len(rto) : \A nb \in dag.outflow[rto[i]] :
    Passed(i, nb) /\ (Marked(rto[i], nb) \/ Dry(rto[i])) => nb \in removeDag.outflow[rto[i]]

Reached == \A c \in Cells : removeDag.outflow[c] # {} => c \in InOrder

Removing == op = "remove" => marks \subseteq Edges(dag) /\ Cause /\ Effect /\ Reached

Knows == failed <=> N!Cyclic(Edges(dag))

RInv == Inv /\ Removing /\ Knows

\* removeStream starts with nothing to remove.
LEMMA RemoveStreamRemoving ==
  ASSUME Inv, NEW edges \in SUBSET Edges(dag), RemoveStream(edges)
  PROVE  Removing'
<1>1. /\ op = "none" /\ at' = Len(rto) /\ todo' = OutOf(Len(rto)) /\ marks' = edges
      /\ dag' = dag /\ rto' = rto /\ removeDag' = removeDag
  BY DEF RemoveStream, Start, graph
<1>2. removeDag = EmptyDag
  BY <1>1 DEF Inv, Rest, Idle
<1>3. \A c \in Cells : removeDag'.outflow[c] = {} /\ removeDag'.inflow[c] = {}
  BY <1>1, <1>2 DEF EmptyDag, NoFlow
<1>4. marks' \subseteq Edges(dag')
  BY <1>1
<1>5. Cause'
  BY <1>3 DEF Cause
<1>6. Reached'
  BY <1>3 DEF Reached
<1>7. Effect'
  <2> SUFFICES ASSUME NEW i \in 1..Len(rto'), NEW nb \in dag'.outflow[rto'[i]], Passed(i, nb)'
               PROVE  FALSE
    BY DEF Effect
  <2>1. i = Len(rto) /\ nb \notin OutOf(Len(rto)) /\ nb \in dag.outflow[rto[i]]
    BY <1>1 DEF Passed
  <2>2. i # 0
    OBVIOUS
  <2>3. QED
    BY <2>1, <2>2 DEF OutOf
<1>8. QED
  BY <1>4, <1>5, <1>6, <1>7 DEF Removing

\* The vertex is done when its last edge is.
LEMMA FinishVertexRemoving ==
  ASSUME Inv, Removing, FinishVertex
  PROVE  Removing'
<1>1. /\ op' = op /\ at > 0 /\ todo = {} /\ at' = at - 1 /\ todo' = OutOf(at - 1)
      /\ dag' = dag /\ rto' = rto /\ removeDag' = removeDag /\ marks' = marks
  BY DEF FinishVertex, graph, removal
<1> SUFFICES ASSUME op = "remove" PROVE Removing'
  BY <1>1 DEF Removing
<1>2. at \in 0..Len(rto) /\ rto \in Seq(Cells)
  BY DEF Inv, TypeOK
<1>3. marks \subseteq Edges(dag) /\ Cause /\ Effect /\ Reached
  BY DEF Removing
<1>4. marks' \subseteq Edges(dag')
  BY <1>1, <1>3
<1>5. Cause' /\ Reached'
  BY <1>1, <1>3 DEF Cause, Reached, Marked, Dry, InOrder
<1>6. ASSUME NEW i \in 1..Len(rto), NEW nb \in dag.outflow[rto[i]], Passed(i, nb)'
      PROVE  Passed(i, nb)
  <2>1. i \in Nat /\ at \in Nat /\ i # 0 /\ Len(rto) \in Nat
    BY <1>2
  <2>2. CASE i > at - 1
    BY <1>1, <2>1, <2>2 DEF Passed
  <2>3. CASE i = at - 1 /\ nb \notin OutOf(at - 1)
    BY <2>1, <2>3 DEF OutOf
  <2>4. QED
    BY <1>1, <1>6, <2>2, <2>3 DEF Passed
<1>7. Effect'
  BY <1>1, <1>3, <1>6 DEF Effect, Marked, Dry
<1>8. QED
  BY <1>4, <1>5, <1>7 DEF Removing

\* The edge that is visited goes.
Added == Edge \in marks \/ InflowRemoved(Source)

\* The graph of what goes gets at most the edge that is visited.
LEMMA RemoveEdgeGraph ==
  ASSUME Inv, RemoveEdge
  PROVE  \A x \in Cells : \A m \in NBCodes :
           /\ m \in removeDag'.outflow[x] <=>
                m \in removeDag.outflow[x] \/ (Added /\ x = Source /\ m = Bit)
           /\ m \in removeDag'.inflow[x] <=>
                m \in removeDag.inflow[x] \/ (Added /\ x = Downstream /\ m = Reverse(Bit))
<1>1. removeDag' = IF Added THEN AddFlow(removeDag, Source, Bit) ELSE removeDag
  BY DEF RemoveEdge, Added
<1>2. Source \in Cells /\ Bit \in NBCodes /\ Downstream \in Cells /\ Reverse(Bit) \in NBCodes
  BY EdgeVisited, NeighbourBack DEF RemoveEdge
<1>3. removeDag \in Dags
  BY DEF Inv, TypeOK
<1>4. CASE Added
  <2> DEFINE new == AddFlow(removeDag, Source, Bit)
  <2>1. /\ new.outflow = [removeDag.outflow EXCEPT ![Source] = @ \cup {Bit}]
        /\ new.inflow = [removeDag.inflow EXCEPT ![Downstream] = @ \cup {Reverse(Bit)}]
    BY DEF AddFlow, Downstream
  <2> HIDE DEF new
  <2>2. \A x \in Cells : \A m \in NBCodes :
          /\ m \in new.outflow[x] <=>
               m \in removeDag.outflow[x] \/ (x = Source /\ m = Bit)
          /\ m \in new.inflow[x] <=>
               m \in removeDag.inflow[x] \/ (x = Downstream /\ m = Reverse(Bit))
    BY <1>2, <1>3, <2>1 DEF Dags
  <2>3. QED
    BY <1>1, <1>4, <2>2 DEF new
<1>5. CASE ~Added
  BY <1>1, <1>5
<1>6. QED
  BY <1>4, <1>5

\* The test on the numbers of flows says whether all of them go.
LEMMA InflowRemovedMeaning ==
  ASSUME Inv
  PROVE  \A c \in Cells :
           InflowRemoved(c) <=> /\ removeDag.outflow[c] # {} \/ removeDag.inflow[c] # {}
                                /\ dag.inflow[c] = removeDag.inflow[c]
<1> SUFFICES ASSUME NEW c \in Cells
             PROVE  InflowRemoved(c) <=>
                      /\ removeDag.outflow[c] # {} \/ removeDag.inflow[c] # {}
                      /\ dag.inflow[c] = removeDag.inflow[c]
  OBVIOUS
<1> DEFINE S == dag.inflow[c]
           T == removeDag.inflow[c]
<1>1. T \subseteq S /\ S \in SUBSET NBCodes
  BY DEF Inv, TypeOK, FlowsMirror, Dags
<1>2. IsFiniteSet(NBCodes)
  <2>1. 0 \in Int /\ 7 \in Int
    OBVIOUS
  <2>2. IsFiniteSet(0..7)
    BY <2>1, FS_Interval
  <2>3. QED
    BY <2>2 DEF NBCodes
<1>3. IsFiniteSet(S) /\ IsFiniteSet(T)
  BY <1>1, <1>2, FS_Subset
<1> HIDE DEF S, T
<1>4. Cardinality(S) = Cardinality(T) => S = T
  <2> SUFFICES ASSUME Cardinality(S) = Cardinality(T) PROVE S = T
    OBVIOUS
  <2>1. S \cap T = T
    BY <1>1
  <2>2. IsFiniteSet(S \ T) /\ Cardinality(S \ T) = Cardinality(S) - Cardinality(T)
    BY <1>3, <2>1, FS_Difference
  <2>3. Cardinality(S) \in Nat /\ Cardinality(T) \in Nat
    BY <1>3, FS_CardinalityType
  <2>4. Cardinality(S \ T) = 0
    BY <2>2, <2>3
  <2>5. S \ T = {}
    BY <2>2, <2>4, FS_EmptySet
  <2>6. QED
    BY <1>1, <2>5
<1>5. InflowRemoved(c) <=> IsVertex(removeDag, c) /\ Cardinality(S) = Cardinality(T)
  BY DEF InflowRemoved, S, T
<1>6. QED
  BY <1>4, <1>5 DEF IsVertex, S, T

\* Visiting an edge keeps the invariant of the removal.
LEMMA RemoveEdgeRemoving ==
  ASSUME Inv, Removing, RemoveEdge
  PROVE  Removing'
<1> DEFINE c == Source
           b == Bit
           t == Downstream
<1>1. /\ op = "remove" /\ op' = op /\ at' = at /\ todo' = todo \ {b}
      /\ dag' = dag /\ rto' = rto /\ marks' = marks
  BY DEF RemoveEdge, Visiting, NextEdge, graph
<1>2. marks \subseteq Edges(dag) /\ Cause /\ Effect /\ Reached
  BY <1>1 DEF Removing
<1>3. /\ c \in Cells /\ b \in NBCodes /\ b \in dag.outflow[c]
      /\ t \in Cells /\ todo \subseteq OutOf(at) /\ at \in 0..Len(rto)
      /\ rto \in Seq(Cells) /\ dag \in Dags /\ removeDag \in Dags
  BY EdgeVisited DEF RemoveEdge, Inv, TypeOK
<1>4. at \in 1..Len(rto) /\ c = rto[at]
  <2>1. at # 0
    BY <1>3 DEF RemoveEdge, Visiting, OutOf
  <2>2. QED
    BY <1>3, <2>1 DEF Source
<1>5. /\ Edge = <<c, t>> /\ t = Target(c, b) /\ Edge \in Edges(dag)
  <2>1. Edge = <<c, t>> /\ t = Target(c, b)
    BY DEF Edge, Downstream
  <2>2. QED
    BY <1>3, <2>1, EdgeIsBit
<1>6. PICK j \in 1..(at - 1) : rto[j] = t
  <2>1. TargetsFirst(rto, Edges(dag))
    BY DEF Inv, OrderIsCurrent
  <2>2. Edge[1] = rto[at] /\ Edge[2] = t
    BY <1>4, <1>5
  <2> HIDE DEF t, c
  <2>3. QED
    BY <1>4, <1>5, <2>1, <2>2 DEF TargetsFirst
<1>7. ASSUME NEW i \in 1..Len(rto), i >= at PROVE rto[i] # t
  <2>1. j \in 1..Len(rto) /\ i # j
    BY <1>4, <1>6, <1>7
  <2>2. rto[i] # rto[j]
    BY <2>1 DEF Inv, OrderIsCurrent
  <2>3. QED
    BY <1>6, <2>2
<1>8. \A x \in Cells : \A m \in NBCodes :
        /\ m \in removeDag'.outflow[x] <=>
             m \in removeDag.outflow[x] \/ (Added /\ x = c /\ m = b)
        /\ m \in removeDag'.inflow[x] <=>
             m \in removeDag.inflow[x] \/ (Added /\ x = t /\ m = Reverse(b))
  BY RemoveEdgeGraph
<1>9. \A x \in Cells : /\ removeDag.outflow[x] \subseteq NBCodes
                       /\ removeDag.inflow[x] \subseteq NBCodes
                       /\ dag.outflow[x] \subseteq NBCodes
                       /\ dag.inflow[x] \subseteq NBCodes
  BY <1>3 DEF Dags
<1>10. \A x \in Cells : removeDag'.outflow[x] \subseteq NBCodes
  <2>1. Inv'
    BY RemoveEdgeInv
  <2>2. removeDag' \in Dags
    BY <2>1 DEF Inv, TypeOK
  <2>3. QED
    BY <2>2 DEF Dags
<1>11. InflowRemoved(c) <=> /\ removeDag.outflow[c] # {} \/ removeDag.inflow[c] # {}
                            /\ dag.inflow[c] = removeDag.inflow[c]
  BY <1>3, InflowRemovedMeaning
<1>12. Added <=> Marked(c, b) \/ InflowRemoved(c)
  BY <1>5 DEF Marked, Added
<1> HIDE DEF c, b, t
<1>13. \A x \in Cells : Dry(x) => Dry(x)'
  BY <1>1, <1>8, <1>9 DEF Dry
<1>14. \A x \in Cells : \A m : Marked(x, m)' <=> Marked(x, m)
  BY <1>1 DEF Marked
<1>15. \A x \in Cells : removeDag.outflow[x] \subseteq removeDag'.outflow[x]
  BY <1>8, <1>9
<1>16. Cause'
  <2> SUFFICES ASSUME NEW x \in Cells, NEW nb \in removeDag'.outflow[x]
               PROVE  \/ Marked(x, nb) \/ Dry(x)'
                      \/ /\ dag.inflow[x] = {}
                         /\ \E m \in removeDag'.outflow[x] : Marked(x, m)
    BY <1>1, <1>14 DEF Cause
  <2>1. CASE nb \in removeDag.outflow[x]
    BY <1>2, <1>13, <1>15, <2>1 DEF Cause
  <2>2. CASE nb \notin removeDag.outflow[x]
    <3>1. Added /\ x = c /\ nb = b
      BY <1>8, <1>10, <2>2
    <3>2. CASE Marked(c, b)
      BY <3>1, <3>2
    <3>3. CASE InflowRemoved(c) /\ dag.inflow[c] # {}
      <4>1. Dry(c)
        BY <1>11, <3>3 DEF Dry
      <4>2. QED
        BY <1>13, <3>1, <4>1
    <3>4. CASE InflowRemoved(c) /\ dag.inflow[c] = {}
      <4>1. PICK m \in removeDag.outflow[c] : TRUE
        BY <1>11, <3>4
      <4>2. ~Dry(c)
        BY <3>4 DEF Dry
      <4>3. \E k \in removeDag.outflow[c] : Marked(c, k)
        BY <1>2, <1>3, <4>1, <4>2 DEF Cause
      <4>4. QED
        BY <1>3, <1>15, <3>1, <3>4, <4>3
    <3>5. QED
      BY <1>12, <3>1, <3>2, <3>3, <3>4
  <2>3. QED
    BY <2>1, <2>2
<1>17. Effect'
  <2> SUFFICES ASSUME NEW i \in 1..Len(rto), NEW nb \in dag.outflow[rto[i]],
                      Passed(i, nb)', Marked(rto[i], nb) \/ Dry(rto[i])'
               PROVE  nb \in removeDag'.outflow[rto[i]]
    BY <1>1, <1>3, <1>14 DEF Effect
  <2>1. i >= at /\ rto[i] \in Cells /\ nb \in NBCodes
    BY <1>1, <1>3, <1>9 DEF Passed
  <2>2. removeDag'.inflow[rto[i]] \cap NBCodes = removeDag.inflow[rto[i]]
    BY <1>7, <1>8, <1>9, <2>1
  <2>3. Dry(rto[i])' => Dry(rto[i])
    BY <1>1, <1>9, <2>1, <2>2 DEF Dry
  <2>4. CASE Passed(i, nb)
    BY <1>2, <1>15, <2>1, <2>3, <2>4 DEF Effect
  <2>5. CASE ~Passed(i, nb)
    <3>1. i = at /\ nb = b /\ rto[i] = c
      BY <1>1, <1>4, <2>5 DEF Passed
    <3>2. Dry(c) => InflowRemoved(c)
      <4>1. removeDag.inflow[c] \subseteq dag.inflow[c]
        BY <1>3 DEF Inv, FlowsMirror
      <4>2. QED
        BY <1>11, <4>1 DEF Dry
    <3>3. Added
      BY <1>12, <2>3, <3>1, <3>2
    <3>4. QED
      BY <1>3, <1>8, <3>1, <3>3
  <2>6. QED
    BY <2>4, <2>5
<1>18. Reached'
  <2>1. c \in InOrder /\ InOrder' = InOrder
    BY <1>1, <1>4 DEF InOrder
  <2>2. \A x \in Cells : removeDag'.outflow[x] # {} => removeDag.outflow[x] # {} \/ x = c
    BY <1>8, <1>10
  <2>3. QED
    BY <1>2, <2>1, <2>2 DEF Reached
<1>19. marks' \subseteq Edges(dag')
  BY <1>1, <1>2
<1>20. QED
  BY <1>16, <1>17, <1>18, <1>19 DEF Removing

-------------------------------------------------------------------------------
(* The invariant *)

\* Other visitors remove nothing.
LEMMA OthersRemoving ==
  ASSUME op' # "remove"
  PROVE  Removing'
BY DEF Removing

\* Nothing of the removal changes in a step that leaves the visit alone.
LEMMA StutterRemoving ==
  ASSUME Removing, UNCHANGED vars
  PROVE  Removing'
<1>1. /\ op' = op /\ at' = at /\ todo' = todo /\ dag' = dag /\ rto' = rto
      /\ marks' = marks /\ removeDag' = removeDag
  BY DEF vars, visit, graph, removal
<1>2. QED
  BY <1>1 DEF Removing, Cause, Effect, Reached, Marked, Dry, Passed, InOrder

\* The graph changes with its order.
LEMMA StreamsKnow ==
  ASSUME NEW new \in Dags, Mirrors(new), UpdateOrder(new)
  PROVE  Knows'
<1>1. dag' = new /\ (failed' <=> N!Cyclic(Edges(new)))
  BY UpdateOrderFails
<1>2. QED
  BY <1>1 DEF Knows

LEMMA GraphStays ==
  ASSUME Knows, UNCHANGED graph
  PROVE  Knows' /\ UNCHANGED <<netBar, usableBar>>
<1>1. dag' = dag /\ failed' = failed
  BY DEF graph
<1>2. QED
  BY <1>1 DEF Knows, netBar, usableBar

LEMMA InitRInv == Init => RInv
<1> SUFFICES ASSUME Init PROVE RInv
  OBVIOUS
<1>1. Inv
  BY InitInv
<1>2. Removing
  BY DEF Init, Idle, Removing
<1>3. dag = EmptyDag /\ failed = FALSE
  BY DEF Init
<1>4. Edges(EmptyDag) = {}
  BY DEF Edges, EmptyDag, NoFlow
<1>5. Knows
  BY <1>3, <1>4 DEF Knows, N!Cyclic
<1>6. QED
  BY <1>1, <1>2, <1>5 DEF RInv

-------------------------------------------------------------------------------
(* Every step is one of the network, or stutters *)

NetworkStep == N!Next \/ UNCHANGED <<netBar, usableBar, markedBar>>

\* A step that keeps the graph and neither starts nor ends a removal.
LEMMA OtherStep ==
  ASSUME Knows, UNCHANGED graph, op # "remove", op' # "remove"
  PROVE  Removing' /\ Knows' /\ NetworkStep
<1>1. markedBar' = markedBar
  BY DEF markedBar
<1>2. QED
  BY <1>1, OthersRemoving, GraphStays DEF NetworkStep

\* Streams are set or added.
LEMMA StreamsStep ==
  ASSUME op = "none", op' = "none", NEW new \in Dags, Mirrors(new), UpdateOrder(new)
  PROVE  Removing' /\ Knows' /\ NetworkStep
<1>1. dag' = new /\ (failed' <=> N!Cyclic(Edges(new))) /\ failed' \in BOOLEAN
  BY UpdateOrderFails, UpdateOrderCurrent
<1>2. Edges(new) \subseteq Cells \X Cells
  BY EdgesOfMirrors
<1>3. netBar' = Edges(new) /\ (usableBar' <=> ~N!Cyclic(Edges(new)))
  BY <1>1 DEF netBar, usableBar
<1>4. usableBar' = ~N!Cyclic(netBar')
  <2>1. usableBar' \in BOOLEAN
    BY DEF usableBar
  <2>2. N!Cyclic(netBar') \in BOOLEAN
    BY DEF N!Cyclic
  <2>3. usableBar' <=> ~N!Cyclic(netBar')
    BY <1>3, Zenon
  <2>4. QED
    BY <2>1, <2>2, <2>3
<1>5. markedBar = None /\ markedBar' = markedBar
  BY DEF markedBar
<1>6. N!Put
  BY <1>2, <1>3, <1>4, <1>5 DEF N!Put, N!Flows
<1>7. QED
  BY <1>6, OthersRemoving, StreamsKnow DEF NetworkStep, N!Next

\* The flows without those of a part of the graph.
LEMMA RemoveEdges ==
  ASSUME NEW d \in Dags, Mirrors(d), NEW rm \in Dags, Mirrors(rm),
         \A c \in Cells : rm.outflow[c] \subseteq d.outflow[c]
  PROVE  /\ Edges(rm) \subseteq Edges(d)
         /\ Edges(Remove(d, rm)) = Edges(d) \ Edges(rm)
<1> DEFINE e == Remove(d, rm)
<1>1. e \in Dags
  BY RemoveMirrors
<1>2. \A c \in Cells : e.outflow[c] = d.outflow[c] \ rm.outflow[c]
  BY DEF Remove, SymDiff
<1> HIDE DEF e
<1>3. Edges(rm) \subseteq Edges(d)
  BY DEF Edges
<1>4. ASSUME NEW f \in Edges(e) PROVE f \in Edges(d) \ Edges(rm)
  <2>1. PICK c \in Cells, nb \in NBCodes : nb \in e.outflow[c] /\ f = <<c, Target(c, nb)>>
    BY <1>1, EdgeHasBit
  <2>2. nb \in d.outflow[c] /\ nb \notin rm.outflow[c]
    BY <1>2, <2>1
  <2>3. <<c, Target(c, nb)>> \in Edges(d) /\ <<c, Target(c, nb)>> \notin Edges(rm)
    BY <2>2, EdgeIsBit
  <2>4. QED
    BY <2>1, <2>3
<1>5. ASSUME NEW f \in Edges(d) \ Edges(rm) PROVE f \in Edges(e)
  <2>1. PICK c \in Cells, nb \in NBCodes : nb \in d.outflow[c] /\ f = <<c, Target(c, nb)>>
    BY EdgeHasBit
  <2>2. nb \notin rm.outflow[c]
    BY <2>1, EdgeIsBit
  <2>3. nb \in e.outflow[c]
    BY <1>2, <2>1, <2>2
  <2>4. <<c, Target(c, nb)>> \in Edges(e)
    BY <1>1, <2>3, EdgeIsBit
  <2>5. QED
    BY <2>1, <2>4
<1>6. QED
  BY <1>3, <1>4, <1>5 DEF e

\* A cell is dry when all flows into it go.
LEMMA DryMeaning ==
  ASSUME Inv
  PROVE  \A c \in Cells : \A t \in Cells :
           /\ N!Into(<<c, t>>) = {} <=> dag.inflow[c] = {}
           /\ N!RunsDry(<<c, t>>, Edges(removeDag)) <=> Dry(c)
<1> SUFFICES ASSUME NEW c \in Cells, NEW t \in Cells
             PROVE  /\ N!Into(<<c, t>>) = {} <=> dag.inflow[c] = {}
                    /\ N!RunsDry(<<c, t>>, Edges(removeDag)) <=> Dry(c)
  OBVIOUS
<1> DEFINE into == {g \in Edges(dag) : g[2] = c}
<1>1. N!Into(<<c, t>>) = into
  BY DEF N!Into, netBar
<1>2. dag \in Dags /\ Mirrors(dag) /\ removeDag \in Dags /\ Mirrors(removeDag)
  BY DEF Inv, TypeOK, FlowsMirror
<1>3. \A nb \in dag.inflow[c] : nb \in NBCodes /\ Target(c, nb) \in Cells
  BY <1>2 DEF Dags, Mirrors
<1>4. \A nb \in dag.inflow[c] : <<Target(c, nb), c>> \in into
  BY <1>2, <1>3, EdgesInto
<1>5. ASSUME NEW g \in into
      PROVE  \E nb \in dag.inflow[c] : g = <<Target(c, nb), c>>
  <2>1. PICK x \in Cells, nb \in NBCodes :
          nb \in dag.inflow[x] /\ Target(x, nb) \in Cells /\ g = <<Target(x, nb), x>>
    BY <1>2, EdgeFromNeighbour
  <2>2. x = c
    BY <2>1
  <2>3. QED
    BY <2>1, <2>2
<1> HIDE DEF into
<1>6. into = {} <=> dag.inflow[c] = {}
  BY <1>4, <1>5
<1>7. \A nb \in dag.inflow[c] :
        <<Target(c, nb), c>> \in Edges(removeDag) <=> nb \in removeDag.inflow[c]
  BY <1>2, <1>3, EdgesInto
<1>8. into \subseteq Edges(removeDag) <=> dag.inflow[c] \subseteq removeDag.inflow[c]
  BY <1>4, <1>5, <1>7
<1>9. QED
  BY <1>1, <1>6, <1>8 DEF N!RunsDry, Dry

\* What removeStream removes is what a cut may remove.
LEMMA CutIsCaused ==
  ASSUME Inv, Cause, marks \subseteq Edges(dag), NEW f \in Edges(removeDag)
  PROVE  f \in marks \/ N!RunsDry(f, Edges(removeDag))
           \/ (N!Into(f) = {} /\ N!Beside(f) \cap marks # {})
<1>1. dag \in Dags /\ Mirrors(dag) /\ removeDag \in Dags /\ Mirrors(removeDag)
  BY DEF Inv, TypeOK, FlowsMirror
<1>2. PICK c \in Cells, nb \in NBCodes : nb \in removeDag.outflow[c] /\ f = <<c, Target(c, nb)>>
  BY <1>1, EdgeHasBit
<1>3. Target(c, nb) \in Cells
  BY <1>1, <1>2 DEF Mirrors
<1>4. \/ Marked(c, nb) \/ Dry(c)
      \/ dag.inflow[c] = {} /\ \E m \in removeDag.outflow[c] : Marked(c, m)
  BY <1>2 DEF Cause
<1>5. CASE Marked(c, nb)
  BY <1>2, <1>5 DEF Marked
<1>6. CASE Dry(c)
  BY <1>2, <1>3, <1>6, DryMeaning
<1>7. ASSUME dag.inflow[c] = {}, NEW m \in removeDag.outflow[c], Marked(c, m)
      PROVE  N!Into(f) = {} /\ N!Beside(f) \cap marks # {}
  <2>1. N!Into(f) = {}
    BY <1>2, <1>3, <1>7, DryMeaning
  <2>2. <<c, Target(c, m)>> \in marks /\ <<c, Target(c, m)>> \in Edges(dag)
    BY <1>7 DEF Marked
  <2>3. <<c, Target(c, m)>> \in N!Beside(f)
    BY <1>2, <2>2 DEF N!Beside, netBar
  <2>4. QED
    BY <2>1, <2>2, <2>3
<1>8. QED
  BY <1>4, <1>5, <1>6, <1>7

\* When the order has every vertex, it removes all that a cut must remove.
LEMMA CutIsComplete ==
  ASSUME Inv, Effect, at = 0, ~failed, NEW f \in Edges(dag),
         f \in marks \/ N!RunsDry(f, Edges(removeDag))
  PROVE  f \in Edges(removeDag)
<1>1. dag \in Dags /\ Mirrors(dag) /\ removeDag \in Dags
  BY DEF Inv, TypeOK, FlowsMirror
<1>2. PICK c \in Cells, nb \in NBCodes : nb \in dag.outflow[c] /\ f = <<c, Target(c, nb)>>
  BY <1>1, EdgeHasBit
<1>3. Target(c, nb) \in Cells
  BY <1>1, <1>2 DEF Mirrors
<1>4. c \in InOrder
  BY <1>2 DEF Inv, OrderIsCurrent, Vertices, IsVertex
<1>5. PICK i \in 1..Len(rto) : rto[i] = c
  BY <1>4 DEF InOrder
<1>6. Passed(i, nb)
  BY DEF Passed
<1>7. Marked(c, nb) \/ Dry(c)
  BY <1>2, <1>3, DryMeaning DEF Marked
<1>8. nb \in removeDag.outflow[c]
  BY <1>2, <1>5, <1>6, <1>7 DEF Effect
<1>9. QED
  BY <1>1, <1>2, <1>8, EdgeIsBit

\* A cycle stays: no visit reaches it.
LEMMA CycleStays ==
  ASSUME Inv, Reached, N!Cyclic(Edges(dag))
  PROVE  N!Cyclic(Edges(dag) \ Edges(removeDag))
<1>1. removeDag \in Dags /\ rto \in Seq(Cells) /\ TargetsFirst(rto, Edges(dag))
  BY DEF Inv, TypeOK, OrderIsCurrent
<1>2. PICK S \in (SUBSET Cells) \ {{}} : Turning(S, Edges(dag))
  BY DEF N!Cyclic, Turning
<1>3. \A i \in 1..Len(rto) : rto[i] \notin S
  BY <1>1, <1>2, CycleIsOutside
<1>4. \A c \in S : removeDag.outflow[c] = {}
  BY <1>3 DEF Reached, InOrder
<1>5. ASSUME NEW c \in S, NEW t PROVE <<c, t>> \notin Edges(removeDag)
  <2> SUFFICES ASSUME <<c, t>> \in Edges(removeDag) PROVE FALSE
    OBVIOUS
  <2>1. PICK x \in Cells, nb \in NBCodes :
          nb \in removeDag.outflow[x] /\ <<c, t>> = <<x, Target(x, nb)>>
    BY <1>1, EdgeHasBit
  <2>2. x = c
    BY <2>1
  <2>3. QED
    BY <1>4, <2>1, <2>2
<1>6. Turning(S, Edges(dag) \ Edges(removeDag))
  BY <1>2, <1>5 DEF Turning
<1>7. QED
  BY <1>6 DEF N!Cyclic, Turning

\* removeStream returns: the flows are cut.
LEMMA RemovedStep ==
  ASSUME RInv, Removed
  PROVE  Removing' /\ Knows' /\ NetworkStep
<1> DEFINE new == Remove(dag, removeDag)
           cut == Edges(removeDag)
<1>1. op = "remove" /\ at = 0 /\ op' = "none" /\ UpdateOrder(new)
  BY DEF Removed, Visited, Finish
<1>2. /\ Inv /\ marks \subseteq Edges(dag) /\ Cause /\ Effect /\ Reached /\ Knows
  BY <1>1 DEF RInv, Removing
<1>3. /\ dag \in Dags /\ Mirrors(dag) /\ removeDag \in Dags /\ Mirrors(removeDag)
      /\ failed \in BOOLEAN
      /\ \A c \in Cells : removeDag.outflow[c] \subseteq dag.outflow[c]
  BY <1>2 DEF Inv, TypeOK, FlowsMirror
<1>4. new \in Dags /\ Mirrors(new)
  BY <1>3, RemoveMirrors
<1>5. cut \subseteq Edges(dag) /\ Edges(new) = Edges(dag) \ cut
  BY <1>3, RemoveEdges
<1>6. Edges(dag) \subseteq Cells \X Cells
  BY <1>3, EdgesOfMirrors
<1> HIDE DEF new
<1>7. dag' = new /\ (failed' <=> N!Cyclic(Edges(new))) /\ failed' \in BOOLEAN
  BY <1>1, <1>4, UpdateOrderFails, UpdateOrderCurrent
<1>8. /\ \A f \in cut : f \in marks \/ N!RunsDry(f, cut)
                          \/ (N!Into(f) = {} /\ N!Beside(f) \cap marks # {})
      /\ ~failed => \A f \in Edges(dag) : f \in marks \/ N!RunsDry(f, cut) => f \in cut
  BY <1>1, <1>2, CutIsCaused, CutIsComplete
<1>9. N!Cyclic(Edges(dag)) => N!Cyclic(Edges(dag) \ cut)
  BY <1>2, CycleStays
<1> HIDE DEF cut
<1>10. failed => failed'
  BY <1>2, <1>5, <1>7, <1>9 DEF Knows
<1>11. netBar = Edges(dag) /\ netBar' = Edges(new) /\ usableBar = ~failed /\ usableBar' = ~failed'
  BY <1>7 DEF netBar, usableBar
<1>12. netBar \ netBar' = cut
  BY <1>5, <1>11
<1>13. usableBar' = ~N!Cyclic(netBar')
  <2>1. N!Cyclic(Edges(new)) \in BOOLEAN
    BY DEF N!Cyclic
  <2>2. usableBar' = ~N!Cyclic(Edges(new))
    BY <1>7, <1>11, <2>1
  <2>3. QED
    BY <1>11, <2>2
<1>14. markedBar = marks /\ markedBar # None /\ markedBar' = None
  <2>1. marks \in SUBSET (Cells \X Cells)
    BY <1>2, <1>6
  <2>2. QED
    BY <1>1, <2>1, NoneAssumption DEF markedBar
<1>15. N!Cut
  BY <1>5, <1>8, <1>10, <1>11, <1>12, <1>13, <1>14 DEF N!Cut
<1>16. Removing' /\ Knows'
  BY <1>1, <1>4, OthersRemoving, StreamsKnow
<1>17. QED
  BY <1>15, <1>16 DEF NetworkStep, N!Next

LEMMA RemoveStreamStep ==
  ASSUME RInv, NEW edges \in SUBSET Edges(dag), RemoveStream(edges)
  PROVE  Removing' /\ Knows' /\ NetworkStep
<1>1. op = "none" /\ op' = "remove" /\ marks' = edges /\ UNCHANGED graph
  BY DEF RemoveStream, Start
<1>2. markedBar = None /\ markedBar' = edges
  BY <1>1 DEF markedBar
<1>3. Knows' /\ UNCHANGED <<netBar, usableBar>>
  BY <1>1, GraphStays DEF RInv
<1>4. N!Mark
  BY <1>2, <1>3 DEF N!Mark, netBar
<1>5. QED
  BY <1>3, <1>4, RemoveStreamRemoving DEF RInv, NetworkStep, N!Next

\* The visit of a removal.
LEMMA VisitStep ==
  ASSUME RInv, RemoveEdge \/ FinishVertex
  PROVE  Removing' /\ Knows' /\ NetworkStep
<1>1. UNCHANGED graph /\ op' = op /\ marks' = marks
  BY DEF RemoveEdge, FinishVertex, NextEdge, removal
<1>2. Removing'
  BY RemoveEdgeRemoving, FinishVertexRemoving DEF RInv
<1>3. Knows' /\ UNCHANGED <<netBar, usableBar>>
  BY <1>1, GraphStays DEF RInv
<1>4. markedBar' = markedBar
  BY <1>1 DEF markedBar
<1>5. QED
  BY <1>2, <1>3, <1>4 DEF NetworkStep

LEMMA StepOfNetwork == RInv /\ [Next]_vars => RInv' /\ NetworkStep
<1> SUFFICES ASSUME RInv, [Next]_vars PROVE RInv' /\ NetworkStep
  OBVIOUS
<1>1. Inv /\ Removing /\ Knows /\ Inv'
  BY InvInductive DEF RInv
<1> SUFFICES Removing' /\ Knows' /\ NetworkStep
  BY <1>1 DEF RInv
<1>2. dag \in Dags /\ Mirrors(dag)
  BY <1>1 DEF Inv, TypeOK, FlowsMirror
<1>3. ASSUME NEW ldd \in Ldds, AddStream(ldd) PROVE Removing' /\ Knows' /\ NetworkStep
  <2>1. op = "none" /\ op' = "none" /\ UpdateOrder(AddLdds(dag, {ldd}))
    BY <1>3 DEF AddStream, visit
  <2>2. AddLdds(dag, {ldd}) \in Dags /\ Mirrors(AddLdds(dag, {ldd}))
    BY <1>2, AddLddsMirrors
  <2>3. QED
    BY <2>1, <2>2, StreamsStep
<1>4. ASSUME NEW ldds \in Streams, SetStream(ldds) PROVE Removing' /\ Knows' /\ NetworkStep
  <2>1. op = "none" /\ op' = "none" /\ UpdateOrder(AddLdds(EmptyDag, ldds))
    BY <1>4 DEF SetStream, visit
  <2>2. AddLdds(EmptyDag, ldds) \in Dags /\ Mirrors(AddLdds(EmptyDag, ldds))
    BY EmptyMirrors, AddLddsMirrors
  <2>3. QED
    BY <2>1, <2>2, StreamsStep
<1>5. ASSUME NEW edges \in SUBSET Edges(dag), RemoveStream(edges)
      PROVE  Removing' /\ Knows' /\ NetworkStep
  BY <1>5, RemoveStreamStep
<1>6. CASE RemoveEdge \/ FinishVertex
  BY <1>6, VisitStep
<1>7. CASE Removed
  BY <1>7, RemovedStep
<1>8. ASSUME NEW cells, SetDem(cells) \/ Accuflux(cells) \/ Upstream(cells)
      PROVE  Removing' /\ Knows' /\ NetworkStep
  <2>1. UNCHANGED graph /\ op # "remove" /\ op' # "remove"
    BY <1>8 DEF SetDem, Accuflux, Upstream, Start, visit
  <2>2. QED
    BY <1>1, <2>1, OtherStep
<1>9. ASSUME NEW args, Diffuse(args) PROVE Removing' /\ Knows' /\ NetworkStep
  <2>1. UNCHANGED graph /\ op # "remove" /\ op' # "remove"
    BY <1>9 DEF Diffuse, Start
  <2>2. QED
    BY <1>1, <2>1, OtherStep
<1>10. CASE FluxEdge \/ Returned \/ InitFlowTerm \/ Iterate \/ DiffuseEdge \/ Diffused
  <2>1. UNCHANGED graph /\ op # "remove" /\ op' # "remove"
    BY <1>10 DEF FluxEdge, Returned, InitFlowTerm, Iterate, DiffuseEdge, Diffused,
                 Visiting, Visited, NextEdge, Start, Finish
  <2>2. QED
    BY <1>1, <2>1, OtherStep
<1>11. CASE UNCHANGED vars
  <2>1. UNCHANGED graph /\ op' = op /\ marks' = marks
    BY <1>11 DEF vars, visit, removal
  <2>2. Removing'
    BY <1>1, <1>11, StutterRemoving
  <2>3. Knows' /\ UNCHANGED <<netBar, usableBar>>
    BY <1>1, <2>1, GraphStays
  <2>4. markedBar' = markedBar
    BY <2>1 DEF markedBar
  <2>5. QED
    BY <2>2, <2>3, <2>4 DEF NetworkStep
<1>12. QED
  BY <1>3, <1>4, <1>5, <1>6, <1>7, <1>8, <1>9, <1>10, <1>11 DEF Next

\* For every raster and whatever streams are set, added and removed: an mldd is
\* unusable exactly when its flows have a cycle, removeStream cuts what was
\* marked and all that then runs dry, and nothing that a cut does not explain.
THEOREM NetworkCorrect == Spec => ImplementsStreamNetwork
<1>1. Init => N!Init
  <2>1. Edges(EmptyDag) = {}
    BY DEF Edges, EmptyDag, NoFlow
  <2>2. QED
    BY <2>1 DEF Init, Idle, N!Init, netBar, usableBar, markedBar
<1>2. RInv /\ [Next]_vars => RInv' /\ [N!Next]_(N!vars)
  BY StepOfNetwork DEF NetworkStep, N!vars
<1>3. QED
  BY <1>1, <1>2, InitRInv, PTL DEF Spec, N!Spec, ImplementsStreamNetwork
================================================================================
