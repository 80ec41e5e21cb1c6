--------------------------------- MODULE DagRaster ------------------------------
(***************************************************************************)
(* DagRaster: the cells of a raster with, for each, the directions that it *)
(* flows to and those that it receives from, and the order in which the    *)
(* cells are visited.  A byte with a bit per neighbour is the set of the   *)
(* bits that are set.                                                      *)
(***************************************************************************)
EXTENDS Integers, Sequences, FiniteSets, FiniteSetsExt

CONSTANTS NrRows, NrCols   \* d_rd

ASSUME RasterAssumption == NrRows \in Nat \ {0} /\ NrCols \in Nat \ {0}

Cells == (0..(NrRows - 1)) \X (0..(NrCols - 1))

-------------------------------------------------------------------------------
(* Neighbours.                                                             *)

NBCodes == 0..7

\* Row and column of a neighbour, row by row.
Delta == << <<1, -1>>, <<1, 0>>, <<1, 1>>, <<0, -1>>,
            <<0, 1>>, <<-1, -1>>, <<-1, 0>>, <<-1, 1>> >>

Target(c, nb) == <<c[1] + Delta[nb + 1][1], c[2] + Delta[nb + 1][2]>>
Reverse(nb) == 7 - nb

\* A local drain direction is a digit of the numeric keypad, 5 the pit, or missing.
Pit == 5
MV == 255
ToNB(lc) == lc - 1 - (IF lc > 5 THEN 1 ELSE 0)
ToLDD(nb) == nb + 1 + (IF nb > 3 THEN 1 ELSE 0)

-------------------------------------------------------------------------------
(* The graph.                                                              *)

NoFlow == [c \in Cells |-> {}]
EmptyDag == [outflow |-> NoFlow, inflow |-> NoFlow]

\* addFlow.
AddFlow(dag, c, nb) ==
  [outflow |-> [dag.outflow EXCEPT ![c] = @ \cup {nb}],
   inflow  |-> [dag.inflow EXCEPT ![Target(c, nb)] = @ \cup {Reverse(nb)}]]

\* addFlowNB, for a cell of some ldds: what flows out of the map is not added.
FlowsOf(ldds, c) ==
  {nb \in NBCodes : \E ldd \in ldds : /\ ldd[c] \notin {Pit, MV}
                                     /\ nb = ToNB(ldd[c]) /\ Target(c, nb) \in Cells}

\* addOneLdd, for some ldds: the order is not relevant.
AddLdds(dag, ldds) ==
  [outflow |-> [c \in Cells |-> dag.outflow[c] \cup FlowsOf(ldds, c)],
   inflow  |-> [c \in Cells |-> dag.inflow[c] \cup
                  {nb \in NBCodes : /\ Target(c, nb) \in Cells
                                    /\ Reverse(nb) \in FlowsOf(ldds, Target(c, nb))}]]

\* Mutant: pits are cells with inflow.
GetStreamInflow(dag) ==
  [nb \in NBCodes |-> [c \in Cells |->
     IF dag.inflow[c] # {} THEN Pit
     ELSE IF nb \in dag.outflow[c] THEN ToLDD(nb) ELSE MV]]

\* getStream: the ldd of each direction, with the pits.
GetStream(dag) ==
  [nb \in NBCodes |-> [c \in Cells |->
     IF dag.inflow[c] # {} /\ dag.outflow[c] = {} THEN Pit
     ELSE IF nb \in dag.outflow[c] THEN ToLDD(nb) ELSE MV]]

IsVertex(dag, c) == dag.outflow[c] # {} \/ dag.inflow[c] # {}
Vertices(dag) == {c \in Cells : IsVertex(dag, c)}

\* Mutant: the inflow is left.
RemoveOutflow(dag, rm) ==
  [outflow |-> [c \in Cells |-> SymDiff(dag.outflow[c], rm.outflow[c])],
   inflow  |-> dag.inflow]

\* remove: bits are flipped.
Remove(dag, rm) ==
  [outflow |-> [c \in Cells |-> SymDiff(dag.outflow[c], rm.outflow[c])],
   inflow  |-> [c \in Cells |-> SymDiff(dag.inflow[c], rm.inflow[c])]]

\* The edges, as pairs of cells.
Edges(dag) ==
  UNION {{<<c, Target(c, nb)>> : nb \in dag.outflow[c]} : c \in Cells}

-------------------------------------------------------------------------------
(* The order: boost::topological_sort appends a vertex to d_rto when all   *)
(* that it flows to are there, and throws when it meets a vertex that it   *)
(* has not finished.                                                       *)

\* Sequences of different cells.
Permutation(S) ==
  {q \in [1..Cardinality(S) -> S] : \A i, j \in DOMAIN q : i # j => q[i] # q[j]}
Orders == UNION {Permutation(S) : S \in SUBSET Cells}

\* What a vertex of q flows to comes before it.
TargetsFirst(q, edges) ==
  \A i \in 1..Len(q) : \A e \in edges :
    e[1] = q[i] => \E j \in 1..(i - 1) : q[j] = e[2]

\* What there may be in d_rto, at any moment, and at the end: every vertex.
Partial(dag) ==
  LET edges == Edges(dag) vertices == Vertices(dag) IN
  {q \in Orders : (\A i \in 1..Len(q) : q[i] \in vertices) /\ TargetsFirst(q, edges)}

Complete(dag) ==
  LET edges == Edges(dag) vertices == Vertices(dag) IN
  {q \in Permutation(vertices) : TargetsFirst(q, edges)}
================================================================================
