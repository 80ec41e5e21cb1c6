----------------------------------- MODULE Mldd ---------------------------------
(***************************************************************************)
(* Mldd, the multiple outflow ldd of the Python extension and the model    *)
(* link: a DagRaster and an elevation model.  Every operation that follows *)
(* the flow is a visitor of the vertices in the order that was computed    *)
(* when the streams last changed, and here a step for each edge.           *)
(*                                                                         *)
(* Amounts of material are sets of paths: a path stands for the material   *)
(* of its first cell times the weights along it.  Of elevations is known   *)
(* where they are missing.                                                 *)
(***************************************************************************)
EXTENDS DagRaster

CONSTANTS
  Ldds,           \* what addStream may be given
  Streams,        \* what setStream may be given
  Dems,           \* where an elevation model may be missing
  Materials,      \* where an amount of material may be missing
  DiffusionArgs,  \* [cells, edges]: where an argument of diffuse may be missing
  NrIterations,   \* of diffuse
  None

ASSUME LddAssumption ==
  Ldds \subseteq [Cells -> 1..9 \cup {MV}] /\ Streams \subseteq SUBSET Ldds
ASSUME MissingAssumption == Dems \subseteq SUBSET Cells /\ Materials \subseteq SUBSET Cells
ASSUME DiffusionAssumption ==
  DiffusionArgs \subseteq [cells : SUBSET Cells, edges : SUBSET (Cells \X Cells)]
ASSUME IterationAssumption == NrIterations \in Nat \ {0}
ASSUME NoneAssumption == \A edges \in SUBSET (Cells \X Cells) : edges # None

VARIABLES
  dag,       \* d_outflowNB and d_inflowNB
  rto,       \* d_rto, the reverse topological order
  failed,    \* the last updateOrder threw NotADag
  missing,   \* the cells where d_dem is missing
  op,        \* the visitor, or "none"
  at,        \* the vertex that is visited, an index in rto; 0 at the end
  todo,      \* its edges that are not yet visited
  without,   \* the cells where the amount that was given is missing
  marks,     \* the edges that are marked, or are given no diffusion value
  removeDag, \* of removeStream: the edges to remove
  result,    \* of upstream and accuflux: the material in each cell
  terms,     \* of diffuse: d_fixedEdgeFlowTerm, the edge of each
  edgeNr,    \* of diffuse: d_edgeNr
  iteration  \* of diffuse

graph == <<dag, rto, failed>>
removal == <<marks, removeDag>>
flux == <<without, result>>
diffusion == <<terms, edgeNr, iteration>>
visit == <<op, at, todo, removal, flux, diffusion>>
vars == <<graph, missing, visit>>

\* The amount that is missing: no path is empty.
NoAmount == {<<>>}
NoResult == [c \in Cells |-> NoAmount]

\* Between operations.
Idle ==
  /\ op = "none" /\ at = 0 /\ todo = {}
  /\ marks = {} /\ removeDag = EmptyDag
  /\ without = {} /\ result = NoResult
  /\ terms = <<>> /\ edgeNr = 0 /\ iteration = 0

Finish ==
  /\ op' = "none" /\ at' = 0 /\ todo' = {}
  /\ marks' = {} /\ removeDag' = EmptyDag
  /\ without' = {} /\ result' = NoResult
  /\ terms' = <<>> /\ edgeNr' = 0 /\ iteration' = 0

Init ==
  /\ dag = EmptyDag /\ rto = <<>> /\ failed = FALSE /\ missing = {}
  /\ Idle

-------------------------------------------------------------------------------
(* Streams.                                                                *)

\* Mutant: the order of before is kept where there is no cycle.
KeepOrder(new) ==
  LET orders == Complete(new) IN
  /\ dag' = new /\ failed' = (orders = {})
  /\ rto' \in IF orders = {} THEN Partial(new) ELSE {rto}

\* updateOrder.
UpdateOrder(new) ==
  LET orders == Complete(new) IN
  /\ dag' = new /\ failed' = (orders = {})
  /\ rto' \in IF orders = {} THEN Partial(new) ELSE orders

AddStream(ldd) ==
  /\ op = "none"
  /\ UpdateOrder(AddLdds(dag, {ldd}))
  /\ UNCHANGED <<missing, visit>>

SetStream(ldds) ==
  /\ op = "none"
  /\ UpdateOrder(AddLdds(EmptyDag, ldds))
  /\ UNCHANGED <<missing, visit>>

SetDem(cells) ==
  /\ op = "none"
  /\ missing' = cells
  /\ UNCHANGED <<graph, visit>>

-------------------------------------------------------------------------------
(* The visits.                                                             *)

OutOf(k) == IF k = 0 THEN {} ELSE dag.outflow[rto[k]]
InOrder == {rto[k] : k \in 1..Len(rto)}

\* The edge that is visited: the lowest bit of the mask.
Bit == Min(todo)
Source == rto[at]
Downstream == Target(Source, Bit)
Edge == <<Source, Downstream>>

\* downstreamVisitor, and its first vertex.
Start(visitor) ==
  /\ op' = visitor
  /\ at' = Len(rto) /\ todo' = OutOf(Len(rto))

\* An edge, and the last one of a vertex.
Visiting(visitor) == op = visitor /\ todo # {}
NextEdge == todo' = todo \ {Bit} /\ UNCHANGED <<op, at>>

FinishVertex ==
  /\ op # "none" /\ at > 0 /\ todo = {}
  /\ at' = at - 1 /\ todo' = OutOf(at - 1)
  /\ UNCHANGED <<graph, missing, op, removal, flux, diffusion>>

Visited(visitor) == op = visitor /\ at = 0

-------------------------------------------------------------------------------
(* removeStream.                                                           *)

RemoveStream(edges) ==
  /\ op = "none" /\ Start("remove")
  /\ marks' = edges
  /\ UNCHANGED <<graph, missing, removeDag, flux, diffusion>>

\* Mutant: some inflow is marked for deletion.
SomeInflowRemoved(c) == IsVertex(removeDag, c)

\* All inflow is marked for deletion.
InflowRemoved(c) ==
  /\ IsVertex(removeDag, c)
  /\ Cardinality(dag.inflow[c]) = Cardinality(removeDag.inflow[c])

RemoveEdge ==
  /\ Visiting("remove") /\ NextEdge
  /\ removeDag' = IF Edge \in marks \/ InflowRemoved(Source)
                  THEN AddFlow(removeDag, Source, Bit) ELSE removeDag
  /\ UNCHANGED <<graph, missing, marks, flux, diffusion>>

\* NotADag is not caught here.
Removed ==
  /\ Visited("remove") /\ Finish
  /\ UpdateOrder(Remove(dag, removeDag))
  /\ UNCHANGED missing

-------------------------------------------------------------------------------
(* upstream and accuflux.                                                  *)

\* WeightMap::get: 1 for a single outflow, mvMark, a fraction, or not a number
\* when the elevation of another target is missing, which is the missing value
\* when it is added.
Weight(c, d) ==
  LET targets == {Target(c, nb) : nb \in dag.outflow[c]} IN
  IF Cardinality(targets) = 1 THEN "one"
  ELSE IF {c, d} \cap missing # {} THEN "mvMark"
  ELSE IF targets \cap missing # {} THEN "NaN"
  ELSE "fraction"

\* initVertex; the cells that are not in the order stay missing.
Accuflux(cells) ==
  /\ op = "none" /\ Start("accuflux")
  /\ without' = cells
  /\ result' = [c \in Cells |-> IF c \in InOrder \ cells THEN {<<c>>} ELSE NoAmount]
  /\ UNCHANGED <<graph, missing, removal, diffusion>>

Upstream(cells) ==
  /\ op = "none" /\ Start("upstream")
  /\ without' = cells
  /\ result' = [c \in Cells |-> IF c \in InOrder THEN {} ELSE NoAmount]
  /\ UNCHANGED <<graph, missing, removal, diffusion>>

\* d_newState[t] += w * d_newState[s].
Flow(amount, weight, from, d) ==
  IF from = NoAmount \/ weight = "mvMark" THEN amount
  ELSE IF weight = "NaN" \/ amount = NoAmount THEN NoAmount
  ELSE amount \cup {Append(p, d) : p \in from}

\* Mutant: accuflux moves what was given.
FluxEdgeGiven ==
  /\ Visiting("accuflux") \/ Visiting("upstream")
  /\ result' = [result EXCEPT ![Downstream] =
                  Flow(@, Weight(Source, Downstream),
                       IF Source \in without THEN NoAmount ELSE {<<Source>>}, Downstream)]
  /\ NextEdge
  /\ UNCHANGED <<graph, missing, removal, without, diffusion>>

FluxEdge ==
  /\ \/ Visiting("accuflux")
        /\ result' = [result EXCEPT ![Downstream] =
                        Flow(@, Weight(Source, Downstream), result[Source], Downstream)]
     \/ Visiting("upstream")
        /\ result' = [result EXCEPT ![Downstream] =
                        Flow(@, Weight(Source, Downstream),
                             IF Source \in without THEN NoAmount ELSE {<<Source>>}, Downstream)]
  /\ NextEdge
  /\ UNCHANGED <<graph, missing, removal, without, diffusion>>

Returned ==
  /\ Visited("accuflux") \/ Visited("upstream")
  /\ Finish
  /\ UNCHANGED <<graph, missing>>

-------------------------------------------------------------------------------
(* diffuse: one visit that computes a term for each edge, and one for each *)
(* iteration.                                                              *)

\* initSet.
Diffuse(args) ==
  /\ op = "none" /\ Start("init")
  /\ marks' = args.edges
  /\ missing' = missing \cup (InOrder \cap args.cells)
  /\ UNCHANGED <<graph, removeDag, flux, diffusion>>

\* initFlowTerm.
InitFlowTerm ==
  /\ Visiting("init") /\ NextEdge
  /\ missing' = IF Edge \in marks THEN missing \cup {Source, Downstream} ELSE missing
  /\ terms' = Append(terms, Edge)
  /\ UNCHANGED <<graph, removal, flux, edgeNr, iteration>>

\* Mutant: one DiffuseIter for all iterations.
IterateOn ==
  /\ Visited("init") \/ Visited("iter")
  /\ iteration < NrIterations
  /\ iteration' = iteration + 1
  /\ Start("iter")
  /\ UNCHANGED <<graph, missing, removal, flux, terms, edgeNr>>

Iterate ==
  /\ Visited("init") \/ Visited("iter")
  /\ iteration < NrIterations
  /\ iteration' = iteration + 1 /\ edgeNr' = 0
  /\ Start("iter")
  /\ UNCHANGED <<graph, missing, removal, flux, terms>>

\* drop: no flow, and no term, where an elevation is missing.
HasDrop == {Source, Downstream} \cap missing = {}

DiffuseEdge ==
  /\ Visiting("iter") /\ NextEdge
  /\ edgeNr' = IF HasDrop THEN edgeNr + 1 ELSE edgeNr
  /\ UNCHANGED <<graph, missing, removal, flux, terms, iteration>>

Diffused ==
  /\ Visited("iter") /\ iteration = NrIterations
  /\ Finish
  /\ UNCHANGED <<graph, missing>>

-------------------------------------------------------------------------------
Next ==
  \/ \E ldd \in Ldds : AddStream(ldd)
  \/ \E ldds \in Streams : SetStream(ldds)
  \/ \E cells \in Dems : SetDem(cells)
  \/ \E edges \in SUBSET Edges(dag) : RemoveStream(edges)
  \/ \E cells \in Materials : Accuflux(cells) \/ Upstream(cells)
  \/ \E args \in DiffusionArgs : Diffuse(args)
  \/ RemoveEdge \/ Removed \/ FluxEdge \/ Returned
  \/ InitFlowTerm \/ Iterate \/ DiffuseEdge \/ Diffused
  \/ FinishVertex

Spec == Init /\ [][Next]_vars
-------------------------------------------------------------------------------
Dags == [outflow : [Cells -> SUBSET NBCodes], inflow : [Cells -> SUBSET NBCodes]]

\* Every variable has its type.
TypeOK ==
  /\ dag \in Dags /\ removeDag \in Dags
  /\ rto \in Seq(Cells) /\ failed \in BOOLEAN /\ missing \subseteq Cells
  /\ op \in {"none", "remove", "accuflux", "upstream", "init", "iter"}
  /\ at \in 0..Len(rto) /\ todo \subseteq OutOf(at)
  /\ without \subseteq Cells /\ marks \subseteq Cells \X Cells
  /\ DOMAIN result = Cells
  /\ terms \in Seq(Cells \X Cells) /\ edgeNr \in Nat
  /\ iteration \in 0..NrIterations

Mirrors(d) ==
  \A c \in Cells, nb \in NBCodes :
    IF Target(c, nb) \in Cells
    THEN nb \in d.outflow[c] <=> Reverse(nb) \in d.inflow[Target(c, nb)]
    ELSE nb \notin d.outflow[c] /\ nb \notin d.inflow[c]

\* The two bytes of a cell and those of its neighbours tell the same flows, and
\* none leaves the map, also in the graph of what is removed, which is a part of
\* the other (addFlow, remove).
FlowsMirror ==
  /\ Mirrors(dag) /\ Mirrors(removeDag)
  /\ \A c \in Cells : /\ removeDag.outflow[c] \subseteq dag.outflow[c]
                      /\ removeDag.inflow[c] \subseteq dag.inflow[c]

\* What getStream returns, setStream takes to the same graph.
StreamRoundTrip ==
  LET ldds == GetStream(dag) IN
  AddLdds(EmptyDag, {ldds[nb] : nb \in NBCodes}) = dag

\* The visits follow the flow of the graph that there is: the order is that of the
\* current streams and, unless they have a cycle, it has every vertex once.
OrderIsCurrent ==
  /\ TargetsFirst(rto, Edges(dag))
  /\ \A i, j \in 1..Len(rto) : i # j => rto[i] # rto[j]
  /\ InOrder \subseteq Vertices(dag)
  /\ ~failed => InOrder = Vertices(dag)

Paths == {p \in Orders : /\ p # <<>>
                         /\ \A i \in 1..(Len(p) - 1) : <<p[i], p[i + 1]>> \in Edges(dag)}

\* What the visit follows: edges with a weight, from cells in the order.
Passing == {p \in Paths :
  \A i \in 1..(Len(p) - 1) :
    p[i] \in InOrder /\ Weight(p[i], p[i + 1]) \in {"one", "fraction"}}

\* To these cells no material is missing and all weights are numbers: of what
\* flows to them, for upstream, and of all that is upstream, for accuflux.
Whole(cells) ==
  /\ cells \cap without = {}
  /\ \A s \in InOrder, c \in cells : <<s, c>> \in Edges(dag) =>
       /\ s \notin without /\ Weight(s, c) # "NaN"
       /\ op = "accuflux" => s \in cells

\* Where nothing upstream is missing, accuflux has, in each cell, the material of
\* every path to it, once, and upstream that of the paths from the neighbours.
FluxIsEveryPath ==
  Visited("accuflux") \/ Visited("upstream") =>
    \A cells \in SUBSET InOrder : Whole(cells) => \A c \in cells :
      result[c] = {p \in Passing : p[Len(p)] = c /\ (op = "upstream" => Len(p) = 2)}

\* In every iteration of diffuse there is a term for an edge that has a drop
\* (assertion in downstreamEdge), its own when no elevation is missing.
TermsMatch ==
  Visiting("iter") /\ HasDrop =>
    /\ edgeNr < Len(terms)
    /\ missing = {} => terms[edgeNr + 1] = Edge

\* The mldd is a network of streams.
netBar == Edges(dag)
usableBar == ~failed
markedBar == IF op = "remove" THEN marks ELSE None

N == INSTANCE StreamNetwork
       WITH net <- netBar, usable <- usableBar, marked <- markedBar
ImplementsStreamNetwork == N!Spec

-------------------------------------------------------------------------------
(* What comments say.                                                      *)

\* mldd_diffuse.h: the index of a fixed edge flow term is the visit sequence.
TermOfVisit ==
  Visiting("iter") /\ HasDrop =>
    edgeNr < Len(terms) /\ terms[edgeNr + 1] = Edge
================================================================================
