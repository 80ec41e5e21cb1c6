---------------------------------- MODULE Marks --------------------------------
(***************************************************************************)
(* What the code and the marks of a script have to be like for a run to    *)
(* compute what the script says: MarkedCode, and the conditions on the     *)
(* graphs of ldds and on the operators that the names do not decide.       *)
(***************************************************************************)
EXTENDS Executor, MarkedCode

-------------------------------------------------------------------------------
(* Graphs of ldds (option m): graphs are the pairs <<node, name>> such     *)
(* that a graph of the value of the name may be in the cache.              *)

\* Node i leaves a graph of n in the cache.
Routes(x, w, i, n) ==
  LET q == w[i][Len(w[i]) - x.code[i].k + 1] IN
  /\ x.code[i].op = "expr" /\ x.code[i].fn = "accu"
  /\ Reads(x.code, q, n) /\ <<q, 0>> \notin x.last

\* Where there is a graph the value is deleted by a jump node only.
GraphsDeleted(x, w, graphs) ==
  \A i \in 1 .. Len(x.code) : \A n \in Names :
    /\ <<i, n>> \in graphs => n \notin Assigned(x.code, i) /\ ~TakesLast(x, w, i, n)
    /\ \A j \in Next1(x.code, i) :
         Routes(x, w, i, n) \/ (<<i, n>> \in graphs /\ ~DeletesTo(x, i, j, n))
           => <<j, n>> \in graphs

\* The least such pairs.
GraphsIn(x, w) ==
  LET c == x.code
      places == (1 .. Len(c)) \X Names
      onward(y) == {<<j, y[2]>> : j \in Next1(c, y[1])}
      kept(y) == {z \in onward(y) : ~DeletesTo(x, y[1], z[1], y[2])}
      closed[g \in SUBSET places] ==
        LET more == (UNION {kept(y) : y \in g}) \ g
        IN IF more = {} THEN g ELSE closed[g \cup more]
  IN closed[UNION {onward(y) : y \in {z \in places : Routes(x, w, z[1], z[2])}}]

-------------------------------------------------------------------------------
(* What the theorems of ExecutorProofs suppose of a script                 *)

\* An operator that pushes the value it popped takes no name that keeps it.
NoNameConverted(x) ==
  \A i \in 1 .. Len(x.code) :
    x.code[i].op = "expr" /\ x.code[i].fn = "nop" /\ x.code[i - 1].op = "par" =>
      <<i - 1, 0>> \in x.last

\* An operator whose result is one of its operands, and which may fail.
Overwrites(node) == node.fn \in {"same1", "left", "right", "comm"} /\ MayThrow(node)

\* No time series and no operator that overwrites an operand takes the last use
\* of a name before the same name.
NoNameTwice(x) ==
  \A i \in 1 .. Len(x.code) :
    /\ x.code[i].op = "expr" /\ x.code[i].k = 2
    /\ IsDeferred(x.code[i]) \/ Overwrites(x.code[i])
    /\ x.code[i - 1].op = "par" /\ x.code[i - 2].op = "par"
    /\ x.code[i - 1].name = x.code[i - 2].name
    => <<i - 2, 0>> \notin x.last

\* No name that is still used is assigned to itself for nothing.
NoSelfAssigned(x) ==
  \A i \in 1 .. Len(x.code) :
    /\ x.code[i].op = "ass" /\ <<i, 1>> \in x.last
    /\ x.code[i - 1].op = "par" /\ x.code[i - 1].name = x.code[i].lhs[1]
    => <<i - 1, 0>> \in x.last

Consistent(x) ==
  LET w == Waiting(x.code) IN
  /\ Balanced(x.code, w)
  /\ UsesKept(x, w, LiveIn(x.code), Names) /\ UsesEnd(x, w, Names)
  /\ EnableCache => GraphsDeleted(x, w, GraphsIn(x, w))
  /\ NoNameConverted(x) /\ NoNameTwice(x) /\ NoSelfAssigned(x)
================================================================================
