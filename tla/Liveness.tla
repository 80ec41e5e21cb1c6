-------------------------------- MODULE Liveness -------------------------------
(***************************************************************************)
(* What a use-definition analysis has to find, defined on the paths of the *)
(* control flow graph alone: no chains, no blocks, no simulated stack.     *)
(***************************************************************************)
EXTENDS Cfg, FiniteSets

\* How many entries of the runtime stack a node takes off and puts on it.
Pops(node) ==
  CASE node.op = "expr" -> node.k
    [] node.op = "ass" -> Len(node.lhs)
    [] node.op = "nonass" -> 1
    [] OTHER -> 0
Pushes(node) ==
  CASE node.op \in {"par", "num"} -> 1
    [] node.op = "expr" -> node.r
    [] OTHER -> 0

\* How many entries are on the stack on arrival at each node, and at the end.
Depth(c) ==
  LET depth[j \in 1 .. Len(c) + 1] ==
        IF j = 1 THEN 0 ELSE (depth[j - 1] - Pops(c[j - 1])) + Pushes(c[j - 1])
  IN depth

(***************************************************************************)
(* What CFGCreator makes of a script: blocks that are nested, each with    *)
(* one jump node, and expressions that find their operands on the stack    *)
(* and are complete at the entrance and the end of every block.            *)
(***************************************************************************)
Operations == {"par", "num", "stat", "nonass", "expr", "ass", "enter", "jump"}

NodeOK(c, i) ==
  /\ c[i].op \in Operations
  /\ c[i].k \in Nat /\ c[i].r \in Nat /\ c[i].lhs \in Seq(STRING)
  /\ c[i].op # "ass" => c[i].lhs = << >>
  /\ c[i].op = "enter" =>
       /\ c[i].blk = i
       /\ \E j \in i + 1 .. Len(c) : c[j].op = "jump" /\ c[j].blk = i
  /\ c[i].op = "jump" =>
       /\ c[i].blk \in 1 .. i - 1
       /\ c[c[i].blk].op = "enter" /\ c[c[i].blk].kind = c[i].kind

BlocksNested(c) ==
  \A i, j \in DOMAIN c :
    c[i].op = "jump" /\ c[j].op = "jump" /\ i < j =>
      c[j].blk < c[i].blk \/ i < c[j].blk

Complete(c) ==
  LET depth == Depth(c) IN
  /\ \A i \in DOMAIN c :
       /\ Pops(c[i]) <= depth[i]
       /\ c[i].op \in {"enter", "jump"} => depth[i] = 0
  /\ depth[Len(c) + 1] = 0

Structured(c) ==
  /\ Len(c) \in Nat \ {0} /\ DOMAIN c = 1 .. Len(c)
  /\ \A i \in DOMAIN c : NodeOK(c, i)
  /\ BlocksNested(c) /\ Complete(c)

(***************************************************************************)
(* The node that takes the value of the parameter at node i off the stack: *)
(* the first one that leaves no more of what it finds there than there was *)
(* below the parameter.                                                    *)
(***************************************************************************)
Consumer(c, i) ==
  LET depth  == Depth(c)
      takers == {j \in i + 1 .. Len(c) : depth[j] - Pops(c[j]) <= depth[i]}
  IN CHOOSE j \in takers : \A m \in takers : j <= m

ParNodes(c) == {i \in DOMAIN c : c[i].op = "par"}

Consumers(c) == [i \in ParNodes(c) |-> Consumer(c, i)]

DefsAt(c, j)  == {c[j].lhs[k] : k \in DOMAIN c[j].lhs}
NamesOf(c)    == {c[i].name : i \in ParNodes(c)} \cup UNION {DefsAt(c, j) : j \in DOMAIN c}
Occurrences(c) ==
  {<<i, 0>> : i \in ParNodes(c)} \cup
  UNION {{<<j, k>> : k \in DOMAIN c[j].lhs} : j \in DOMAIN c}

(***************************************************************************)
(* Live(c, consumer, atEnd): the pairs <<i, n>> such that the value of n on *)
(* arrival at node i is used on some path from i before n is assigned;     *)
(* atEnd are the names live past the last node, which has position 0.      *)
(* This is the least solution of the dataflow equations.                   *)
(***************************************************************************)
Live(c, consumer, atEnd) ==
  LET end  == {<<0, n>> : n \in atEnd}
      used == {<<consumer[i], c[i].name>> : i \in DOMAIN consumer}
      places == {<<i, n>> : i \in DOMAIN c, n \in NamesOf(c)}
      through(live) ==
        {x \in places :
           /\ x[2] \notin DefsAt(c, x[1])
           /\ \E s \in SuccSet(c, x[1]) : <<s, x[2]>> \in live}
      extended[live \in SUBSET ((0 .. Len(c)) \X (NamesOf(c) \cup atEnd))] ==
        LET more == through(live) \ live
        IN IF more = {} THEN live ELSE extended[live \cup more]
  IN extended[end \cup used]

\* Live, or assigned on every path that ends.
Needed(c) ==
  LET live    == Live(c, Consumers(c), {})
      escapes == Live(c, << >>, NamesOf(c))
  IN live \cup ({<<i, n>> : i \in DOMAIN c, n \in NamesOf(c)} \ escapes)

LiveAfter(c, live, j, n) == \E s \in SuccSet(c, j) : <<s, n>> \in live

(***************************************************************************)
(* The occurrences after which the value of the name is never used again   *)
(* before it is assigned.  When one node takes several values, the right-  *)
(* most operand is taken first and, of several assigned parameters, the    *)
(* last one stays.                                                         *)
(***************************************************************************)
LastOccurrences(c, atEnd) ==
  LET consumer == Consumers(c)
      live == Live(c, consumer, atEnd)
      usedAgain(i) ==
        \/ \E p \in ParNodes(c) :
             p < i /\ c[p].name = c[i].name /\ consumer[p] = consumer[i]
        \/ /\ c[i].name \notin DefsAt(c, consumer[i])
           /\ LiveAfter(c, live, consumer[i], c[i].name)
      kept(j, k) ==
        /\ LiveAfter(c, live, j, c[j].lhs[k])
        /\ \A m \in DOMAIN c[j].lhs : m > k => c[j].lhs[m] # c[j].lhs[k]
  IN {o \in Occurrences(c) :
        IF o[2] = 0 THEN ~usedAgain(o[1]) ELSE ~kept(o[1], o[2])}

\* Names that are live when a block is repeated but not when it is left.
DeadAfterLoop(c, atEnd) ==
  LET live == Live(c, Consumers(c), atEnd)
      jumps == {j \in DOMAIN c : c[j].op = "jump" /\ HasBackBranch(c[j].kind)}
  IN UNION {{<<c[j].blk, n>> : n \in
               {m \in NamesOf(c) : /\ <<c[j].blk, m>> \in live
                                   /\ <<Succ(c, j, FALSE), m>> \notin live}}
            : j \in jumps}

\* Names whose value at the start of the script is used.
NeededAtStart(c) == {n \in NamesOf(c) : <<1, n>> \in Live(c, Consumers(c), {})}
================================================================================
