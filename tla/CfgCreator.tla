------------------------------ MODULE CfgCreator -------------------------------
(***************************************************************************)
(* How CFGCreator links the nodes of the abstract syntax tree of a script  *)
(* into the control flow graph that the analyzers and the executor visit.  *)
(*                                                                         *)
(* The CFG of a part of the tree is built from the CFGs of its children,   *)
(* so there is one operator per kind of tree node and a script is written  *)
(* as a term.  Positions in the CFG of a part count from its own start.    *)
(***************************************************************************)
EXTENDS Cfg, SequencesExt

\* Blocks are named by position: behind d other nodes they move by d.
Shift(nodes, d) ==
  [i \in DOMAIN nodes |->
     IF nodes[i].op \in {"enter", "jump"} THEN [nodes[i] EXCEPT !.blk = @ + d]
     ELSE nodes[i]]

\* The parts one after the other, the first after `before' other nodes.
Chained(parts, before) ==
  FoldLeft(LAMBDA nodes, part : nodes \o Shift(part, before + Len(nodes)),
           << >>, parts)

-------------------------------------------------------------------------------
(* Expressions, in post order: the arguments from left to right, then the  *)
(* operator.                                                               *)

Par(n) == <<ParNode(n)>>
Num    == <<NumberNode>>

Expr(fn, args, r, kind) == Chained(args, 0) \o <<ExprNode(fn, Len(args), r, kind)>>
Op(fn, args)    == Expr(fn, args, 1, "")
MapOp(fn, args) == Expr(fn, args, 1, "spatial")
TwoOp(fn, args) == Expr(fn, args, 2, "")

-------------------------------------------------------------------------------
(* Statements *)

\* A statement node, its right hand side and the assignment.
Assignment(lhs, report, rhs) == <<StatNode>> \o rhs \o <<AssNode(lhs, report)>>
Assign(n, e)       == Assignment(<<n>>, {}, e)
Report(n, e)       == Assignment(<<n>>, {n}, e)
AssignTwo(n, m, e) == Assignment(<<n, m>>, {}, e)

\* A block: its entrance, its statements and its jump node.
Block(kind, body) ==
  <<EnterNode(1, kind)>> \o Chained(body, 1) \o <<JumpNode(1, kind)>>

\* A condition is the expression and then the NonAssExpr that holds it.
Condition(e)    == e \o <<NonAssExprNode>>
Repeat(body, e) == Block("repeat", Append(body, Condition(e)))
Dynamic(body)   == Block("dynamic", body)

\* The whole script is one Code block.
Create(items) == Block("code", items)
================================================================================
