---------------------------------- MODULE Cfg ----------------------------------
(***************************************************************************)
(* The control flow graph of a PCRaster script.                            *)
(*                                                                         *)
(* The CFG is a linear list of nodes in order of evaluation: the forward   *)
(* successor of a node is the next node, and only the jump node at the end *)
(* of a basic block has a back successor, the entrance of that block.  A   *)
(* CFG is therefore a sequence of nodes and a block is named by the        *)
(* position of its entrance.                                               *)
(***************************************************************************)
EXTENDS Naturals, Sequences

(***************************************************************************)
(* A node: only the fields that its op needs are meaningful.               *)
(*   op     which visit method the node calls                              *)
(*   name   the parameter read (par)                                       *)
(*   fn     the operator, with k arguments and r results (expr)            *)
(*   lhs    the parameters assigned (ass), in the order of ASTAss::d_pars  *)
(*   report those of lhs that are the report position of their symbol      *)
(*   blk    the position of the entrance of the block, kind its sort       *)
(*          ("code", "dynamic", "repeat"), or the sort of operator         *)
(***************************************************************************)
NoNode == [op |-> "none", name |-> "", fn |-> "", k |-> 0, r |-> 0,
           lhs |-> << >>, report |-> {}, blk |-> 0, kind |-> ""]

EnterNode(b, kind)  == [NoNode EXCEPT !.op = "enter", !.blk = b, !.kind = kind]
JumpNode(b, kind)   == [NoNode EXCEPT !.op = "jump", !.blk = b, !.kind = kind]
StatNode            == [NoNode EXCEPT !.op = "stat"]
ParNode(n)          == [NoNode EXCEPT !.op = "par", !.name = n]
NumberNode          == [NoNode EXCEPT !.op = "num"]
ExprNode(fn, k, r, kind) ==
  [NoNode EXCEPT !.op = "expr", !.fn = fn, !.k = k, !.r = r, !.kind = kind]
NonAssExprNode      == [NoNode EXCEPT !.op = "nonass"]
AssNode(lhs, rep)   == [NoNode EXCEPT !.op = "ass", !.lhs = lhs, !.report = rep]

\* The nodes that leave a name, or a field, for another node to take; a time
\* series operator is deferred to the assignment that follows it.
PushesField(node) ==
  node.op = "num" \/ (node.op = "expr" /\ node.fn # "timeoutput")

IsOperand(node) == node.op = "par" \/ PushesField(node)

IsDeferred(node) == node.op = "expr" /\ node.fn = "timeoutput"

\* Code is executed once; DynamicSection and RepeatUntil may jump back.
HasBackBranch(kind) == kind \in {"repeat", "dynamic"}

\* Mutant: the end of the list is not noticed.
SuccPastEnd(code, i, takeBackBranch) ==
  IF takeBackBranch THEN code[i].blk ELSE i + 1

(***************************************************************************)
(* CFGVisitor::advance: the successor of the node at position i, 0 past    *)
(* the end of the list (d_current = 0).                                    *)
(***************************************************************************)
Succ(code, i, takeBackBranch) ==
  IF takeBackBranch THEN code[i].blk
  ELSE IF i < Len(code) THEN i + 1 ELSE 0

\* Every edge that leaves node i, whichever branch a run takes.
SuccSet(code, i) ==
  {Succ(code, i, FALSE)} \cup
    (IF code[i].op = "jump" /\ HasBackBranch(code[i].kind)
     THEN {Succ(code, i, TRUE)} ELSE {})
================================================================================
