------------------------------- MODULE MCExecutor ------------------------------
(***************************************************************************)
(* Scripts over two names, and scripts that route material over an ldd,    *)
(* analyzed and then executed with option m.  A script is named by its     *)
(* shape and the numbers of its parts.                                     *)
(***************************************************************************)
EXTENDS AnalyzedScripts, Marks

Statement ==
  << Assign("a", Num),
     Assign("b", Op("same1", <<A>>)),
     Assign("b", MapOp("comm", <<A, A>>)),
     Report("a", Op("left", <<A, B>>)),
     Assign("b", MapOp("right", <<Op("same1", <<A>>), Op("diff", <<B>>)>>)),
     Report("b", A),
     AssignTwo("a", "b", TwoOp("two", <<B, A>>)),
     Assign("t", Op("timeoutput", <<B, Op("diff", <<A>>)>>)) >>

Until == <<A, Op("nop", <<Op("diff", <<B>>)>>)>>

Statements == 1 .. 8

\* The first statement of the longer shapes: assigns a constant, reports, or
\* assigns both names.
Openers == {1, 4, 7}

Ids ==
  ({"straight", "loop1"} \X {1} \X Statements \X Statements) \cup
  ({"loop2", "dynamic"} \X Openers \X Statements \X Statements) \cup
  ({"nested1", "nested2"} \X Statements \X Statements \X {1})

Items(shape, s, t, u) ==
  CASE shape = "straight" -> <<s, t, u>>
    [] shape = "loop1"    -> <<s, Repeat(<<t>>, Until[1]), u>>
    [] shape = "loop2"    -> <<s, Repeat(<<t>>, Until[2]), u>>
    [] shape = "dynamic"  -> <<s, Dynamic(<<t, u>>)>>
    [] shape = "nested1"  -> <<Dynamic(<<Repeat(<<s>>, Until[1]), t>>)>>
    [] shape = "nested2"  -> <<Dynamic(<<Repeat(<<s>>, Until[2]), t>>)>>

ItemsOf(id, statement) ==
  Items(id[1], statement[id[2]], statement[id[3]], statement[id[4]])

-------------------------------------------------------------------------------
(* Routing.                                                                *)

L == Par("l")
Accu(n, m) == Assign(n, Op("accu", <<L, Par(m)>>))

\* The ldd is used in every iteration and freed by the jump node, or it is
\* assigned after it was routed over.
Body ==
  << <<Accu("b", "a")>>,
     <<Accu("b", "a"), Accu("a", "b")>>,
     <<Assign("a", Op("diff", <<L, B>>)), Accu("b", "a")>>,
     <<Accu("a", "a"), Report("b", Op("same1", <<A>>))>>,
     <<Accu("b", "a"), Assign("l", Op("diff", <<A, B>>))>> >>
Start == << << >>, <<Assign("l", Num)>>, <<Assign("l", Op("same1", <<L>>))>> >>

\* In straight code, where the ldd is routed over once: its last use.
RoutingIds ==
  ({"dynamic", "repeat", "nested"} \X (1 .. 3) \X (1 .. 4) \X (1 .. 4)) \cup
  ({"dynamic", "repeat", "nested"} \X (1 .. 3) \X {5} \X {5}) \cup
  ({"straight"} \X (1 .. 3) \X {1, 4, 5} \X {1})

RoutingItems(shape, body, last) ==
  CASE shape = "straight" -> body
    [] shape = "dynamic" -> <<Dynamic(body \o last)>>
    [] shape = "repeat"  -> <<Repeat(body \o last, B), Report("a", B)>>
    [] shape = "nested"  -> <<Dynamic(<<Repeat(body, A)>> \o last)>>

RoutingItemsOf(id) == Start[id[2]] \o RoutingItems(id[1], Body[id[3]], Body[id[4]])

\* The empty function makes TLC compute the programs, once.
MCPrograms ==
  [id \in Ids \cup RoutingIds |->
     Program(IF id \in Ids THEN ItemsOf(id, Statement) ELSE RoutingItemsOf(id))] @@ << >>

\* These scripts are of the kind that SemanticsProofs is about.
ASSUME MarksAssumption == \A id \in DOMAIN MCPrograms : Consistent(MCPrograms[id])

\* What UseDefAnalyzerProofs supposes of a script that is executed.
ASSUME ExecutableAssumption ==
  \A id \in DOMAIN MCPrograms : Executable(MCPrograms[id].code, Names)
================================================================================
