---------------------------- MODULE MCUseDefAnalyzer ---------------------------
(***************************************************************************)
(* Scripts over two names for the model checker: straight code, a loop     *)
(* between statements, loops in loops and loops in the dynamic section.    *)
(***************************************************************************)
EXTENDS UseDefAnalyzer, CfgCreator

\* Statements: the right hand sides differ in what they read, and how often.
Statements ==
  { Assign("a", Num), Assign("a", Op("f", <<Par("b")>>)),
    Assign("b", Par("a")), Assign("b", Op("g", <<Par("a"), Op("f", <<Par("a")>>)>>)),
    Assign("a", Op("g", <<Par("a"), Par("b")>>)),
    AssignTwo("a", "b", TwoOp("h", <<Par("b"), Par("b")>>)) }

Conditions == {Par("a"), Op("f", <<Par("b")>>)}

Scripts ==
  {<<s, t, u>> : s, t, u \in Statements} \cup
  {<<s, Repeat(<<t>>, c), u>> : s, t, u \in Statements, c \in Conditions} \cup
  {<<Repeat(<<s, Repeat(<<t>>, c)>>, d), u>> :
      s, t, u \in Statements, c, d \in Conditions} \cup
  {<<Dynamic(<<Repeat(<<s>>, c), t>>)>> : s, t \in Statements, c \in Conditions} \cup
  {<<s, Dynamic(<<t, u>>)>> : s, t, u \in Statements}

MCCodes == {Create(s) : s \in Scripts}
================================================================================
