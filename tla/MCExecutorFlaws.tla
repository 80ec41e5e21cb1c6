---------------------------- MODULE MCExecutorFlaws ----------------------------
(***************************************************************************)
(* A single script, with which the code does what it should not.           *)
(***************************************************************************)
EXTENDS AnalyzedScripts

L == Par("l")
Accu(n, m) == Assign(n, Op("accu", <<L, Par(m)>>))

One(items) == [script \in {"script"} |-> Program(items)]

\* Routing twice over the same ldd.
AccuTwicePrograms == One(<<Accu("b", "a"), Accu("a", "b")>>)
================================================================================
