---------------------------- MODULE AnalyzedScripts ----------------------------
(***************************************************************************)
(* A script as the executor gets it, for the model checker.                *)
(***************************************************************************)
EXTENDS Executor, CfgCreator, UseDefRecorder

A == Par("a")
B == Par("b")

Marked(c, marks) ==
  [code |-> c, last |-> marks.last, deletes |-> marks.deletes, needed |-> Needed(c)]

ProgramOf(c) == Marked(c, Analyzed(c, FALSE))

Program(items) == ProgramOf(Create(items))

MCObj == 1 .. 8
================================================================================
