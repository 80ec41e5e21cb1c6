---------------------------- MODULE UseDefAnalyzer -----------------------------
(***************************************************************************)
(* The use-definition analysis of a script, step by step.                  *)
(*                                                                         *)
(* The executor frees or steals a value at exactly the occurrences that    *)
(* this analysis marks, so a mark too many loses a value and a mark too    *)
(* few leaks one.                                                          *)
(***************************************************************************)
EXTENDS UseDefRecorder, Liveness

CONSTANTS Codes      \* the control flow graphs that are analyzed

VARIABLES
  code,              \* the CFG under analysis
  keepLiveAtEnd,     \* keep the last value of every name after the end
  prefix,            \* d_prefixFirstUseByDef
  cur,               \* position of the visitor, 0 past the end
  rec,               \* the UseDefRecorder
  keep,              \* keep[n][i]: UDEvent::keepLive of event i of n's chain
  last,              \* occurrences whose ASTPar::lastUse is set
  deletes,           \* <<block, name>>: JumpNode's delete on forward sets
  phase              \* "visit", "keepLive" or "done"

ASSUME CodesAssumption == \A c \in Codes : Structured(c)

vars == <<code, keepLiveAtEnd, prefix, cur, rec, keep, last, deletes, phase>>

-------------------------------------------------------------------------------
(* The analysis step by step *)

Init ==
  /\ code \in Codes /\ keepLiveAtEnd \in BOOLEAN /\ prefix \in BOOLEAN
  /\ keepLiveAtEnd => prefix      \* only the calc::setLastUse function keeps
  /\ cur = 1
  /\ rec = EmptyRecorder
  /\ keep = << >> /\ last = {} /\ deletes = {}
  /\ phase = "visit"

\* CFGVisitor::visit: one node, then advance over the forward branch.
VisitNode ==
  /\ phase = "visit" /\ cur # 0
  /\ rec' = RecVisit(rec, code, cur, prefix)
  /\ cur' = Succ(code, cur, FALSE)
  /\ UNCHANGED <<code, keepLiveAtEnd, prefix, keep, last, deletes, phase>>

\* UseDefRecorder::setKeepLive, up to the first pass.
StartKeepLive ==
  /\ phase = "visit" /\ cur = 0 /\ prefix
  /\ LET r == EndRecording(rec, keepLiveAtEnd)
     IN /\ rec' = r
        /\ keep' = [n \in DOMAIN r.chain |-> [i \in DOMAIN r.chain[n] |-> FALSE]]
  /\ phase' = "keepLive"
  /\ UNCHANGED <<code, keepLiveAtEnd, prefix, cur, last, deletes>>

Passed == [n \in DOMAIN rec.chain |-> KeepLivePass(rec.chain[n], keep[n])]

\* One more pass over the chains that a back branch still changes.
PassKeepLive ==
  /\ phase = "keepLive" /\ Passed # keep
  /\ keep' = Passed
  /\ UNCHANGED <<code, keepLiveAtEnd, prefix, cur, rec, last, deletes, phase>>

SetLastUse ==
  /\ phase = "keepLive" /\ Passed = keep
  /\ last' = LastUses(rec, keep)
  /\ deletes' = DeletesOnForward(rec, keep)
  /\ phase' = "done"
  /\ UNCHANGED <<code, keepLiveAtEnd, prefix, cur, rec, keep>>

Next == VisitNode \/ StartKeepLive \/ PassKeepLive \/ SetLastUse

Spec == Init /\ [][Next]_vars /\ WF_vars(Next)

-------------------------------------------------------------------------------
(* Properties *)

AtEnd == IF keepLiveAtEnd THEN NamesOf(code) ELSE {}

(***************************************************************************)
(* EventChain's class comment: in every chain the Enter and Jump events    *)
(* are paired and nested, no pair encloses nothing, and the simulated      *)
(* stack is empty whenever a statement is complete (the assertions that    *)
(* ~UseDefRecorder has commented out).                                     *)
(***************************************************************************)
ChainNested(chain) ==
  LET opened[i \in 0 .. Len(chain)] ==
        IF i = 0 THEN << >>
        ELSE LET s == opened[i - 1] IN
             CASE chain[i].type = "Enter" -> Append(s, chain[i].blk)
               [] chain[i].type = "Jump"  ->
                    IF s # << >> /\ Last(s) = chain[i].blk THEN Front(s) ELSE <<0>>
               [] OTHER -> s
  IN /\ opened[Len(chain)] = [i \in DOMAIN rec.nesting |-> rec.nesting[i].blk]
     /\ \A i, j \in DOMAIN chain :
          /\ chain[i].type = "Enter" /\ chain[j].type = "Jump"
          /\ chain[i].blk = chain[j].blk
          => \E m \in i .. j : IsReference(chain[m])

WellNested ==
  /\ \A n \in DOMAIN rec.chain : ChainNested(rec.chain[n])
  /\ cur = 0 => rec.stack = << >> /\ rec.nesting = << >>

(***************************************************************************)
(* The marks that ASTPar::lastUse documents ("a last use of par's value,   *)
(* before code end or redefinition"): exactly the occurrences after which  *)
(* no path uses the value.                                                 *)
(***************************************************************************)
LastUseExact ==
  phase = "done" => last = LastOccurrences(code, AtEnd)

(***************************************************************************)
(* Values that are only kept for the next iteration of a loop are deleted  *)
(* when the loop is left, by the jump node of the loop that kept them and  *)
(* by no other.                                                            *)
(***************************************************************************)
DeletesExact ==
  phase = "done" => deletes = DeadAfterLoop(code, AtEnd)

(***************************************************************************)
(* The inputs of a script, which calc::inputSet and calc::ioTypes each     *)
(* find on chains built with a different prologue, are the names whose     *)
(* initial value some path uses.                                           *)
(***************************************************************************)
InputsExact ==
  phase = "visit" /\ cur = 0 =>
    NeededAtStart(code) =
      IF prefix THEN InputSet(rec)
      ELSE {n \in DOMAIN rec.chain : IoType(rec, n).input # "None"}

\* Every analysis of a script that starts marking finishes it.
AnalysisEnds == <>(phase = "done" \/ (cur = 0 /\ ~prefix))
================================================================================
