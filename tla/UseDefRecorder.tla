---------------------------- MODULE UseDefRecorder -----------------------------
(***************************************************************************)
(* UseDefRecorder and EventChain: the data of the use-definition analysis  *)
(* and the operations on it.                                               *)
(*                                                                         *)
(* The analyzer visits the nodes of a CFG once, from first to last, and    *)
(* simulates the runtime stack; every pop of a parameter is a Use and      *)
(* every assignment a Def.  Uses and Defs are kept in one chain of events  *)
(* per name, between the Enter and Jump events of the blocks around them.  *)
(* A backward pass over each chain, repeated until the back branches add   *)
(* nothing, then tells at which occurrence a value is used for the last    *)
(* time.                                                                   *)
(*                                                                         *)
(* An occurrence is a pair <<i, k>>: parameter k of the assignment at node *)
(* i, or the right hand side parameter at node i when k = 0.               *)
(***************************************************************************)
EXTENDS Cfg, FiniteSets, SequencesExt

-------------------------------------------------------------------------------
(* Events and chains *)

Null  == <<0, 0>>    \* on the simulated stack: not a parameter
Dummy == <<0, 1>>    \* d_dummy

NameOf(c, p) == IF p[2] = 0 THEN c[p[1]].name ELSE c[p[1]].lhs[p[2]]

Event(type, p, node) ==
  [type |-> type, par |-> p, blk |-> node.blk, back |-> HasBackBranch(node.kind)]
UseEvent(p)  == Event("Use", p, NoNode)
DefEvent(p)  == Event("Def", p, NoNode)
EnterEvent(node) == Event("Enter", Null, node)
JumpEvent(node)  == Event("Jump", Null, node)

IsReference(e) == e.type \in {"Use", "Def"}

\* Mutant: blocks without a reference to the name leave their events.
ChainAddAll(chain, e) == Append(chain, e)

\* EventChain::add: a block in which the name does not occur leaves no events.
ChainAdd(chain, e) ==
  IF e.type = "Jump" /\ Last(chain).type = "Enter"
  THEN Front(chain) ELSE Append(chain, e)

-------------------------------------------------------------------------------
(* The recorder *)

EmptyRecorder == [chain |-> << >>, nesting |-> << >>, stack |-> << >>, dynamic |-> 0]

\* The nesting so far, with a Def before the outermost block that loops if
\* the first event of a name is a Use.
Prologue(nesting, e, pre) ==
  LET loops == {i \in DOMAIN nesting : nesting[i].back}
      first == CHOOSE i \in loops : \A j \in loops : i <= j
  IN IF pre /\ e.type = "Use" /\ loops # {}
     THEN InsertAt(nesting, first, DefEvent(Dummy))
     ELSE nesting

\* Add a Use or a Def of name n to its chain.
AddReference(r, n, e, pre) ==
  LET before == IF n \in DOMAIN r.chain THEN r.chain[n]
                ELSE Prologue(r.nesting, e, pre)
  IN [r EXCEPT !.chain =
       [m \in DOMAIN r.chain \cup {n} |->
          IF m = n THEN Append(before, e) ELSE r.chain[m]]]

\* An Enter or a Jump goes to every chain that exists.
AddBlockEvent(r, e) ==
  [r EXCEPT !.nesting = ChainAdd(@, e),
            !.chain = [n \in DOMAIN r.chain |-> ChainAdd(r.chain[n], e)]]

Push(r, p) == [r EXCEPT !.stack = Append(@, p)]

\* Pop n entries: the top of the stack is used first.
PopUses(r, c, n, pre) ==
  LET top == Len(r.stack)
      used[k \in 0 .. n] ==
        IF k = 0 THEN [r EXCEPT !.stack = SubSeq(@, 1, top - n)]
        ELSE LET p == r.stack[(top - k) + 1]
             IN IF p = Null THEN used[k - 1]
                ELSE AddReference(used[k - 1], NameOf(c, p), UseEvent(p), pre)
  IN used[n]

PushNulls(r, n) == [r EXCEPT !.stack = @ \o [i \in 1 .. n |-> Null]]

AddDefs(r, c, i, pre) ==
  LET defined[k \in 0 .. Len(c[i].lhs)] ==
        IF k = 0 THEN r
        ELSE AddReference(defined[k - 1], c[i].lhs[k], DefEvent(<<i, k>>), pre)
  IN defined[Len(c[i].lhs)]

\* The handlers of UseDefAnalyzer, for node i of CFG c.
RecVisit(r, c, i, pre) ==
  LET node == c[i] IN
  CASE node.op = "par"    -> Push(r, <<i, 0>>)
    [] node.op = "num"    -> Push(r, Null)
    [] node.op = "stat"   -> r
    [] node.op = "nonass" -> PopUses(r, c, 1, pre)
    [] node.op = "expr"   -> PushNulls(PopUses(r, c, node.k, pre), node.r)
    [] node.op = "ass"    -> AddDefs(PopUses(r, c, Len(node.lhs), pre), c, i, pre)
    [] node.op = "enter"  ->
         [AddBlockEvent(r, EnterEvent(node)) EXCEPT
            !.dynamic = IF node.kind = "dynamic" THEN node.blk ELSE @]
    [] node.op = "jump"   -> AddBlockEvent(r, JumpEvent(node))

-------------------------------------------------------------------------------
(* The backward pass *)

\* The Jump event of the block that event i of the chain enters.
JumpOfEnter(chain, i) ==
  CHOOSE j \in i .. Len(chain) :
    chain[j].type = "Jump" /\ chain[j].blk = chain[i].blk

\* Mutant: back branches keep nothing.
KeepLiveForward(chain, k) ==
  LET n == Len(chain)
      before[i \in 1 .. n + 1] ==
        IF i = n + 1 THEN FALSE
        ELSE CASE chain[i].type = "Use" -> TRUE
               [] chain[i].type = "Def" -> FALSE
               [] OTHER -> k[i] \/ before[i + 1]
  IN [i \in 1 .. n |-> k[i] \/ before[i + 1]]

\* Mutant: a pass flips the flag of a Use that ends a chain.
KeepLiveFlipped(chain, k) ==
  [i \in DOMAIN chain |->
     IF i < Len(chain) THEN chain[i + 1].type = "Use" ELSE ~k[i]]

(***************************************************************************)
(* One pass over a chain from its last event to its first.  before[i] is   *)
(* the value that UDEvent::mergeKeepLive returns for event i; nothing is   *)
(* live past the end.  The Enter of a looping block that is kept live      *)
(* keeps the last event of that block.                                     *)
(***************************************************************************)
KeepLivePass(chain, k) ==
  LET n == Len(chain)
      before[i \in 1 .. n + 1] ==
        IF i = n + 1 THEN FALSE
        ELSE CASE chain[i].type = "Use" -> TRUE
               [] chain[i].type = "Def" -> FALSE
               [] OTHER -> k[i] \/ before[i + 1]
      kept == [i \in 1 .. n |-> k[i] \/ before[i + 1]]
      looped == {JumpOfEnter(chain, i) - 1 : i \in
                   {j \in 1 .. n : chain[j].type = "Enter" /\ chain[j].back /\ kept[j]}}
  IN [i \in 1 .. n |-> kept[i] \/ i \in looped]

\* The chain of a name with the Use that keeps it live at the end.
EndedChain(r, n, keepEnd) ==
  IF keepEnd THEN Append(r.chain[n], UseEvent(Dummy)) ELSE r.chain[n]

-------------------------------------------------------------------------------
(* What the analysis is used for *)

\* EventChain::setLastUse for every chain.
LastUses(r, k) ==
  (UNION {{r.chain[n][i].par : i \in
             {j \in DOMAIN r.chain[n] : IsReference(r.chain[n][j]) /\ ~k[n][j]}}
          : n \in DOMAIN r.chain}) \ {Dummy}

\* Mutant: a Jump that is not live deletes, whatever came before it.
DeletesOnAnyJump(r, k) ==
  UNION {{<<r.chain[n][i].blk, n>> : i \in
            {j \in DOMAIN r.chain[n] : r.chain[n][j].type = "Jump" /\ ~k[n][j]}}
         : n \in DOMAIN r.chain}

DeletesOnForward(r, k) ==
  UNION {{<<r.chain[n][i].blk, n>> : i \in
            {j \in DOMAIN r.chain[n] :
               r.chain[n][j].type = "Jump" /\ ~k[n][j] /\ k[n][j - 1]}}
         : n \in DOMAIN r.chain}

\* Mutant: the Def of the prologue counts.
AnyReferences(chain) == {i \in DOMAIN chain : IsReference(chain[i])}

\* EventChain::firstUse: the first event that is not the dummy is a Use.
RealReferences(chain) ==
  {i \in DOMAIN chain : IsReference(chain[i]) /\ chain[i].par # Dummy}
FirstReference(chain) ==
  CHOOSE i \in RealReferences(chain) : \A j \in RealReferences(chain) : i <= j

InputSet(r) ==
  {n \in DOMAIN r.chain : r.chain[n][FirstReference(r.chain[n])].type = "Use"}

\* EventChain::ioType.
InDynamic(r, chain, i) ==
  /\ r.dynamic # 0
  /\ \E e \in 1 .. i : /\ chain[e].type = "Enter" /\ chain[e].blk = r.dynamic
                       /\ i <= JumpOfEnter(chain, e)

IoType(r, n) ==
  LET chain == r.chain[n]
      refs(type) == {i \in DOMAIN chain : chain[i].type = type}
      dyn(type)  == {i \in refs(type) : InDynamic(r, chain, i)}
      useFirst   == \E u \in refs("Use") : \A d \in refs("Def") : u < d
  IN [input  |-> IF ~useFirst THEN "None"
                 ELSE IF dyn("Use") = {} \/ dyn("Def") # {} THEN "Initial"
                 ELSE "Dynamic",
      output |-> IF refs("Def") = {} THEN "Fixed"
                 ELSE IF dyn("Def") # {} THEN "Dynamic" ELSE "Initial"]

-------------------------------------------------------------------------------
(* calc::setLastUse as one function: what the executor gets to see *)

Recorded(c, pre) ==
  FoldLeft(LAMBDA r, i : RecVisit(r, c, i, pre),
           EmptyRecorder, [i \in DOMAIN c |-> i])

EndRecording(r, keepEnd) ==
  [r EXCEPT !.chain = [n \in DOMAIN @ |-> EndedChain(r, n, keepEnd)]]

SettledKeepLive(chain) ==
  LET passed[keep \in [DOMAIN chain -> BOOLEAN]] ==
        LET after == KeepLivePass(chain, keep)
        IN IF after = keep THEN keep ELSE passed[after]
  IN passed[[i \in DOMAIN chain |-> FALSE]]

Settled(r) == [n \in DOMAIN r.chain |-> SettledKeepLive(r.chain[n])]

Marks(r, k) == [last |-> LastUses(r, k), deletes |-> DeletesOnForward(r, k)]

MarksOf(r) == Marks(r, Settled(r))

Analyzed(c, keepEnd) == MarksOf(EndRecording(Recorded(c, TRUE), keepEnd))
================================================================================
