---------------------------- MODULE UseDefInvariants ---------------------------
(***************************************************************************)
(* The inductive invariants of the use-definition analysis, Recording and  *)
(* Marking, and what they are made of: the events of a graph and their     *)
(* order, the chains, the nesting and the simulated stack that follow from *)
(* the nodes that were visited, and the places where the marks say that a  *)
(* name is live.  UseDefAnalyzerProofs proves them.                        *)
(***************************************************************************)
EXTENDS UseDefAnalyzer, MarkedCode, Integers

-------------------------------------------------------------------------------
(* Blocks *)

\* The entrances of the blocks.
Blocks(c) == {b \in 1 .. Len(c) : c[b].op = "enter"}
\* The jump node of a block.
Closing(c, b) == CHOOSE j \in 1 .. Len(c) : c[j].op = "jump" /\ c[j].blk = b

-------------------------------------------------------------------------------
(* Events and their order *)

\* The node that an event belongs to; d is the node that the Def of the
\* prologue is put before.
At(c, d, e) ==
  CASE e.type = "Use"   -> IF e.par = Dummy THEN Len(c) + 1 ELSE Consumer(c, e.par[1])
    [] e.type = "Def"   -> IF e.par = Dummy THEN d ELSE e.par[1]
    [] e.type = "Enter" -> e.blk
    [] e.type = "Jump"  -> Closing(c, e.blk)

\* Its place among the events of the node: the last operand is used first, and
\* values are used before they are assigned.
Rank(c, e) ==
  CASE e.type = "Use" -> Len(c) - e.par[1]
    [] e.type = "Def" -> IF e.par = Dummy THEN 0 ELSE Len(c) + e.par[2]
    [] OTHER -> 1

\* An event is before another if its node is, or has it earlier.
Earlier(c, d, e, f) ==
  \/ At(c, d, e) < At(c, d, f)
  \/ At(c, d, e) = At(c, d, f) /\ Rank(c, e) < Rank(c, f)

\* All events of E have a place.
Placed(c, d, E) == \A e \in E : At(c, d, e) \in Int /\ Rank(c, e) \in Int

\* A sequence of the events of a set, from the earliest to the latest.
Lists(c, d, s, E) ==
  /\ s \in Seq(E)
  /\ \A e \in E : \E i \in 1 .. Len(s) : s[i] = e
  /\ \A i, j \in 1 .. Len(s) : i < j => Earlier(c, d, s[i], s[j])

-------------------------------------------------------------------------------
(* References to a name *)

\* The event of an occurrence.
EventOf(p) == IF p[2] = 0 THEN UseEvent(p) ELSE DefEvent(p)

\* The Uses and the Defs of a name, and of all names.
References(c, n) == {EventOf(p) : p \in {q \in Occurrences(c) : NameOf(c, q) = n}}
AllReferences(c) == {EventOf(p) : p \in Occurrences(c)}

\* The earliest reference to a name.
IsFirst(c, n, e) ==
  e \in References(c, n) /\ \A f \in References(c, n) : f = e \/ Earlier(c, 0, e, f)
\* The earliest reference to a name.
FirstOf(c, n) == CHOOSE e : IsFirst(c, n, e)

-------------------------------------------------------------------------------
(* The Def of the prologue *)

\* The looping blocks around a node.
LoopsAround(c, j) ==
  {b \in Blocks(c) : HasBackBranch(c[b].kind) /\ b < j /\ j < Closing(c, b)}

\* The outermost loop around the first reference, if that is a Use.
Opening(c, n) ==
  LET loops == LoopsAround(c, At(c, 0, FirstOf(c, n)))
  IN IF FirstOf(c, n).type = "Use" /\ loops # {}
     THEN CHOOSE b \in loops : \A x \in loops : b <= x
     ELSE 0

-------------------------------------------------------------------------------
(* The events of blocks *)

\* The Enter and the Jump event of a block.
EnterOf(c, b) == EnterEvent(c[b])
JumpOf(c, b)  == JumpEvent(c[Closing(c, b)])

-------------------------------------------------------------------------------
(* What is recorded before node j is visited, of the references in D *)

\* The Enter events of the blocks that are open.
OpenEnters(c, j) ==
  {EnterOf(c, b) : b \in {x \in Blocks(c) : x < j /\ j <= Closing(c, x)}}

\* A block in which the name occurs.
Referred(c, n, b) ==
  \E e \in References(c, n) : b < At(c, 0, e) /\ At(c, 0, e) < Closing(c, b)

\* The Enter events in the chain of a name: of open blocks and of those it occurs in.
EntersSeen(c, n, j) ==
  {EnterOf(c, b) : b \in {x \in Blocks(c) :
                            x < j /\ (j <= Closing(c, x) \/ Referred(c, n, x))}}
\* The Jump events in the chain of a name: of closed blocks that it occurs in.
JumpsSeen(c, n, j) ==
  {JumpOf(c, b) : b \in {x \in Blocks(c) : Closing(c, x) < j /\ Referred(c, n, x)}}
\* The Def of the prologue, if there is one.
Prefixed(c, n, pre) == IF pre /\ Opening(c, n) # 0 THEN {DefEvent(Dummy)} ELSE {}

\* Everything in the chain of a name before node j is visited.
Seen(c, n, pre, j, D) ==
  (References(c, n) \cap D) \cup EntersSeen(c, n, j) \cup JumpsSeen(c, n, j)
    \cup Prefixed(c, n, pre)

\* The recorder before node j is visited, with the references in D.
Records(c, pre, r, j, D) ==
  /\ r = [chain |-> r.chain, nesting |-> r.nesting, stack |-> r.stack, dynamic |-> r.dynamic]
  /\ Lists(c, 0, r.nesting, OpenEnters(c, j))
  /\ \A n : n \in DOMAIN r.chain <=> References(c, n) \cap D # {}
  /\ \A n \in DOMAIN r.chain : Lists(c, Opening(c, n), r.chain[n], Seen(c, n, pre, j, D))

\* All references of the nodes before j.
RefsTo(c, j) == {e \in AllReferences(c) : At(c, 0, e) < j}

-------------------------------------------------------------------------------
(* The simulated stack *)

\* The stack before node j is visited: every parameter that is not consumed
\* yet is at the depth at which it was pushed.
StackOK(c, s, j) ==
  /\ s \in Seq(Nat \X Nat) /\ Len(s) = Depth(c)[j]
  /\ \A a \in 1 .. Len(s) :
       s[a] # Null => \E i \in ParNodes(c) : /\ s[a] = <<i, 0>> /\ i < j
                                             /\ j <= Consumer(c, i)
                                             /\ Depth(c)[i] = a - 1
  /\ \A i \in ParNodes(c) :
       i < j /\ j <= Consumer(c, i) =>
         Depth(c)[i] + 1 \in 1 .. Len(s) /\ s[Depth(c)[i] + 1] = <<i, 0>>

-------------------------------------------------------------------------------
(* The references of a node *)

\* What popping one entry does to the recorder.
PopOne(r, c, p, pre) ==
  IF p = Null THEN r ELSE AddReference(r, NameOf(c, p), UseEvent(p), pre)

\* The stack without its n upper entries.
Popped(r, n) == [r EXCEPT !.stack = SubSeq(r.stack, 1, Len(r.stack) - n)]

\* The recorder after each of the n entries on top of stack s is popped.
PopSequence(start, c, n, pre, s) ==
  CHOOSE f1 : f1 = [k \in 0 .. n |->
                      IF k = 0 THEN start
                      ELSE PopOne(f1[k - 1], c, s[(Len(s) - k) + 1], pre)]

\* The Uses of the k entries that node j takes first.
UsesTaken(c, j, k) ==
  {UseEvent(<<i, 0>>) : i \in {x \in ParNodes(c) : /\ Consumer(c, x) = j
                                                   /\ Depth(c)[j] - k <= Depth(c)[x]}}

\* The references before node j, and the Uses of node j.
RefsAndUses(c, j) == RefsTo(c, j) \cup UsesTaken(c, j, Pops(c[j]))

-------------------------------------------------------------------------------
(* One node *)

\* The recorder before node j is visited.
Visited(c, pre, r, j) == Records(c, pre, r, j, RefsTo(c, j)) /\ StackOK(c, r.stack, j)

-------------------------------------------------------------------------------
(* The chains are nested *)

\* The events of blocks among the events of name n before node j.
Framed(c, n, j, E) ==
  /\ \A e \in E : \/ IsReference(e)
                  \/ \E b \in Blocks(c) : e = EnterOf(c, b) \/ e = JumpOf(c, b)
  /\ \A b \in Blocks(c) :
       /\ EnterOf(c, b) \in E <=> b < j /\ (j <= Closing(c, b) \/ Referred(c, n, b))
       /\ JumpOf(c, b) \in E <=> Closing(c, b) < j /\ Referred(c, n, b)
  /\ \A g \in References(c, n) : At(c, 0, g) < j => g \in E

\* The numbers of a set from the smallest to the largest.
Increasing(s, S) ==
  /\ s \in Seq(S)
  /\ \A x \in S : \E i \in 1 .. Len(s) : s[i] = x
  /\ \A i, j \in 1 .. Len(s) : i < j => s[i] < s[j]

\* What an event does to the blocks that are open.
NextOpen(s, e) ==
  CASE e.type = "Enter" -> Append(s, e.blk)
    [] e.type = "Jump"  -> IF s # << >> /\ Last(s) = e.blk THEN Front(s) ELSE <<0>>
    [] OTHER -> s

\* The blocks that are open after each event of a chain.
Opened(chain) ==
  CHOOSE f : f = [i \in 0 .. Len(chain) |->
                    IF i = 0 THEN << >> ELSE NextOpen(f[i - 1], chain[i])]

\* The blocks that are open after event i of a chain.
OpenAt(c, s, i) ==
  {b \in Blocks(c) : /\ \E x \in 1 .. i : s[x] = EnterOf(c, b)
                     /\ \A x \in 1 .. i : s[x] # JumpOf(c, b)}

\* Everything that is recorded of name n before node j, and the Uses U at the end.
ChainEvents(c, n, pre, j, U) == Seen(c, n, pre, j, RefsTo(c, j)) \cup U

\* What the recorder holds when everything is recorded.
RecordedAll(c, pre, U, r) ==
  /\ r.nesting = << >> /\ r.stack = << >>
  /\ \A n : n \in DOMAIN r.chain <=> References(c, n) # {}
  /\ \A n \in DOMAIN r.chain :
       Lists(c, Opening(c, n), r.chain[n], ChainEvents(c, n, pre, Len(c) + 1, U))

\* The Use that keeps a name live at the end.
EndUses(keepEnd) == IF keepEnd THEN {UseEvent(Dummy)} ELSE {}

-------------------------------------------------------------------------------
(* The analysis *)

\* The node that is visited next, one past the last at the end.
Position == IF cur = 0 THEN Len(code) + 1 ELSE cur

\* The recorder follows from the nodes that are visited.
Recording ==
  /\ code \in Codes /\ keepLiveAtEnd \in BOOLEAN /\ prefix \in BOOLEAN
  /\ keepLiveAtEnd => prefix
  /\ cur \in 0 .. Len(code)
  /\ phase \in {"visit", "keepLive", "done"}
  /\ phase = "visit" => Visited(code, prefix, rec, Position)
  /\ phase # "visit" =>
       /\ cur = 0 /\ prefix
       /\ RecordedAll(code, TRUE, EndUses(keepLiveAtEnd), rec)

-------------------------------------------------------------------------------
(* Least solutions *)

\* The nodes and the names of a graph.
Places(c) == {<<i, n>> : i \in DOMAIN c, n \in NamesOf(c)}
\* The pairs that Live chooses from, the end of the graph being 0.
Universe(c, atEnd) == (0 .. Len(c)) \X (NamesOf(c) \cup atEnd)

\* Where a name is live because it is live at a successor.
Through(c, live) ==
  {x \in Places(c) : /\ x[2] \notin DefsAt(c, x[1])
                     /\ \E s \in SuccSet(c, x[1]) : <<s, x[2]>> \in live}

\* The function that Live applies to its base.
Extended(c, atEnd) ==
  CHOOSE f : f = [live \in SUBSET Universe(c, atEnd) |->
                    LET more == Through(c, live) \ live
                    IN IF more = {} THEN live ELSE f[live \cup more]]

\* The elements of every set that holds live and that the equations add nothing to.
LeastOf(c, atEnd, live) ==
  {x \in Universe(c, atEnd) :
     \A S \in SUBSET Universe(c, atEnd) : live \subseteq S /\ Through(c, S) \subseteq S => x \in S}

-------------------------------------------------------------------------------
(* Where a name is live *)

\* What is live because it is used there or kept at the end.
LiveBase(c, atEnd) ==
  {<<0, n>> : n \in atEnd} \cup
  {<<Consumers(c)[i], c[i].name>> : i \in DOMAIN Consumers(c)}

\* Node j uses the value of name n.
UsedAt(c, n, j) == \E i \in ParNodes(c) : Consumer(c, i) = j /\ c[i].name = n
\* Node j may branch back.
LoopEnd(c, j)   == c[j].op = "jump" /\ HasBackBranch(c[j].kind)

\* The place in Live's result, which has the end of the graph at 0.
PlaceOf(c, j) == IF j = Len(c) + 1 THEN 0 ELSE j

\* The places where name n is live.
LivePlaces(c, n, atEnd) ==
  {j \in 1 .. Len(c) + 1 : <<PlaceOf(c, j), n>> \in Live(c, Consumers(c), atEnd)}

-------------------------------------------------------------------------------
(* One pass over a chain *)

\* What UDEvent::mergeKeepLive returns for an event, from its mark and from what
\* it returned for the next event.
Merged(e, kept, next) ==
  CASE e.type = "Use" -> TRUE
    [] e.type = "Def" -> FALSE
    [] OTHER -> kept \/ next

\* The values that a pass returns, nothing being live past the end.
BeforeOf(chain, k) ==
  CHOOSE f : f = [i \in 1 .. Len(chain) + 1 |->
                    IF i = Len(chain) + 1 THEN FALSE
                    ELSE Merged(chain[i], k[i], f[i + 1])]

-------------------------------------------------------------------------------
(* The chain of a name when everything is recorded *)

\* The events in the chain of a name when everything is recorded.
EndEvents(c, n, atEnd) == ChainEvents(c, n, TRUE, Len(c) + 1, EndUses(n \in atEnd))
\* Such a chain.
EndChain(c, n, atEnd, s) ==
  n \in NamesOf(c) /\ Lists(c, Opening(c, n), s, EndEvents(c, n, atEnd))

\* The node that an event of the chain belongs to.
PlaceAt(c, n, s, x) == At(c, Opening(c, n), s[x])

\* An event before the opening of the name.
Early(c, n, s, x) == PlaceAt(c, n, s, x) < Opening(c, n) \/ s[x] = DefEvent(Dummy)

-------------------------------------------------------------------------------
(* The marks are sound *)

\* The next event belongs to the same node.
SameNode(c, n, s, x) ==
  x < Len(s) /\ PlaceAt(c, n, s, x + 1) = PlaceAt(c, n, s, x)

\* The value is live after event x: the next event of the node uses it or, if
\* there is none, the name is live at the next node.  Before the opening of the
\* name there is nothing to say.
LiveEvent(c, n, atEnd, s, x) ==
  \/ Early(c, n, s, x)
  \/ SameNode(c, n, s, x) /\ s[x + 1].type = "Use"
  \/ /\ ~SameNode(c, n, s, x)
     /\ PlaceAt(c, n, s, x) + 1 \in LivePlaces(c, n, atEnd)

-------------------------------------------------------------------------------
(* The marks are complete *)

\* A pass over the chain changes no mark.
Stable(s, k) == k \in [1 .. Len(s) -> BOOLEAN] /\ KeepLivePass(s, k) = k

\* What a pass finds live before event x, the back branch of a Jump included.
Active(c, s, k, x) ==
  \/ BeforeOf(s, k)[x]
  \/ \E b \in Blocks(c) : /\ HasBackBranch(c[b].kind) /\ s[x] = JumpOf(c, b)
                          /\ \E e \in 1 .. Len(s) : s[e] = EnterOf(c, b) /\ k[e]

\* Event q is the first one that is not before node j.
NextEvent(c, n, s, j, q) ==
  /\ q \in 1 .. Len(s) /\ j <= PlaceAt(c, n, s, q)
  /\ \A y \in 1 .. Len(s) : y < q => PlaceAt(c, n, s, y) < j

\* The places where the marks say that the name is live, and those up to its opening.
Reached(c, n, s, k) ==
  {j \in Int : \/ j <= Opening(c, n)
               \/ \E q \in 1 .. Len(s) : NextEvent(c, n, s, j, q) /\ Active(c, s, k, q)}

-------------------------------------------------------------------------------
(* The marks of the references *)

\* What the flags of the last occurrences are to say.
UsedAgain(c, atEnd, i) ==
  \/ \E p \in ParNodes(c) :
       p < i /\ c[p].name = c[i].name /\ Consumers(c)[p] = Consumers(c)[i]
  \/ /\ c[i].name \notin DefsAt(c, Consumers(c)[i])
     /\ LiveAfter(c, Live(c, Consumers(c), atEnd), Consumers(c)[i], c[i].name)
\* The value that a node assigns stays and is used.
StaysLive(c, atEnd, j, k) ==
  /\ LiveAfter(c, Live(c, Consumers(c), atEnd), j, c[j].lhs[k])
  /\ \A m \in DOMAIN c[j].lhs : m > k => c[j].lhs[m] # c[j].lhs[k]
\* Occurrence o is not a last one.
NeededAfter(c, atEnd, o) ==
  IF o[2] = 0 THEN UsedAgain(c, atEnd, o[1]) ELSE StaysLive(c, atEnd, o[1], o[2])

\* The chains of a recorder r hold everything, and the marks k say of no value
\* that it is live when it is not.
Sound(c, atEnd, r, k) ==
  /\ \A n : n \in DOMAIN r.chain <=> n \in NamesOf(c)
  /\ \A n \in DOMAIN r.chain :
       /\ EndChain(c, n, atEnd, r.chain[n])
       /\ k[n] \in [1 .. Len(r.chain[n]) -> BOOLEAN]
       /\ \A x \in 1 .. Len(r.chain[n]) :
            k[n][x] => LiveEvent(c, n, atEnd, r.chain[n], x)

\* Another pass adds nothing.
Settles(c, atEnd, r, k) ==
  /\ Sound(c, atEnd, r, k)
  /\ \A n \in DOMAIN r.chain : Stable(r.chain[n], k[n])

-------------------------------------------------------------------------------
(* The passes *)

\* The marks follow from the chains: they are sound in every pass and, when a
\* pass adds nothing, exact.
Marking ==
  /\ Recording
  /\ phase # "visit" => Sound(code, AtEnd, rec, keep)
  /\ phase = "done" =>
       /\ Settles(code, AtEnd, rec, keep)
       /\ last = LastUses(rec, keep)
       /\ deletes = DeletesOnForward(rec, keep)

-------------------------------------------------------------------------------
(* What a run finds on its stack when it visits a node *)

\* The node before this one left its operands to it.
Late(c, i) == i > 1 /\ (IsDeferred(c[i - 1]) \/ c[i - 1].op = "nonass")

\* The node that takes the value of the parameter at node q off a run's stack.
Taker(c, q) == Consumer(c, q) + (IF Late(c, Consumer(c, q) + 1) THEN 1 ELSE 0)

\* Stack s holds, at their depths, the parameters that node i and later ones consume.
Holds(c, s, i) ==
  /\ Len(s) = Depth(c)[i]
  /\ \A a \in 1 .. Len(s) : c[s[a]].op = "par" =>
       s[a] \in 1 .. i - 1 /\ Depth(c)[s[a]] = a - 1 /\ i <= Consumer(c, s[a])
  /\ \A q \in ParNodes(c) : q < i /\ i <= Consumer(c, q) =>
       Depth(c)[q] + 1 \in 1 .. Len(s) /\ s[Depth(c)[q] + 1] = q

\* The stack that a run finds: at a node that the one before left its operands to, its stack.
WaitsAt(c, i) ==
  LET w == Waiting(c) IN
  IF Late(c, i) THEN w[i] = w[i - 1] /\ Holds(c, w[i - 1], i - 1) ELSE Holds(c, w[i], i)

\* Stack t has the lowest h entries of s, and then u times node i.
Moved(s, t, h, u, i) ==
  /\ Len(t) = h + u
  /\ \A a \in 1 .. h : t[a] = s[a]
  /\ \A a \in h + 1 .. h + u : t[a] = i

-------------------------------------------------------------------------------
(* What is live and what is needed, by name *)

\* A place from which some path ends without an assignment.
Escapes(c) == Live(c, << >>, NamesOf(c))

-------------------------------------------------------------------------------
(* What the exact marks say *)

\* Nothing at place g, where control goes from node i, is a reason to keep name n.
Quits(c, i, g, n) ==
  /\ g \in 1 .. Len(c) + 1 /\ (g = i + 1 \/ (LoopEnd(c, i) /\ g = c[i].blk))
  /\ n \in NamesOf(c) /\ n \notin DefsAt(c, i)
  /\ g \notin LivePlaces(c, n, {}) /\ \A m \in g .. Len(c) : n \notin DefsAt(c, m)
  /\ \A q \in ParNodes(c) : q < g /\ g <= Taker(c, q) /\ c[q].name = n =>
       <<q, 0>> \notin LastOccurrences(c, {})

\* A jump node deletes n on its way to place g.
Drops(c, i, g, n) == LoopEnd(c, i) /\ g = i + 1 /\ c[i].blk \in LivePlaces(c, n, {})
================================================================================
