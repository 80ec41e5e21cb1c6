------------------------------- MODULE MarkedCode ------------------------------
(***************************************************************************)
(* What the code and the marks of a script have to be like for a run over  *)
(* the names to free what is no longer needed and nothing else.  Each      *)
(* condition is about a node, its successors and what is on the stack when *)
(* the node is visited; none mentions a run.  calc::setLastUse and the     *)
(* compiler are expected to meet them; x is a program, as in Executor.     *)
(*                                                                         *)
(* Entries of the stack are named by the positions of the nodes that push  *)
(* them, as UseDefRecorder does.                                           *)
(***************************************************************************)
EXTENDS Liveness

-------------------------------------------------------------------------------
(* The stack at each node *)

\* A deferred operator leaves its operands to the assignment.
AfterDeferred(c, i) == i > 1 /\ IsDeferred(c[i - 1])

\* How many entries the visit of node i takes and leaves; a condition waits for
\* the jump node.
Takes(c, i) ==
  CASE c[i].op = "expr" -> IF IsDeferred(c[i]) THEN 0 ELSE c[i].k
    [] c[i].op = "ass" -> IF AfterDeferred(c, i) THEN 2 ELSE Len(c[i].lhs)
    [] c[i].op = "jump" -> IF c[i].kind = "repeat" THEN 1 ELSE 0
    [] OTHER -> 0
Leaves(c, i) ==
  CASE c[i].op \in {"par", "num"} -> 1
    [] c[i].op = "expr" -> IF IsDeferred(c[i]) THEN 0 ELSE c[i].r
    [] OTHER -> 0

Below(s, k) == SubSeq(s, 1, Len(s) - k)

After(c, i, s) == Below(s, Takes(c, i)) \o [a \in 1 .. Leaves(c, i) |-> i]

\* What waits on the stack when each node is visited; a jump goes where nothing
\* does.
Waiting(c) ==
  LET w[i \in 1 .. Len(c)] == IF i = 1 THEN << >> ELSE After(c, i - 1, w[i - 1])
  IN w

\* Expressions are complete: a node finds what it takes, and nothing is left
\* after a statement.
Balanced(c, w) ==
  /\ w[1] = << >>
  /\ \A i \in 1 .. Len(c) :
       /\ w[i] \in Seq({q \in 1 .. Len(c) : IsOperand(c[q])})
       /\ Takes(c, i) <= Len(w[i]) /\ Pops(c[i]) <= Len(w[i])
       /\ i < Len(c) => w[i + 1] = After(c, i, w[i])
       /\ c[i].op = "enter" => w[i] = << >>
       /\ c[i].op \in {"ass", "jump"} \/ i = Len(c) => After(c, i, w[i]) = << >>

\* The entries that node i takes.
Taken(c, w, i) == {w[i][a] : a \in Len(w[i]) - Takes(c, i) + 1 .. Len(w[i])}

\* The nodes that follow node i within the script.
Next1(c, i) == SuccSet(c, i) \cap (1 .. Len(c))

-------------------------------------------------------------------------------
(* What happens to a name at a node *)

Reads(c, q, n) == c[q].op = "par" /\ c[q].name = n

ReadsLast(x, q, n) == Reads(x.code, q, n) /\ <<q, 0>> \in x.last

TakesLast(x, w, i, n) == \E q \in Taken(x.code, w, i) : ReadsLast(x, q, n)

Assigned(c, i) ==
  IF c[i].op = "ass" /\ ~AfterDeferred(c, i) THEN DefsAt(c, i) ELSE {}

\* Of several parameters that are the same name, the last one stays.
Keeps(x, i, n) ==
  LET lhs == x.code[i].lhs IN
  \E k \in 1 .. Len(lhs) :
    /\ lhs[k] = n /\ <<i, k>> \notin x.last
    /\ \A m \in k + 1 .. Len(lhs) : lhs[m] # n

\* A jump node deletes n on the way to node j.
DeletesTo(x, i, j, n) ==
  /\ x.code[i].op = "jump" /\ j = Succ(x.code, i, FALSE)
  /\ <<x.code[i].blk, n>> \in x.deletes

-------------------------------------------------------------------------------
(* Values are there when they are used: live are the pairs <<node, name>>  *)
(* such that the value of the name is still read from that node on.        *)

\* Of several entries with a name, at most the one that is popped last is its
\* last use.
PopsInOrder(x, s, names) ==
  \A b \in 1 .. Len(s) : \A a \in 1 .. b - 1 : \A n \in names :
    ~(Reads(x.code, s[a], n) /\ ReadsLast(x, s[b], n))

UsesKept(x, w, live, names) ==
  \A i \in 1 .. Len(x.code) :
    /\ PopsInOrder(x, w[i], names)
    /\ x.code[i].op = "par" => <<i, x.code[i].name>> \in live
    /\ \A j \in Next1(x.code, i) : \A n \in names : <<j, n>> \in live =>
         /\ ~DeletesTo(x, i, j, n)
         /\ IF n \in Assigned(x.code, i) THEN Keeps(x, i, n)
            ELSE <<i, n>> \in live /\ ~TakesLast(x, w, i, n)

LiveIn(c) == Live(c, Consumers(c), {})

-------------------------------------------------------------------------------
(* Values are there only when they are needed: while they are, or until an *)
(* entry that is their last use is popped.                                 *)

HasReason(x, w, i, n) ==
  \/ <<i, n>> \in x.needed
  \/ i # 0 /\ \E a \in 1 .. Len(w[i]) : ReadsLast(x, w[i][a], n)

UsesEnd(x, w, names) ==
  /\ \A n \in names : <<0, n>> \notin x.needed
  /\ \A i \in 1 .. Len(x.code) :
     \A j \in SuccSet(x.code, i) \cap (0 .. Len(x.code)) : \A n \in names :
       \/ HasReason(x, w, j, n)
       \/ IF n \in Assigned(x.code, i) THEN ~Keeps(x, i, n)
          ELSE \/ TakesLast(x, w, i, n)
               \/ DeletesTo(x, i, j, n)
               \/ /\ ~HasReason(x, w, i, n)
                  /\ \A q \in Taken(x.code, w, i) : ~Reads(x.code, q, n)

-------------------------------------------------------------------------------
(* The scripts that can be executed                                        *)

(***************************************************************************)
(* What the compiler makes of a script over names, besides Structured:     *)
(* statements find on the stack of a run what they take, the value of a    *)
(* deferred operator is assigned next to something that is not a name, and *)
(* an expression without assignment is the condition of a repeat-until     *)
(* block.                                                                  *)
(***************************************************************************)
Executable(c, names) ==
  /\ Structured(c) /\ Balanced(c, Waiting(c))
  /\ \A i \in DOMAIN c :
       /\ IsDeferred(c[i]) =>
            /\ c[i].k = 2 /\ c[i].r = 1 /\ i < Len(c)
            /\ c[i + 1].op = "ass" /\ Len(c[i + 1].lhs) = 1 /\ c[i + 1].lhs[1] \notin names
       /\ c[i].op = "nonass" =>
            i < Len(c) /\ c[i + 1].op = "jump" /\ c[i + 1].kind = "repeat"
       /\ c[i].op = "jump" /\ c[i].kind = "repeat" => i > 1 /\ c[i - 1].op = "nonass"

\* What calc::setLastUse should make of c: the marks that are exact.
ExactlyMarked(c) ==
  [code |-> c, last |-> LastOccurrences(c, {}), deletes |-> DeadAfterLoop(c, {}),
   needed |-> Needed(c)]
================================================================================
