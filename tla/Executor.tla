-------------------------------- MODULE Executor -------------------------------
(***************************************************************************)
(* The Executor visits the control flow graph of an analyzed script node   *)
(* by node and does what each node asks of the runtime environment.        *)
(*                                                                         *)
(* Programs is a function: a program is named by a member of its domain,   *)
(* and is the CFG with the marks of the use-definition analysis:           *)
(*   code     the control flow graph                                       *)
(*   last     the occurrences with ASTPar::lastUse set                     *)
(*   deletes  the pairs <<block, name>> of the jump nodes' delete sets     *)
(*   needed   the pairs <<node, name>> of Liveness, for a property only    *)
(* Operators are named for the way they treat their operands:              *)
(*   same1                 result in place of the operand                  *)
(*   left, right, comm     result in place of the left, the right, or, for *)
(*                         a commutative operator, the writable operand    *)
(*   diff                  one or two operands, a new result               *)
(*   two                   two new results                                 *)
(*   accu                  a new result by the graph of an ldd operand     *)
(*   nop                   a conversion to the type the operand has        *)
(*   timeoutput            deferred to the assignment it belongs to        *)
(* The kind of an operator node is "spatial" when its operands are maps    *)
(* and it treats them cell by cell: a missing value then is a cell of the  *)
(* result.  Any other operation may meet a domain error.                   *)
(***************************************************************************)
EXTENDS RunTimeEnv, Liveness

CONSTANTS
  Programs,       \* the scripts that are run
  StartInt,       \* first time step of the timer
  LastInt,        \* last time step of the timer, 0 without a timer
  MaxSpins        \* bound: how often a run repeats a repeat-until block

ASSUME TimerAssumption ==
  StartInt \in Nat \ {0} /\ LastInt \in Nat /\ MaxSpins \in Nat

VARIABLES
  prog,           \* which script is run
  stepWise,       \* run through startStepWise and setStep, not execAll
  cur,            \* d_current: position of the node, 0 past the end
  time,           \* Timer::currentInt, 0 in the initial section
  allDone,        \* d_allCodeExecuted
  timeoutput,     \* d_timeoutput is set
  rte,            \* d_rte
  out,            \* what the writers were given: <<name, time step, value>>
  spins,          \* repetitions of repeat-until blocks so far
  env,            \* auxiliary: the last value assigned to every name
  status          \* "running", "thrown" or "closed"

run  == <<prog, stepWise>>
vars == <<run, cur, time, allDone, timeoutput, rte, out, spins, env, status>>

\* TLC evaluates a definition once, but a constant every time it is used.
Script    == Programs
Code      == Script[prog].code
Node      == Code[cur]
IsLast(k) == <<cur, k>> \in Script[prog].last

-------------------------------------------------------------------------------
(* What the entries of the stack stand for *)

Denotes(r, e) ==
  IF e.obj # NoObj THEN r.val[e.obj]
  ELSE IF r.table[e.name] # NoObj THEN r.val[r.table[e.name]]
  ELSE FileValue(e.name)

Denoted == [i \in DOMAIN rte.stack |-> Denotes(rte, rte.stack[i])]

(***************************************************************************)
(* What the executor relies on in a CFG: operators take at most two        *)
(* operands here and have at least those that they overwrite; only an      *)
(* operator that is made for it has two results; the operands of an        *)
(* operator are computed by the nodes before it, the right one last; a     *)
(* jump goes back to the entrance of a block; an assignment follows the    *)
(* value that it assigns, an assignment to two names an operator with two  *)
(* results; only the value of a deferred operator is assigned to something *)
(* that is not a field, and is assigned next.                              *)
(***************************************************************************)
Operators ==
  {"same1", "left", "right", "comm", "diff", "two", "accu", "nop", "timeoutput"}

WellFormedExpr(node) ==
  /\ node.fn \in Operators /\ node.k \in 0 .. 2 /\ node.r \in 1 .. 2
  /\ node.r = 2 => node.fn = "two"
  /\ node.fn = "nop" => node.k = 1
  /\ node.fn \in {"same1", "left", "accu"} => node.k >= 1
  /\ node.fn \in {"right", "comm", "timeoutput"} => node.k = 2

\* A right operand that is a name follows the left operand.
FollowsOperands(code, i) ==
  /\ code[i].k >= 1 => i > 1 /\ IsOperand(code[i - 1])
  /\ code[i].k = 2 /\ code[i - 1].op = "par" => i > 2 /\ IsOperand(code[i - 2])

AssignsNoField(node) ==
  node.op = "ass" /\ \E k \in 1 .. Len(node.lhs) : node.lhs[k] \notin Names

WellFormedNode(code, i) ==
  /\ code[i].op = "par" => code[i].name \in Names
  /\ code[i].op = "expr" => WellFormedExpr(code[i]) /\ FollowsOperands(code, i)
  /\ code[i].op = "ass" =>
       /\ Len(code[i].lhs) \in 1 .. 2 /\ DOMAIN code[i].lhs = 1 .. Len(code[i].lhs)
       /\ i > 1 /\ code[i - 1].op \in {"par", "num", "expr"}
       /\ Len(code[i].lhs) = 2 =>
            code[i - 1].op = "expr" /\ code[i - 1].fn = "two" /\ code[i - 1].r = 2
  /\ code[i].op = "jump" =>
       code[i].blk \in 1 .. i - 1 /\ code[code[i].blk].op = "enter"
  /\ AssignsNoField(code[i]) =>
       i > 1 /\ IsDeferred(code[i - 1])
  /\ IsDeferred(code[i]) => i < Len(code) /\ code[i + 1].op = "ass"

ASSUME ProgramsAssumption ==
  \A p \in DOMAIN Script :
    /\ Len(Script[p].code) \in Nat \ {0}
    /\ \A i \in 1 .. Len(Script[p].code) : WellFormedNode(Script[p].code, i)

Semantics == INSTANCE ScriptSemantics WITH Programs <- Script, stack <- Denoted

-------------------------------------------------------------------------------
(* Operations *)

\* Where the result goes: Operator::exec of the classes in calc_opimpl.
Prepared(a, fn, r) ==
  CASE fn \in {"same1", "left"} -> SrcDest(a, 1)
    [] fn = "right" -> SrcDest(a, 2)
    [] fn = "comm" -> SrcDest(a, IF a.r.ro[a.f[1]] THEN 2 ELSE 1)
    [] fn \in {"diff", "two", "accu"} -> CreateResults(a, r)

\* What the result is computed from: an accu operator sees only the graph.
Inputs(a, fn) ==
  IF fn = "accu" THEN [ArgValues(a) EXCEPT ![1] = GraphOf(a.r, a.f[1])]
  ELSE ArgValues(a)

Ready(r, node) ==
  LET a == Arguments(r, node.k)
      x == Prepared(a, node.fn, node.r)
      y == Computed(x, [i \in 1 .. node.r |->
                          Semantics!Result(node.fn, Inputs(a, node.fn), i)])
  IN IF node.fn = "accu" THEN [y EXCEPT !.r = LeaveGraph(y.r, y.f[1])] ELSE y

\* A conversion that has nothing to convert pushes the pointer it popped.
Repush(r) == LET p == Pop(r) IN PushEntry(p.r, StackedField(p.obj))

\* Mutant: the graphs of the deleted fields stay.
DeleteForwardsFieldsOnly(r, names) ==
  [DeleteAlways(r, {r.table[n] : n \in names} \ {NoObj}) EXCEPT
     !.table = [n \in Names |-> IF n \in names THEN NoObj ELSE r.table[n]]]

\* JumpNode::deleteForwards: deleteValue of each name.
DeleteForwards(r, names) ==
  LET objs == {r.table[n] : n \in names} \ {NoObj}
  IN [DeleteAlways(r, objs) EXCEPT
        !.table = [n \in Names |-> IF n \in names THEN NoObj ELSE r.table[n]],
        !.cache = [o \in Obj |-> IF o \in objs THEN NoValue ELSE r.cache[o]]]

MayThrow(node) == node.fn \notin {"nop", "timeoutput"} /\ node.kind # "spatial"

-------------------------------------------------------------------------------
(* The visitor *)

Init ==
  /\ prog \in DOMAIN Script /\ stepWise \in BOOLEAN
  /\ cur = 1 /\ time = 0 /\ allDone = FALSE /\ timeoutput = FALSE
  /\ rte = EmptyRte
  /\ out = << >> /\ spins = 0
  /\ env = [n \in Names |-> FileValue(n)]
  /\ status = "running"

\* The run visits a node: execAll goes on to the end of the list, setStep is
\* called while there is code left.  The last two conjuncts never fail, or
\* TLC reports a deadlock: no node pops more than there is, and Obj is large
\* enough for what one node allocates.
Visiting ==
  /\ status = "running" /\ cur # 0
  /\ stepWise => ~allDone
  /\ Len(rte.stack) >= Pops(Node)
  /\ Cardinality(Free(rte)) >= 4

Advance(takeBackBranch) == cur' = Succ(Code, cur, takeBackBranch)

VisitPar ==
  /\ Visiting /\ Node.op = "par"
  /\ rte' = PushEntry(rte, StackedValue(Node.name, IsLast(0)))
  /\ Advance(FALSE)
  /\ UNCHANGED <<run, time, allDone, timeoutput, out, spins, env, status>>

VisitNumber ==
  /\ Visiting /\ Node.op = "num"
  /\ LET new == New(rte, <<"number", << >> >>, FALSE)
     IN rte' = PushEntry(new.r, StackedField(new.obj))
  /\ Advance(FALSE)
  /\ UNCHANGED <<run, time, allDone, timeoutput, out, spins, env, status>>

VisitExpr ==
  /\ Visiting /\ Node.op = "expr" /\ Node.fn # "timeoutput"
  /\ rte' = IF Node.fn = "nop" THEN Repush(rte) ELSE PushResults(Ready(rte, Node))
  /\ Advance(FALSE)
  /\ UNCHANGED <<run, time, allDone, timeoutput, out, spins, env, status>>

\* The operation finds a missing value where none is allowed.
ThrowDomainError ==
  /\ Visiting /\ Node.op = "expr" /\ MayThrow(Node)
  /\ rte' = CleanOnException(CleanArguments(Ready(rte, Node)))
  /\ status' = "thrown"
  /\ UNCHANGED <<run, cur, time, allDone, timeoutput, out, spins, env>>

DeferTimeoutput ==
  /\ Visiting /\ Node.op = "expr" /\ Node.fn = "timeoutput"
  /\ timeoutput' = TRUE
  /\ Advance(FALSE)
  /\ UNCHANGED <<run, time, allDone, rte, out, spins, env, status>>

Written(r, k) ==
  IF Node.lhs[k] \in Node.report
  THEN << <<Node.lhs[k], time, Denotes(r, Top(r))>> >> ELSE << >>

VisitAss ==
  /\ Visiting /\ Node.op = "ass" /\ ~timeoutput
  /\ LET one == AssignStackTop(rte, Node.lhs[1], IsLast(1))
     IN IF Len(Node.lhs) = 1
        THEN /\ rte' = one
             /\ out' = out \o Written(rte, 1)
             /\ env' = [env EXCEPT ![Node.lhs[1]] = Denotes(rte, Top(rte))]
        ELSE /\ rte' = AssignStackTop(one, Node.lhs[2], IsLast(2))
             /\ out' = out \o Written(rte, 1) \o Written(one, 2)
             /\ env' = [env EXCEPT ![Node.lhs[1]] = Denotes(rte, Top(rte)),
                                   ![Node.lhs[2]] = Denotes(one, Top(one))]
  /\ Advance(FALSE)
  /\ UNCHANGED <<run, time, allDone, timeoutput, spins, status>>

\* assignOutTss: two DVAutoPtr's, the identifiers go before the expression.
AssignOutTss ==
  /\ Visiting /\ Node.op = "ass" /\ timeoutput
  /\ Len(rte.stack) >= 2
  /\ LET x == Arguments(rte, 2)
     IN /\ out' = Append(out, <<Node.lhs[1], time, <<"timeoutput", ArgValues(x)>> >>)
        /\ rte' = DeleteFromPcrme(DeleteFromPcrme(x.r, {x.f[1]}), {x.f[2]})
  /\ timeoutput' = FALSE
  /\ Advance(FALSE)
  /\ UNCHANGED <<run, time, allDone, spins, env, status>>

VisitStat ==
  /\ Visiting /\ Node.op = "stat"
  /\ timeoutput' = FALSE
  /\ Advance(FALSE)
  /\ UNCHANGED <<run, time, allDone, rte, out, spins, env, status>>

\* The condition of a repeat-until stays on the stack for the jump node.
VisitNonAssExpr ==
  /\ Visiting /\ Node.op = "nonass"
  /\ Advance(FALSE)
  /\ UNCHANGED <<run, time, allDone, timeoutput, rte, out, spins, env, status>>

\* Timer::increment at the entrance of the dynamic section.
VisitBlockEntrance ==
  /\ Visiting /\ Node.op = "enter"
  /\ time' = IF Node.kind # "dynamic" THEN time
             ELSE IF time = 0 THEN StartInt ELSE time + 1
  /\ Advance(FALSE)
  /\ UNCHANGED <<run, allDone, timeoutput, rte, out, spins, env, status>>

\* Mutant: values that were kept for the next iteration stay.
LeaveAll(r, takeBackBranch) == r

\* visitJumpNode, after the jumpOut method of the block.
Leave(r, takeBackBranch) ==
  IF takeBackBranch THEN r
  ELSE DeleteForwards(r, {n \in Names : <<Node.blk, n>> \in Script[prog].deletes})

\* Mutant: one time step too many.
OneStepMore == time <= LastInt

\* The timer has not reached its last time step.
TakeBackBranch == time < LastInt

JumpOutDynamicSection ==
  /\ Visiting /\ Node.op = "jump" /\ Node.kind = "dynamic"
  /\ allDone' = (allDone \/ ~TakeBackBranch)
  /\ rte' = Leave(rte, TakeBackBranch)
  /\ Advance(TakeBackBranch)
  /\ UNCHANGED <<run, time, timeoutput, out, spins, env, status>>

\* Mutant: no condition is true.
RepeatAlways == {TRUE}

\* The condition: the field decides, here any field may say either; a run in
\* which every loop ends repeats a limited number of times.
RepeatAgain == IF spins < MaxSpins THEN BOOLEAN ELSE {FALSE}

\* stackedCondition pops the condition; a DVAutoPtr deletes it.
JumpOutRepeatUntil ==
  /\ Visiting /\ Node.op = "jump" /\ Node.kind = "repeat"
  /\ Len(rte.stack) >= 1
  /\ LET p == Pop(rte)
         r == DeleteFromPcrme(p.r, {p.obj})
     IN \E again \in RepeatAgain :
          /\ spins' = IF again /\ spins < MaxSpins THEN spins + 1 ELSE spins
          /\ rte' = Leave(r, again)
          /\ Advance(again)
  /\ UNCHANGED <<run, time, allDone, timeoutput, out, env, status>>

JumpOutCode ==
  /\ Visiting /\ Node.op = "jump" /\ Node.kind = "code"
  /\ allDone' = TRUE
  /\ rte' = Leave(rte, FALSE)
  /\ Advance(FALSE)
  /\ UNCHANGED <<run, time, timeoutput, out, spins, env, status>>

(***************************************************************************)
(* ~Executor.  execAll and its exceptions lead here; in a stepwise run the *)
(* client may end it whenever a call has returned: after the initial       *)
(* section, that is once the dynamic section is entered, and after each    *)
(* time step.                                                              *)
(***************************************************************************)
AtClient ==
  \/ allDone
  \/ /\ time > 0 /\ cur > 1
     /\ Code[cur - 1].op = "enter" /\ Code[cur - 1].kind = "dynamic"

Destroy ==
  /\ \/ status = "thrown"
     \/ status = "running" /\ IF stepWise THEN AtClient ELSE cur = 0
  /\ rte' = Clean(CleanStack(rte))
  /\ status' = "closed"
  /\ UNCHANGED <<run, cur, time, allDone, timeoutput, out, spins, env>>

Closed == status = "closed" /\ UNCHANGED vars

Next ==
  \/ VisitPar \/ VisitNumber \/ VisitExpr \/ ThrowDomainError \/ DeferTimeoutput
  \/ VisitAss \/ AssignOutTss \/ VisitStat \/ VisitNonAssExpr
  \/ VisitBlockEntrance \/ JumpOutDynamicSection \/ JumpOutRepeatUntil
  \/ JumpOutCode \/ Destroy \/ Closed

(***************************************************************************)
(* The program runs on as long as it can.  Next is enabled in every state  *)
(* that is not closed, or TLC reports a deadlock; so this is WF_vars(Next) *)
(* without the ENABLED that TLC is slow to evaluate here.                  *)
(***************************************************************************)
Fairness == []<>(status = "closed") \/ []<><<TRUE>>_vars

Spec == Init /\ [][Next]_vars /\ Fairness

-------------------------------------------------------------------------------
(* Properties *)

TypeOK ==
  /\ prog \in DOMAIN Script /\ stepWise \in BOOLEAN
  /\ cur \in 0 .. Len(Code) /\ time \in Nat /\ spins \in 0 .. MaxSpins
  /\ allDone \in BOOLEAN /\ timeoutput \in BOOLEAN
  /\ status \in {"running", "thrown", "closed"}
  /\ RteTypeOK(rte)

(***************************************************************************)
(* No value is deleted twice, used after it was deleted, or freed through  *)
(* two owners, whatever operations are executed and wherever one fails.    *)
(***************************************************************************)
NoFaults == rte.faults = {}

(***************************************************************************)
(* Every value on the heap has exactly one owner: a name in the table,     *)
(* with readOnlyReference set, or one entry of the stack, without it.  A   *)
(* read-only value on the stack belongs to the table.  So nothing leaks.   *)
(***************************************************************************)
Ownership ==
  /\ \A n \in Names : rte.table[n] # NoObj => rte.ro[rte.table[n]]
  /\ \A m, n \in Names : m # n /\ rte.table[m] = rte.table[n] => rte.table[m] = NoObj
  /\ \A i \in DOMAIN rte.stack :
       LET o == rte.stack[i].obj IN
       o # NoObj => IF rte.ro[o] THEN o \in Tabled(rte)
                    ELSE /\ o \notin Tabled(rte)
                         /\ \A j \in DOMAIN rte.stack : j # i => rte.stack[j].obj # o
  /\ rte.live = Tabled(rte) \cup Stacked(rte)

(***************************************************************************)
(* calc::setLastUse: a computed value is discarded when it is no longer    *)
(* used.  A name has a value in the table only while some path from here   *)
(* still reads that value or, as the marks are those of all paths, every   *)
(* path replaces it; the condition of a loop is read when it is popped.    *)
(***************************************************************************)
HeldIsNeeded ==
  status = "running" =>
    \A n \in Names : rte.table[n] # NoObj =>
      \/ <<cur, n>> \in Script[prog].needed
      \/ \E i \in DOMAIN rte.stack : rte.stack[i] = StackedValue(n, TRUE)

(***************************************************************************)
(* RunTimeEnv::empty: "all data should be deleted at end of enclosing      *)
(* BasicBlock's, cache should be empty in normal cases".  The assertion of *)
(* execAll, and that neither an exception nor a destructor leaves a value. *)
(***************************************************************************)
NothingLeft == status # "running" => rte.live = {} /\ IsEmpty(rte)

FreedAtEnd ==
  /\ cur = 0 => IsEmpty(rte) /\ rte.stack = << >>
  /\ NothingLeft

\* A cached graph belongs to a value in the table and was made from it.
CacheFresh ==
  \A o \in Obj : rte.cache[o] # NoValue =>
    o \in Tabled(rte) /\ rte.cache[o] = rte.val[o]

(***************************************************************************)
(* DataValue::readOnlyReference: "true if this object can not be modified  *)
(* nor deleted since its value may be needed later".  A value that has the *)
(* flag and stays in the table, or in its entry of the stack, keeps its    *)
(* cells while other operands are overwritten in place.                    *)
(***************************************************************************)
ReadOnlyKept ==
  [][\A o \in rte.live :
       /\ rte.ro[o]
       /\ \/ o \in Tabled(rte) /\ o \in Tabled(rte')
          \/ \E i \in DOMAIN rte.stack \cap DOMAIN rte'.stack :
               rte.stack[i].obj = o /\ rte'.stack[i].obj = o
       => rte'.val[o] = rte.val[o]]_vars

(***************************************************************************)
(* The executor computes what the script says: every value on the stack,   *)
(* every report and every time series sample is the one that the naive     *)
(* interpreter computes, in the same order and at the same time step.      *)
(***************************************************************************)
ImplementsSemantics == Semantics!Spec

\* A run in which every loop ends, ends.
RunEnds == <>(status = "closed")
================================================================================
