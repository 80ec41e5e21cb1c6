----------------------------- MODULE ScriptSemantics ----------------------------
(***************************************************************************)
(* What running a script means: an interpreter that never frees, moves or  *)
(* overwrites a value.  Every name has its last assigned value, or what    *)
(* its file held at the start; expressions are evaluated on a stack of     *)
(* values; reports are written in order.  The Executor, which frees values *)
(* at their last use, overwrites operands in place and loads lazily, is    *)
(* shown to implement this.                                                *)
(***************************************************************************)
EXTENDS Cfg

CONSTANTS
  Names,          \* the symbols of the script that hold a field
  Programs,       \* the scripts: functions of records with a CFG as code
  StartInt,       \* first time step of the timer
  LastInt,        \* last time step of the timer, 0 without a timer
  MaxSpins        \* bound: how often a run repeats a repeat-until block

VARIABLES
  prog,           \* the script
  cur,            \* the node to execute next, 0 past the end
  time,           \* Timer::currentInt, 0 in the initial section
  spins,          \* repetitions of repeat-until blocks so far
  env,            \* the value of every name
  stack,          \* the values of the expression under evaluation
  out,            \* what was reported: <<name, time step, value>>
  status          \* "running", "thrown" or "closed"

vars == <<prog, cur, time, spins, env, stack, out, status>>

Code == Programs[prog].code
Node == Code[cur]

\* The value of an operator; a conversion to the type it has changes nothing.
Result(fn, args, i) ==
  IF fn = "nop" THEN args[1]
  ELSE IF fn = "two" THEN <<<<"first", "second">>[i], args>> ELSE <<fn, args>>

TopValues(s, k) == SubSeq(s, Len(s) - k + 1, Len(s))
Rest(s, k)      == SubSeq(s, 1, Len(s) - k)

\* timeoutput: evaluated by the assignment that follows it.
Defers(i) == i > 1 /\ Code[i - 1].op = "expr" /\ Code[i - 1].fn = "timeoutput"

\* The timer at the entrance of the dynamic section.
NextTime == IF time = 0 THEN StartInt ELSE time + 1

Continue(back) == cur' = Succ(Code, cur, back)

Init ==
  /\ prog \in DOMAIN Programs
  /\ cur = 1 /\ time = 0 /\ spins = 0
  /\ env = [n \in Names |-> <<n, << >> >>]
  /\ stack = << >> /\ out = << >> /\ status = "running"

Running == status = "running" /\ cur # 0

Nothing == Running /\ Node.op \in {"stat", "nonass"}
  /\ Continue(FALSE) /\ UNCHANGED <<prog, time, spins, env, stack, out, status>>

EnterBlock ==
  /\ Running /\ Node.op = "enter"
  /\ time' = IF Node.kind = "dynamic" THEN NextTime ELSE time
  /\ Continue(FALSE) /\ UNCHANGED <<prog, spins, env, stack, out, status>>

Read ==
  /\ Running /\ Node.op \in {"par", "num"}
  /\ stack' = Append(stack, IF Node.op = "par" THEN env[Node.name]
                            ELSE <<"number", << >> >>)
  /\ Continue(FALSE) /\ UNCHANGED <<prog, time, spins, env, out, status>>

Evaluate ==
  /\ Running /\ Node.op = "expr" /\ Node.fn # "timeoutput"
  /\ LET args == TopValues(stack, Node.k)
     IN stack' = Rest(stack, Node.k) \o [i \in 1 .. Node.r |-> Result(Node.fn, args, i)]
  /\ Continue(FALSE) /\ UNCHANGED <<prog, time, spins, env, out, status>>

Defer ==
  /\ Running /\ Node.op = "expr" /\ Node.fn = "timeoutput"
  /\ Continue(FALSE) /\ UNCHANGED <<prog, time, spins, env, stack, out, status>>

\* The value that parameter i on the left hand side, one of at most two, gets:
\* the stack top goes to the first.
Value(i) == stack[Len(stack) + 1 - i]

Assigned(n) ==
  IF n = Node.lhs[Len(Node.lhs)] THEN Value(Len(Node.lhs))
  ELSE IF n = Node.lhs[1] THEN Value(1) ELSE env[n]

Reported(i) ==
  IF Node.lhs[i] \in Node.report
  THEN << <<Node.lhs[i], time, Value(i)>> >> ELSE << >>

Assign ==
  /\ Running /\ Node.op = "ass" /\ ~Defers(cur)
  /\ env' = [n \in Names |-> Assigned(n)]
  /\ out' = IF Len(Node.lhs) = 1 THEN out \o Reported(1)
            ELSE out \o Reported(1) \o Reported(2)
  /\ stack' = Rest(stack, Len(Node.lhs))
  /\ Continue(FALSE) /\ UNCHANGED <<prog, time, spins, status>>

WriteTimeSeries ==
  /\ Running /\ Node.op = "ass" /\ Defers(cur)
  /\ out' = Append(out, <<Node.lhs[1], time, <<"timeoutput", TopValues(stack, 2)>> >>)
  /\ stack' = Rest(stack, 2)
  /\ Continue(FALSE) /\ UNCHANGED <<prog, time, spins, env, status>>

\* The dynamic section is repeated up to and including the last time step.
JumpDynamic ==
  /\ Running /\ Node.op = "jump" /\ Node.kind = "dynamic"
  /\ Continue(time < LastInt)
  /\ UNCHANGED <<prog, time, spins, env, stack, out, status>>

JumpRepeat ==
  /\ Running /\ Node.op = "jump" /\ Node.kind = "repeat"
  /\ stack' = Rest(stack, 1)
  /\ \E again \in BOOLEAN :
       /\ again => spins < MaxSpins
       /\ spins' = IF again THEN spins + 1 ELSE spins
       /\ Continue(again)
  /\ UNCHANGED <<prog, time, env, out, status>>

JumpCode ==
  /\ Running /\ Node.op = "jump" /\ Node.kind = "code"
  /\ Continue(FALSE) /\ UNCHANGED <<prog, time, spins, env, stack, out, status>>

\* A domain error of an operation ends the run; earlier reports stay.
Throw ==
  /\ Running /\ Node.op = "expr" /\ Node.fn \notin {"nop", "timeoutput"}
  /\ status' = "thrown" /\ stack' = << >>
  /\ UNCHANGED <<prog, cur, time, spins, env, out>>

\* The client destroys the run, which need not be complete.
Close ==
  /\ status \in {"running", "thrown"}
  /\ status' = "closed" /\ stack' = << >>
  /\ UNCHANGED <<prog, cur, time, spins, env, out>>

Next ==
  \/ Nothing \/ EnterBlock \/ Read \/ Evaluate \/ Defer \/ Assign
  \/ WriteTimeSeries \/ JumpDynamic \/ JumpRepeat \/ JumpCode \/ Throw \/ Close

Spec == Init /\ [][Next]_vars
================================================================================
