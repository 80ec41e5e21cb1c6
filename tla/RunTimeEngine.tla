------------------------------ MODULE RunTimeEngine ----------------------------
(***************************************************************************)
(* The engine behind the Python extension.  A Python operation pushes its  *)
(* arguments on the stack of a global RunTimeEngine, lets an operator      *)
(* check and execute them, and pops the result.  The fields that Python    *)
(* holds are pushed as they are: two flags, pcrmeManaged and               *)
(* readOnlyReference, tell the engine that it may neither delete nor       *)
(* change them.                                                            *)
(*                                                                         *)
(* Python deletes a field when its last reference goes, also when the      *)
(* stack still points to it.  What the fields contain is a term, cells,    *)
(* with a set of value scales; a literal has all scales that it fits in,   *)
(* until an operator asks for one.                                         *)
(***************************************************************************)
EXTENDS Naturals, Sequences, FiniteSets

CONSTANTS
  Obj,            \* addresses of fields, names of tables and tables
  NoObj,          \* a null pointer
  NoneObj,        \* the static object that stands for None
  NotAField,      \* an argument that pushField does not accept
  Dangling,       \* on the stack: a pointer to an object that is no more
  Operators,      \* the operators that the program calls
  ReadScales,     \* value scales of the maps that it reads
  MaxMaps, MaxCalls, MaxClones     \* bounds on what the program does

ASSUME EngineAssumption ==
  /\ NoneObj \in Obj /\ {NoObj, NotAField, Dangling} \cap Obj = {}
  /\ Operators \subseteq {"abs", "badd", "cover", "nominal", "ordinal", "scalar", "lookup"}

VARIABLES
  heap,      \* address -> object
  stack,     \* RunTimeStack::d_stack
  table,     \* the lookup table in RunTimeEnv::d_data, or NoObj
  space,     \* number of the clone, whose size spatial fields must have
  py,        \* the fields that the Python program refers to
  call,      \* the operation in progress
  nr         \* how many maps were read and operations called

vars == <<heap, stack, table, space, py, call, nr>>

-------------------------------------------------------------------------------
(* Objects *)

Scales == {"N", "O", "S"}

Object(kind, cells, vs, size) ==
  [kind |-> kind, cells |-> cells, vs |-> vs, size |-> size,
   managed |-> TRUE, ro |-> FALSE]

Free == Object("free", << >>, {}, 0)

\* A field without size is non-spatial.
Literal == Object("field", <<"literal">>, Scales, 0)
TableId == Object("id", << >>, {}, 0)

Live   == {o \in Obj : heap[o].kind # "free"}
New(h) == CHOOSE o \in Obj : h[o].kind = "free"

\* The operating system gives memory as long as there is some.
Room   == Live # Obj

\* No copy.
SameObject(h, o) == [h |-> h, obj |-> o]

\* createClone: the flags are those of a new object.
Clone(h, o) ==
  LET n == New(h) IN
  [h |-> [h EXCEPT ![n] = Object(h[o].kind, h[o].cells, h[o].vs, h[o].size)], obj |-> n]

\* Mutant: what the engine owns is deleted although it is still used.
DeleteManaged(h, S) ==
  [o \in Obj |-> IF o \notin S THEN h[o]
                 ELSE IF ~h[o].managed THEN [h[o] EXCEPT !.ro = FALSE] ELSE Free]

\* deleteFromPcrme for each member of S.
DeleteFromPcrme(h, S) ==
  [o \in Obj |-> IF o \notin S THEN h[o]
                 ELSE IF ~h[o].managed THEN [h[o] EXCEPT !.ro = FALSE]
                 ELSE IF h[o].ro THEN h[o] ELSE Free]

-------------------------------------------------------------------------------
(* Operators: value scales and cells of results *)

Arity(op) == IF op \in {"badd", "cover", "lookup"} THEN 2 ELSE 1

Target(op) == CASE op = "nominal" -> "N" [] op = "ordinal" -> "O" [] OTHER -> "S"

IsConversion(op) == op \in {"nominal", "ordinal", "scalar"}

\* The scales that the arguments x (objects) get; for cover they are equal.
ArgScales(op, x) ==
  [i \in DOMAIN x |->
    CASE op \in {"abs", "badd"} -> x[i].vs \cap {"S"}
      [] op = "cover" -> x[1].vs \cap x[2].vs
      [] OTHER -> x[i].vs]

ResultScales(op, x) ==
  CASE op \in {"abs", "badd"} -> {"S"}
    [] op = "cover" -> ArgScales(op, x)[1]
    [] op = "lookup" -> {"N"}
    [] OTHER -> {Target(op)}

BiggestVs(vs) == IF "S" \in vs THEN "S" ELSE IF "O" \in vs THEN "O" ELSE "N"

\* The entry OP_NOP in the table of conversions.
IsNop(op, f) ==
  LET from == BiggestVs(f.vs) IN
  from = Target(op) \/ {from, Target(op)} = {"N", "O"}

CellsOf(op, x) ==
  IF IsConversion(op) /\ IsNop(op, x[1]) THEN x[1].cells
  ELSE <<op, [i \in DOMAIN x |-> x[i].cells]>>

SizeOf(x) == IF \E i \in DOMAIN x : x[i].size # 0
             THEN x[CHOOSE i \in DOMAIN x : x[i].size # 0].size ELSE 0

FieldsOf(op, x) == IF op = "lookup" THEN Tail(x) ELSE x

Result(op, x) ==
  Object("field", CellsOf(op, FieldsOf(op, x)), ResultScales(op, FieldsOf(op, x)),
         SizeOf(FieldsOf(op, x)))

Value(x)     == [cells |-> x.cells, vs |-> x.vs, size |-> x.size]
NoResult     == Value(Free)

\* The arguments of one execution are accepted; one scale is left for the result.
Accepted(op, x) ==
  LET f == FieldsOf(op, x) IN
  /\ \A i \in DOMAIN f : f[i].size \in {0, space} /\ ArgScales(op, f)[i] # {}
  /\ Cardinality(ResultScales(op, f)) = 1

ResultOf(op, x) == IF Accepted(op, x) THEN Result(op, x) ELSE Free

\* What a call has to give: cover takes its arguments two by two.
Meaning(op, x) ==
  IF Len(x) = 3 THEN Value(ResultOf(op, <<ResultOf(op, <<x[1], x[2]>>), x[3]>>))
  ELSE Value(ResultOf(op, x))

-------------------------------------------------------------------------------
(* The program *)

Idle == [phase |-> "idle", op |-> "", args |-> << >>, rest |-> << >>, meant |-> NoResult]

Init ==
  /\ heap = [o \in Obj |-> IF o = NoneObj THEN Object("none", << >>, {}, 0) ELSE Free]
  /\ stack = << >> /\ table = NoObj
  /\ space = 1
  /\ py = [vars |-> {NoneObj}, frames |-> {}]
  /\ call = Idle
  /\ nr = [maps |-> 0, calls |-> 0]

IsIdle     == call.phase = "idle"
InProgress == call.phase \notin {"idle", "undefined"}
In(s)      == {s[i] : i \in DOMAIN s}
Maps       == py.vars \ {NoneObj}
Tabled     == {table} \ {NoObj}

\* Python deletes the fields that it does not refer to any more; what the
\* stack still points to is not asked.
Deleted(h, S)      == [o \in Obj |-> IF o \in S THEN Free ELSE h[o]]
Invalidated(st, S) == [i \in DOMAIN st |-> IF st[i] \in S THEN Dangling ELSE st[i]]

\* A map of any size can be read.
ReadMap ==
  /\ IsIdle /\ nr.maps < MaxMaps /\ Room
  /\ \E s \in ReadScales, z \in 1..MaxClones :
       LET o == New(heap) IN
       /\ heap' = [heap EXCEPT ![o] = Object("field", <<"map", nr.maps>>, {s}, z)]
       /\ py' = [py EXCEPT !.vars = @ \cup {o}]
  /\ nr' = [nr EXCEPT !.maps = @ + 1]
  /\ UNCHANGED <<stack, table, space, call>>

\* The last reference to a field goes.
Forget ==
  /\ IsIdle
  /\ \E o \in Maps :
       /\ heap' = Deleted(heap, {o})
       /\ stack' = Invalidated(stack, {o})
       /\ py' = [py EXCEPT !.vars = @ \ {o}]
  /\ UNCHANGED <<table, space, call, nr>>

(***************************************************************************)
(* An operation is called.  A number among its arguments becomes a field,  *)
(* and the name of a table an identifier, which only its frame refers to.  *)
(* Cover takes any number of arguments, two by two: rest are those after   *)
(* the second.                                                             *)
(***************************************************************************)
Called(op, args, rest, h, temps) ==
  LET all == args \o rest IN
  /\ heap' = h
  /\ py' = [py EXCEPT !.frames = @ \cup temps]
  /\ call' = [phase |-> "push", op |-> op, args |-> args, rest |-> rest,
              meant |-> IF NotAField \in In(all) THEN NoResult
                        ELSE Meaning(op, [i \in DOMAIN all |-> h[all[i]]])]
  /\ nr' = [nr EXCEPT !.calls = @ + 1]
  /\ UNCHANGED <<stack, table, space>>

Arguments == py.vars \cup {NotAField}

CallWithFields(op) ==
  \E args \in [1..Arity(op) -> Arguments] : Called(op, args, << >>, heap, {})

CallWithNumber(op) ==
  LET n == New(heap) IN
  /\ Room
  /\ \E i \in 1..Arity(op), o \in py.vars :
       Called(op, [j \in 1..Arity(op) |-> IF i = j THEN n ELSE o], << >>,
              [heap EXCEPT ![n] = Literal], {n})

CallCover ==
  \E a, b, c \in Maps : Called("cover", <<a, b>>, <<c>>, heap, {})

CallLookup ==
  LET n == New(heap) IN
  /\ Room
  /\ \E o \in py.vars :
       Called("lookup", <<n, o>>, << >>, [heap EXCEPT ![n] = TableId], {n})

Call ==
  /\ IsIdle /\ nr.calls < MaxCalls
  /\ \/ \E op \in Operators \ {"lookup"} : CallWithFields(op) \/ CallWithNumber(op)
     \/ "cover" \in Operators /\ CallCover
     \/ "lookup" \in Operators /\ CallLookup

\* The frame of the call goes, and with it what only it referred to; st is
\* what the engine leaves on its stack.
Leave(h, st, named) ==
  /\ heap' = Deleted(h, py.frames)
  /\ stack' = Invalidated(st, py.frames)
  /\ py' = [vars |-> named, frames |-> {}]
  /\ call' = Idle

Raise(h, st) == Leave(h, st, py.vars) /\ UNCHANGED <<table, space, nr>>

-------------------------------------------------------------------------------
(* RunTimeEngine *)

\* Mutant: the field may be changed.
PushWritable(o) ==
  /\ heap' = [heap EXCEPT ![o].managed = FALSE]
  /\ stack' = Append(stack, o)

PushUnmanaged(o) ==
  /\ heap' = [heap EXCEPT ![o].managed = FALSE, ![o].ro = TRUE]
  /\ stack' = Append(stack, o)

\* The operation pushes its arguments one by one; an exception leaves those
\* that were pushed on the stack.
PushArgument ==
  LET o == Head(call.args) IN
  /\ call.phase = "push"
  /\ IF o = NotAField THEN Raise(heap, stack)
     ELSE /\ PushUnmanaged(o)
          /\ call' = [call EXCEPT !.args = Tail(@),
                                  !.phase = IF Tail(call.args) = << >> THEN "check" ELSE @]
          /\ UNCHANGED <<table, space, py, nr>>

\* What is below the arguments of the operation, the arguments, and the
\* values of those that are fields.
Base     == SubSeq(stack, 1, Len(stack) - Arity(call.op))
Top      == SubSeq(stack, Len(Base) + 1, Len(stack))
Fields   == FieldsOf(call.op, Top)
Operands == [i \in DOMAIN Fields |-> heap[Fields[i]]]

(***************************************************************************)
(* RtTypeCheck.  The arguments are popped from the last to the first until *)
(* one has another number of cells than the clone; on an exception those   *)
(* that were popped are given back.                                        *)
(***************************************************************************)
Mismatched == {i \in DOMAIN Top : heap[Top[i]].size \notin {0, space}}

KeysFit == (call.op = "lookup" /\ table # NoObj) => heap[table].vs \cap Operands[1].vs # {}

WellTyped == Accepted(call.op, [i \in DOMAIN Top |-> heap[Top[i]]]) /\ KeysFit

Rejected ==
  LET first == IF Mismatched = {} THEN 1
               ELSE CHOOSE i \in Mismatched : \A j \in Mismatched : j <= i
  IN /\ call.phase = "check" /\ ~WellTyped
     /\ Raise(DeleteFromPcrme(heap, In(SubSeq(Top, first, Len(Top)))),
              Base \o SubSeq(Top, 1, first - 1))

\* A table that was not used before is read, which may fail.
LoadFails ==
  /\ call.phase = "check" /\ WellTyped /\ call.op = "lookup" /\ table = NoObj
  /\ Raise(DeleteFromPcrme(heap, In(Top)), Base)

\* The arguments get the scales that the operator allows.
Narrowed(h) ==
  LET vs == ArgScales(call.op, Operands) IN
  [o \in Obj |-> IF o \in In(Fields)
                 THEN [h[o] EXCEPT !.vs = vs[CHOOSE i \in DOMAIN Fields : Fields[i] = o]]
                 ELSE h[o]]

\* The name of the table is replaced by the table.
LoadTable ==
  /\ call.op = "lookup"
  /\ LET t == IF table = NoObj THEN New(heap) ELSE table
         h == IF table # NoObj THEN heap
              ELSE [heap EXCEPT ![t] = [Object("table", << >>, Operands[1].vs, 0) EXCEPT !.ro = TRUE]]
     IN /\ heap' = Narrowed(DeleteFromPcrme(h, {Top[1]}))
        /\ table' = t
        /\ stack' = Base \o <<t>> \o Fields

Checked ==
  /\ call.phase = "check" /\ WellTyped /\ Room
  /\ \/ LoadTable
     \/ call.op # "lookup" /\ heap' = Narrowed(heap) /\ UNCHANGED <<table, stack>>
  /\ call' = [call EXCEPT !.phase = "exec"]
  /\ UNCHANGED <<space, py, nr>>

-------------------------------------------------------------------------------
(* Execution *)

\* The operand that is overwritten with the result.
DestArg(x) ==
  IF Len(x) = 1 THEN 1
  ELSE IF x[1].size = 0 /\ x[2].size # 0 THEN 2
  ELSE IF x[1].size # 0 /\ x[2].size = 0 THEN 1
  ELSE IF call.op = "badd" /\ x[1].ro THEN 2 ELSE 1

InPlace == call.op \in {"abs", "badd", "cover"}

\* The result object before the operator writes it.
Destination ==
  IF InPlace THEN
    LET d == Fields[DestArg(Operands)] IN
    IF heap[d].ro THEN Clone(heap, d) ELSE SameObject(heap, d)
  ELSE [h |-> [heap EXCEPT ![New(heap)] = Result(call.op, [i \in DOMAIN Top |-> heap[Top[i]]])],
        obj |-> New(heap)]

Written ==
  LET d == Destination
      r == Result(call.op, [i \in DOMAIN Top |-> heap[Top[i]]])
  IN [h |-> [d.h EXCEPT ![d.obj].cells = r.cells, ![d.obj].vs = r.vs], obj |-> d.obj]

Nop == IsConversion(call.op) /\ IsNop(call.op, Operands[1])

Execute ==
  /\ call.phase = "exec" /\ ~Nop /\ Room
  /\ heap' = DeleteFromPcrme(Written.h, In(Top) \ {Written.obj})
  /\ stack' = Append(Base, Written.obj)
  /\ call' = [call EXCEPT !.phase = "pop"]
  /\ UNCHANGED <<table, space, py, nr>>

\* A result without size that is a missing value.
DomainError ==
  /\ call.phase = "exec" /\ ~Nop /\ Room
  /\ Written.h[Written.obj].size = 0
  /\ Raise(DeleteFromPcrme(Written.h, In(Top) \cup {Written.obj}), Base)

\* A conversion that leaves the cells as they are is done on the operand.
Convert ==
  /\ call.phase = "exec" /\ Nop
  /\ heap' = [heap EXCEPT ![Top[1]].vs = {Target(call.op)}]
  /\ call' = [call EXCEPT !.phase = "pop"]
  /\ UNCHANGED <<stack, table, space, py, nr>>

\* Mutant: the flag of the field that was pushed is not reset.
ReleaseLocked(o) ==
  IF ~heap[o].managed THEN Clone(heap, o)
  ELSE [h |-> [heap EXCEPT ![o].managed = FALSE], obj |-> o]

Release(o) ==
  LET c == IF ~heap[o].managed THEN Clone([heap EXCEPT ![o].ro = FALSE], o)
           ELSE IF heap[o].ro THEN Clone(heap, o) ELSE SameObject(heap, o)
  IN IF heap[o].managed THEN [c EXCEPT !.h[c.obj].ro = FALSE, !.h[c.obj].managed = FALSE]
     ELSE c

\* The result is popped; cover goes on with it and the next argument.
ReleasePop ==
  LET r     == Release(stack[Len(stack)])
      below == SubSeq(stack, 1, Len(stack) - 1)
  IN
  /\ call.phase = "pop" /\ Room
  /\ IF call.rest = << >>
     THEN Leave(r.h, below, py.vars \cup {r.obj})
     ELSE /\ heap' = r.h
          /\ stack' = below
          /\ py' = [py EXCEPT !.frames = @ \cup {r.obj}]
          /\ call' = [call EXCEPT !.phase = "push", !.args = <<r.obj, Head(call.rest)>>,
                                  !.rest = Tail(@)]
  /\ UNCHANGED <<table, space, nr>>

\* A new clone: another RunTimeEngine.  The destructor of the old one reads
\* the flags of everything on the stack; when that is no more, anything may
\* follow, and the model says nothing of it.
SetClone ==
  /\ IsIdle /\ space < MaxClones
  /\ IF Dangling \in In(stack)
     THEN /\ call' = [call EXCEPT !.phase = "undefined"]
          /\ UNCHANGED <<heap, stack, table, space>>
     ELSE /\ heap' = Deleted(DeleteFromPcrme(heap, In(stack)), Tabled)
          /\ stack' = << >> /\ table' = NoObj
          /\ space' = space + 1
          /\ UNCHANGED call
  /\ UNCHANGED <<py, nr>>

Next ==
  \/ ReadMap \/ Forget \/ Call \/ SetClone
  \/ PushArgument \/ Rejected \/ LoadFails \/ Checked
  \/ Execute \/ DomainError \/ Convert \/ ReleasePop

Spec == Init /\ [][Next]_vars

-------------------------------------------------------------------------------
(* Properties *)

\* Every object has one owner: the program, the table of the engine, or the
\* stack between the execution of an operation and the release of its result.
\* The engine leaves nothing behind and deletes nothing that its stack points
\* to (deleteFromPcrme and releasePopField decide by the flags of an object),
\* and what an operation is about to use is there.
OneOwner ==
  LET result == IF call.phase = "pop" THEN {stack[Len(stack)]} ELSE {} IN
  /\ Live = py.vars \cup py.frames \cup Tabled \cup result
  /\ Tabled \cap (py.vars \cup py.frames) = {}
  /\ In(stack) \subseteq Live \cup {Dangling}
  /\ call.phase \in {"check", "exec"} => In(Top) \subseteq Live

\* "The callee must garantuee that the object is alive during its lifetime":
\* the destructor of the stack reads only objects that are there.
CleanReadsAlive == [][SetClone => In(stack) \subseteq Live]_vars

\* "outside pcrme readOnlyReference is always false" (deleteFromPcrme): a field
\* of the program is locked only as long as it is on the stack.
OutsideNotReadOnly ==
  \A o \in py.vars \cup py.frames : heap[o].ro => o \in In(stack)

\* Python's fields are values: an operation gives what was asked for from the
\* values that its operands had at the call, or raises, and changes no other.
ValuesOf(S) == [o \in S |-> Value(heap[o])]

Pure == INSTANCE PureOperations WITH
  held    <- ValuesOf(Maps),
  request <- IF InProgress THEN <<call.meant>> ELSE << >>

ImplementsPure == Pure!Spec

\* "push a pointer of an object to the stack that is garantueed not to be
\* modified": no operation changes a field that the program has.
NotModified ==
  [][\A o \in Maps \cap Maps' : Value(heap'[o]) = Value(heap[o])]_vars
================================================================================
