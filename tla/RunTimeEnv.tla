------------------------------- MODULE RunTimeEnv ------------------------------
(***************************************************************************)
(* The runtime environment: the runtime stack, the table of values by      *)
(* name, the cache of objects derived from a value, and the heap of values *)
(* with their read-only flags.                                             *)
(*                                                                         *)
(* Who deletes a value is decided by flags and pointers alone: a value in  *)
(* the table has readOnlyReference set; its last use clears the flag and   *)
(* takes it out of the table, so that whoever popped it may overwrite or   *)
(* delete it.  The operators below do to one record r what the code does   *)
(* to d_rte and the heap.  A step with undefined behaviour is recorded in  *)
(* r.faults and goes on.                                                   *)
(*                                                                         *)
(* Values are terms <<function, arguments>>: two fields are equal when     *)
(* they were computed alike from the same inputs.                          *)
(***************************************************************************)
EXTENDS Naturals, Sequences, FiniteSets

CONSTANTS
  Names,         \* the symbols of the script that hold a field
  Obj,           \* addresses of values, positive numbers
  EnableCache    \* d_enableCache: the script runs with option m

ASSUME ObjAssumption == IsFiniteSet(Obj) /\ Obj \subseteq Nat \ {0}
ASSUME CacheAssumption == EnableCache \in BOOLEAN

NoObj   == 0                          \* a null pointer
NoValue == <<"nothing", << >> >>      \* an absent cache entry

\* What the file that is bound to a name holds before the run.
FileValue(n) == <<n, << >> >>

-------------------------------------------------------------------------------
(* The record *)

EmptyRte ==
  [stack  |-> << >>,                          \* d_stack
   table  |-> [n \in Names |-> NoObj],        \* d_data
   live   |-> {},                             \* allocated and not deleted
   ro     |-> [o \in Obj |-> FALSE],          \* DataValue::readOnlyReference
   val    |-> [o \in Obj |-> NoValue],        \* the cells of the field
   cache  |-> [o \in Obj |-> NoValue],        \* d_cache, by address
   faults |-> {}]

\* A stack entry: a StackedValue (obj = NoObj), read when popped, or a value.
StackedValue(n, lastUse) == [name |-> n, last |-> lastUse, obj |-> NoObj]
StackedField(o)          == [name |-> "", last |-> FALSE, obj |-> o]

Entries == [name : Names, last : BOOLEAN, obj : {NoObj}]
             \cup [name : {""}, last : {FALSE}, obj : Obj]

Faults == {"deleted twice", "used after delete", "graph deleted twice"}

RteTypeOK(r) ==
  /\ DOMAIN r = {"stack", "table", "live", "ro", "val", "cache", "faults"}
  /\ r.table \in [Names -> Obj \cup {NoObj}]
  /\ r.live \in SUBSET Obj
  /\ r.ro \in [Obj -> BOOLEAN]
  /\ r.stack \in Seq(Entries)
  /\ DOMAIN r.val = Obj /\ DOMAIN r.cache = Obj
  /\ r.faults \subseteq Faults

Fault(r, f) == [r EXCEPT !.faults = @ \cup {f}]

-------------------------------------------------------------------------------
(* The heap *)

Free(r)  == Obj \ r.live
Alloc(r) == CHOOSE o \in Free(r) : TRUE

\* A new value; the allocator may hand out an address used before.
New(r, v, readOnly) ==
  LET o == Alloc(r) IN
  [r |-> [r EXCEPT !.live = @ \cup {o}, !.ro[o] = readOnly, !.val[o] = v],
   obj |-> o]

\* deleteAlways for each member of S, a set of pointers.
DeleteAlways(r, S) ==
  [r EXCEPT !.live = @ \ S,
            !.faults = IF S \subseteq r.live THEN @ ELSE @ \cup {"deleted twice"}]

\* deleteFromPcrme for each member of S: values marked read-only stay.
DeleteFromPcrme(r, S) ==
  DeleteAlways(r, {o \in S : o \notin r.live \/ ~r.ro[o]})

SetReadOnly(r, o, b) == [r EXCEPT !.ro[o] = b]
SetTable(r, n, o)    == [r EXCEPT !.table[n] = o]
SetValue(r, o, v)    == [r EXCEPT !.val[o] = v]

-------------------------------------------------------------------------------
(* The stack and the table *)

\* Mutant: the last use takes the value out of the table and forgets the flag.
LoadStillReadOnly(r, n, lastUse) ==
  LET o == r.table[n] IN
  IF o # NoObj
  THEN [r |-> IF lastUse THEN SetTable(r, n, NoObj) ELSE r, obj |-> o]
  ELSE LET new == New(r, FileValue(n), ~lastUse)
       IN [r |-> IF lastUse THEN new.r ELSE SetTable(new.r, n, new.obj),
           obj |-> new.obj]

\* DTE::getOrReleaseValue and RunTimeEnv::load.
Load(r, n, lastUse) ==
  LET o == r.table[n] IN
  IF o # NoObj
  THEN [r |-> IF lastUse THEN SetTable(SetReadOnly(r, o, FALSE), n, NoObj) ELSE r,
        obj |-> o]
  ELSE LET new == New(r, FileValue(n), ~lastUse)
       IN [r |-> IF lastUse THEN new.r ELSE SetTable(new.r, n, new.obj),
           obj |-> new.obj]

PushEntry(r, e) == [r EXCEPT !.stack = Append(@, e)]

Top(r)  == r.stack[Len(r.stack)]
Drop(r) == [r EXCEPT !.stack = SubSeq(@, 1, Len(@) - 1)]

\* RunTimeStack::pop: a StackedValue is loaded now, not when it was pushed.
Pop(r) ==
  IF Top(r).obj = NoObj THEN Load(Drop(r), Top(r).name, Top(r).last)
  ELSE [r |-> IF Top(r).obj \in r.live THEN Drop(r)
              ELSE Fault(Drop(r), "used after delete"),
        obj |-> Top(r).obj]

DeleteCacheEntry(r, o) == [r EXCEPT !.cache[o] = NoValue]

\* RunTimeEnv::deleteValue.
DeleteValue(r, n) ==
  LET o == r.table[n] IN
  IF o = NoObj THEN r
  ELSE SetTable(DeleteAlways(DeleteCacheEntry(r, o), {o}), n, NoObj)

\* A value that somebody else owns is copied before it is changed.
OwnCopy(r, o) ==
  IF r.ro[o] THEN New(r, r.val[o], FALSE) ELSE [r |-> r, obj |-> o]

\* DTE::resetValue.
ResetValue(r, n, o) ==
  LET own == OwnCopy(r, o)
      old == r.table[n]
  IN IF own.obj = old THEN own.r
     ELSE LET marked == SetReadOnly(own.r, own.obj, TRUE)
              freed  == IF old = NoObj THEN marked ELSE DeleteAlways(marked, {old})
          IN SetTable(freed, n, own.obj)

(***************************************************************************)
(* RunTimeEnv::assignStackTop(par), without the report.  A value that is   *)
(* never used is not stored: the old value goes, and the field that was    *)
(* popped is left to its DVAutoPtr.                                        *)
(***************************************************************************)
AssignStackTop(r, n, lastUse) ==
  LET p == Pop(r) IN
  IF lastUse THEN DeleteFromPcrme(DeleteValue(p.r, n), {p.obj})
  ELSE ResetValue(p.r, n, p.obj)

\* Values that the table holds; anything else on the heap is on the stack.
Tabled(r) == {r.table[n] : n \in Names} \ {NoObj}

Stacked(r) ==
  {r.stack[i].obj : i \in DOMAIN r.stack} \ {NoObj}

\* ~RunTimeEnv: the values in the table, and the cache, whatever the flags.
Clean(r) ==
  [DeleteAlways(r, Tabled(r)) EXCEPT
     !.table = [n \in Names |-> NoObj], !.cache = [o \in Obj |-> NoValue]]

\* RunTimeStack::clean: entry by entry, nothing is loaded.
StackedTwice(r) ==
  \E i, j \in DOMAIN r.stack :
    /\ i # j /\ r.stack[i].obj = r.stack[j].obj
    /\ r.stack[i].obj # NoObj /\ ~r.ro[r.stack[i].obj]

CleanStack(r) ==
  LET d == [DeleteFromPcrme(r, Stacked(r)) EXCEPT !.stack = << >>]
  IN IF StackedTwice(r) THEN Fault(d, "deleted twice") ELSE d

\* Mutant: an exception leaves the stack as it is.
CleanTableOnly(r) == Clean(r)

CleanOnException(r) == Clean(CleanStack(r))

\* RunTimeEnv::empty.
IsEmpty(r) == Tabled(r) = {} /\ \A o \in Obj : r.cache[o] = NoValue

-------------------------------------------------------------------------------
(***************************************************************************)
(* ExecArguments: the operands of one operation, popped from the stack.    *)
(*   f    the operands, left to right (d_fields)                           *)
(*   res  the results (d_result)                                           *)
(*   at   the operand that is also the result (d_resultIsField), or 0      *)
(* An operation takes at most two operands here.                           *)
(***************************************************************************)
Arguments(r, k) ==
  CASE k = 0 -> [r |-> r, f |-> << >>, res |-> << >>, at |-> 0]
    [] k = 1 -> LET p == Pop(r)
                IN [r |-> p.r, f |-> <<p.obj>>, res |-> << >>, at |-> 0]
    [] k = 2 -> LET right == Pop(r)
                    left  == Pop(right.r)
                IN [r |-> left.r, f |-> <<left.obj, right.obj>>,
                    res |-> << >>, at |-> 0]

ArgValues(x) == [i \in DOMAIN x.f |-> x.r.val[x.f[i]]]

\* createResults: k new fields, k at most two.
CreateResults(x, k) ==
  LET a == New(x.r, NoValue, FALSE)
      b == New(a.r, NoValue, FALSE)
  IN IF k = 1 THEN [x EXCEPT !.r = a.r, !.res = <<a.obj>>]
     ELSE [x EXCEPT !.r = b.r, !.res = <<a.obj, b.obj>>]

\* Mutant: the result overwrites the operand, read-only or not.
SrcDestInPlace(x, i) == [x EXCEPT !.res = <<x.f[i]>>, !.at = i]

\* srcDest(i): operand i becomes the result, as a copy if it is read-only.
SrcDest(x, i) ==
  LET d == OwnCopy(x.r, x.f[i])
  IN [x EXCEPT !.r = d.r, !.f[i] = d.obj, !.res = <<d.obj>>, !.at = i]

Operands(x) == {x.f[i] : i \in DOMAIN x.f \ {x.at}}
Results(x)  == {x.res[i] : i \in DOMAIN x.res}

\* The operation has written the result cells.
Computed(x, vals) ==
  [x EXCEPT !.r.val =
     [o \in Obj |-> IF \E i \in DOMAIN x.res : x.res[i] = o
                    THEN vals[CHOOSE i \in DOMAIN x.res : x.res[i] = o]
                    ELSE @[o]]]

\* Mutant: the destructor does not spare a result that is an operand too.
PushAndDeleteAll(x) ==
  LET pushed == [x.r EXCEPT !.stack =
                   @ \o [i \in DOMAIN x.res |-> StackedField(x.res[i])]]
  IN DeleteFromPcrme(pushed, Operands(x))

\* pushResults, then ~ExecArguments: d_doNotDelete holds the results.
PushResults(x) ==
  LET pushed == [x.r EXCEPT !.stack =
                   @ \o [i \in DOMAIN x.res |-> StackedField(x.res[i])]]
  IN DeleteFromPcrme(pushed, Operands(x) \ Results(x))

(***************************************************************************)
(* ~ExecArguments when a DomainError passes: the operands go, then the     *)
(* results that were not pushed, which nothing in d_doNotDelete protects.  *)
(***************************************************************************)
CleanArguments(x) == DeleteFromPcrme(DeleteFromPcrme(x.r, Operands(x)), Results(x))

-------------------------------------------------------------------------------
(***************************************************************************)
(* ScopedCachedObject: the graph that is derived from the ldd field o.     *)
(* Its destructor either leaves the graph in the cache, as the ldd is used *)
(* again, or deletes the graph: through the cache entry and by its pointer.*)
(***************************************************************************)
GraphOf(r, o) == IF r.cache[o] # NoValue THEN r.cache[o] ELSE r.val[o]

LeaveGraph(r, o) ==
  IF r.ro[o]
  THEN IF EnableCache THEN [r EXCEPT !.cache[o] = GraphOf(r, o)] ELSE r
  ELSE IF r.cache[o] # NoValue
       THEN Fault(DeleteCacheEntry(r, o), "graph deleted twice")
       ELSE r
================================================================================
