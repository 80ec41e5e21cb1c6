----------------------------- MODULE ExecutorProofs ----------------------------
(***************************************************************************)
(* The types and the ownership of values, for every set of scripts, names  *)
(* and addresses.                                                          *)
(*                                                                         *)
(* Types: every step of the executor keeps them.  What is not obvious is   *)
(* that an assignment assigns fields, unless a deferred operator is        *)
(* pending.  First comes what the operations on the runtime environment do *)
(* to its types, for every state of the heap, and how many values they     *)
(* allocate.                                                               *)
(*                                                                         *)
(* Ownership, for every script that converts no name to the type that its  *)
(* value has: every value on the heap has one owner, nothing is left after *)
(* a run, and no value that a name keeps is overwritten; and where the     *)
(* marks of the last uses agree with the operators that take them, nothing *)
(* is deleted twice or used after it was deleted.  While an operation      *)
(* runs, values are held by neither the table nor the stack: they are      *)
(* loose.  The lemmas say which values an operation on the environment     *)
(* makes loose, and that the others keep their owner.                      *)
(***************************************************************************)
EXTENDS Marks, FiniteSetTheorems, SequenceTheorems, TLAPS

-------------------------------------------------------------------------------
(* The heap *)

\* The null pointer is not an address.
LEMMA NullIsFree == NoObj \notin Obj
  BY ObjAssumption DEF NoObj

\* A run starts with an environment of the right types.
LEMMA EmptyRteType == RteTypeOK(EmptyRte)
  BY DEF RteTypeOK, EmptyRte

\* The allocator returns an address that is not in use.
LEMMA AllocType ==
  ASSUME NEW r, Free(r) # {}
  PROVE  Alloc(r) \in Obj \ r.live
  BY DEF Alloc, Free

\* A new value has an address that was not in use; nothing else changes.
LEMMA NewType ==
  ASSUME NEW r, RteTypeOK(r), Free(r) # {}, NEW v, NEW b \in BOOLEAN
  PROVE  LET n == New(r, v, b) IN
         /\ RteTypeOK(n.r)
         /\ n.obj \in Obj \ r.live
         /\ n.r.live = r.live \cup {n.obj}
         /\ n.r.ro = [r.ro EXCEPT ![n.obj] = b]
         /\ n.r.stack = r.stack /\ n.r.table = r.table
<1> DEFINE o == Alloc(r)
           s == [r EXCEPT !.live = @ \cup {o}, !.ro[o] = b, !.val[o] = v]
<1>1. o \in Obj \ r.live
  BY AllocType
<1>2. New(r, v, b) = [r |-> s, obj |-> o]
  BY DEF New
<1>3. /\ DOMAIN s = DOMAIN r
      /\ s.live = r.live \cup {o} /\ s.ro = [r.ro EXCEPT ![o] = b]
      /\ s.val = [r.val EXCEPT ![o] = v] /\ s.cache = r.cache
      /\ s.stack = r.stack /\ s.table = r.table /\ s.faults = r.faults
  BY DEF RteTypeOK
<1> HIDE DEF o, s
<1>4. RteTypeOK(s)
  BY <1>1, <1>3 DEF RteTypeOK
<1>5. QED
  BY <1>1, <1>2, <1>3, <1>4

\* deleteAlways touches the heap only.
LEMMA DeleteAlwaysType ==
  ASSUME NEW r, RteTypeOK(r), NEW S
  PROVE  LET d == DeleteAlways(r, S) IN
         /\ RteTypeOK(d)
         /\ d.live = r.live \ S
         /\ d.ro = r.ro /\ d.stack = r.stack /\ d.table = r.table
         /\ d.cache = r.cache
<1> DEFINE F == IF S \subseteq r.live THEN r.faults
                ELSE r.faults \cup {"deleted twice"}
           d == [r EXCEPT !.live = @ \ S, !.faults = F]
<1>1. DeleteAlways(r, S) = d
  BY DEF DeleteAlways, RteTypeOK
<1>2. F \subseteq Faults
  BY DEF RteTypeOK, Faults
<1> HIDE DEF F
<1>3. /\ DOMAIN d = DOMAIN r
      /\ d.live = r.live \ S /\ d.faults = F
      /\ d.ro = r.ro /\ d.stack = r.stack /\ d.table = r.table
      /\ d.val = r.val /\ d.cache = r.cache
  BY DEF RteTypeOK
<1> HIDE DEF d
<1>4. RteTypeOK(d)
  BY <1>2, <1>3 DEF RteTypeOK
<1>5. QED
  BY <1>1, <1>3, <1>4

\* Of the values in S, the read-only ones stay.
LEMMA DeleteFromPcrmeType ==
  ASSUME NEW r, RteTypeOK(r), NEW S
  PROVE  LET d == DeleteFromPcrme(r, S) IN
         /\ RteTypeOK(d)
         /\ d.live = {o \in r.live : o \notin S \/ r.ro[o]}
         /\ d.ro = r.ro /\ d.stack = r.stack /\ d.table = r.table
         /\ d.cache = r.cache
<1> DEFINE gone == {o \in S : o \notin r.live \/ ~r.ro[o]}
<1>1. DeleteFromPcrme(r, S) = DeleteAlways(r, gone)
  BY DEF DeleteFromPcrme
<1>2. r.live \ gone = {o \in r.live : o \notin S \/ r.ro[o]}
  OBVIOUS
<1> HIDE DEF gone
<1>3. QED
  BY <1>1, <1>2, DeleteAlwaysType

\* Marking a value changes its flag only.
LEMMA SetReadOnlyType ==
  ASSUME NEW r, RteTypeOK(r), NEW o \in Obj, NEW b \in BOOLEAN
  PROVE  LET s == SetReadOnly(r, o, b) IN
         /\ RteTypeOK(s)
         /\ s.ro = [r.ro EXCEPT ![o] = b]
         /\ s.live = r.live /\ s.stack = r.stack /\ s.table = r.table
         /\ s.cache = r.cache
<1> DEFINE s == [r EXCEPT !.ro[o] = b]
<1>1. /\ DOMAIN s = DOMAIN r
      /\ s.ro = [r.ro EXCEPT ![o] = b] /\ s.live = r.live
      /\ s.stack = r.stack /\ s.table = r.table /\ s.faults = r.faults
      /\ s.val = r.val /\ s.cache = r.cache
  BY DEF RteTypeOK
<1> HIDE DEF s
<1>2. RteTypeOK(s)
  BY <1>1 DEF RteTypeOK
<1>3. SetReadOnly(r, o, b) = s
  BY DEF SetReadOnly, s
<1>4. QED
  BY <1>1, <1>2, <1>3

\* Giving a name a value changes that row of the table only.
LEMMA SetTableType ==
  ASSUME NEW r, RteTypeOK(r), NEW n \in Names, NEW o \in Obj \cup {NoObj}
  PROVE  LET s == SetTable(r, n, o) IN
         /\ RteTypeOK(s)
         /\ s.table = [r.table EXCEPT ![n] = o]
         /\ s.live = r.live /\ s.stack = r.stack /\ s.ro = r.ro
         /\ s.cache = r.cache
<1> DEFINE s == [r EXCEPT !.table[n] = o]
<1>1. /\ DOMAIN s = DOMAIN r
      /\ s.table = [r.table EXCEPT ![n] = o] /\ s.live = r.live
      /\ s.stack = r.stack /\ s.ro = r.ro /\ s.faults = r.faults
      /\ s.val = r.val /\ s.cache = r.cache
  BY DEF RteTypeOK
<1> HIDE DEF s
<1>2. RteTypeOK(s)
  BY <1>1 DEF RteTypeOK
<1>3. SetTable(r, n, o) = s
  BY DEF SetTable, s
<1>4. QED
  BY <1>1, <1>2, <1>3

-------------------------------------------------------------------------------
(* Types: the stack and the table *)

\* A row of the table is an address or null.
LEMMA TableType ==
  ASSUME NEW r, RteTypeOK(r), NEW n \in Names
  PROVE  r.table[n] \in Obj \cup {NoObj}
  BY DEF RteTypeOK

\* A value that is loaded, or read from its file, is at most one new value.
LEMMA LoadType ==
  ASSUME NEW r, RteTypeOK(r), Free(r) # {}, NEW n \in Names, NEW lastUse \in BOOLEAN
  PROVE  LET p == Load(r, n, lastUse) IN
         /\ RteTypeOK(p.r)
         /\ p.obj \in Obj
         /\ p.r.stack = r.stack
         /\ p.r.live \subseteq r.live \cup {p.obj}
<1> DEFINE o == r.table[n]
           p == Load(r, n, lastUse)
<1>1. CASE o # NoObj
  <2>1. o \in Obj
    BY <1>1, TableType
  <2> DEFINE s == SetReadOnly(r, o, FALSE)
             t == SetTable(s, n, NoObj)
  <2>2. RteTypeOK(s) /\ s.stack = r.stack /\ s.live = r.live
    BY <2>1, SetReadOnlyType
  <2>3. CASE lastUse
    <3>1. p = [r |-> t, obj |-> o]
      BY <1>1, <2>3 DEF Load
    <3> HIDE DEF p, s, o, t
    <3>2. /\ RteTypeOK(SetTable(s, n, NoObj))
          /\ SetTable(s, n, NoObj).stack = s.stack
          /\ SetTable(s, n, NoObj).live = s.live
      <4>1. NoObj \in Obj \cup {NoObj}
        OBVIOUS
      <4>2. QED
        BY <2>2, <4>1, SetTableType, Zenon
    <3>3. RteTypeOK(p.r) /\ p.obj \in Obj /\ p.r.stack = r.stack /\ p.r.live = r.live
      BY <2>1, <2>2, <3>1, <3>2 DEF t
    <3>4. QED
      BY <3>3 DEF p
  <2>4. CASE ~lastUse
    BY <1>1, <2>1, <2>4 DEF Load
  <2>5. QED
    BY <2>3, <2>4
<1>2. CASE o = NoObj
  <2> DEFINE new == New(r, FileValue(n), ~lastUse)
             t   == SetTable(new.r, n, new.obj)
  <2>1. /\ RteTypeOK(new.r) /\ new.obj \in Obj
        /\ new.r.live = r.live \cup {new.obj} /\ new.r.stack = r.stack
    BY NewType
  <2>2. CASE lastUse
    BY <1>2, <2>1, <2>2 DEF Load
  <2>3. CASE ~lastUse
    <3>1. p = [r |-> t, obj |-> new.obj]
      BY <1>2, <2>3 DEF Load
    <3> HIDE DEF new, p
    <3>2. new.obj \in Obj \cup {NoObj}
      BY <2>1
    <3> DEFINE s == new.r
               u == new.obj
    <3> HIDE DEF t, s, u
    <3>3. /\ RteTypeOK(SetTable(s, n, u))
          /\ SetTable(s, n, u).stack = s.stack
          /\ SetTable(s, n, u).live = s.live
      <4>1. RteTypeOK(s) /\ u \in Obj \cup {NoObj}
        BY <2>1, <3>2 DEF s, u
      <4>2. QED
        BY <4>1, SetTableType, Zenon
    <3>4. /\ RteTypeOK(p.r) /\ p.obj \in Obj /\ p.r.stack = r.stack
          /\ p.r.live = r.live \cup {p.obj}
      BY <2>1, <3>1, <3>3 DEF t, s, u
    <3>5. QED
      BY <3>4 DEF p
  <2>4. QED
    BY <2>2, <2>3
<1>3. QED
  BY <1>1, <1>2

\* The name of a field may wait on the stack for its value.
LEMMA StackValueType ==
  ASSUME NEW n \in Names, NEW b \in BOOLEAN
  PROVE  StackedValue(n, b) \in Entries
  BY DEF StackedValue, Entries

\* A value may be put on the stack.
LEMMA StackFieldType ==
  ASSUME NEW o \in Obj
  PROVE  StackedField(o) \in Entries
  BY DEF StackedField, Entries

\* Replacing the stack changes nothing else.
LEMMA StackType ==
  ASSUME NEW r, RteTypeOK(r), NEW s \in Seq(Entries)
  PROVE  LET t == [r EXCEPT !.stack = s] IN
         /\ RteTypeOK(t)
         /\ t.stack = s
         /\ t.live = r.live /\ t.ro = r.ro /\ t.table = r.table /\ t.cache = r.cache
<1> DEFINE t == [r EXCEPT !.stack = s]
<1>1. /\ DOMAIN t = DOMAIN r
      /\ t.stack = s /\ t.live = r.live /\ t.ro = r.ro /\ t.table = r.table
      /\ t.cache = r.cache /\ t.val = r.val /\ t.faults = r.faults
  BY DEF RteTypeOK
<1> HIDE DEF t
<1>2. RteTypeOK(t)
  BY <1>1 DEF RteTypeOK
<1>3. QED
  BY <1>1, <1>2 DEF t

\* A push appends one entry.
LEMMA PushType ==
  ASSUME NEW r, RteTypeOK(r), NEW e \in Entries
  PROVE  LET t == PushEntry(r, e) IN
         /\ RteTypeOK(t)
         /\ t.stack = Append(r.stack, e)
         /\ t.live = r.live /\ t.ro = r.ro /\ t.table = r.table
<1> DEFINE s == Append(r.stack, e)
<1>1. s \in Seq(Entries)
  BY DEF RteTypeOK
<1>2. PushEntry(r, e) = [r EXCEPT !.stack = s]
  BY DEF PushEntry, RteTypeOK
<1>3. s = Append(r.stack, e)
  OBVIOUS
<1> HIDE DEF s
<1> DEFINE t == [r EXCEPT !.stack = s]
<1>4. /\ RteTypeOK(t) /\ t.stack = s
      /\ t.live = r.live /\ t.ro = r.ro /\ t.table = r.table
  BY <1>1, StackType
<1> HIDE DEF t
<1>5. QED
  BY <1>2, <1>3, <1>4 DEF t

\* A stack that is not empty has a top.
LEMMA TopType ==
  ASSUME NEW r, RteTypeOK(r), Len(r.stack) > 0
  PROVE  /\ Len(r.stack) \in DOMAIN r.stack
         /\ Top(r) = r.stack[Len(r.stack)]
         /\ Top(r) \in Entries
  BY DEF RteTypeOK, Top

\* A drop takes the last entry and keeps the others.
LEMMA DropType ==
  ASSUME NEW r, RteTypeOK(r), Len(r.stack) > 0
  PROVE  LET d == Drop(r) IN
         /\ RteTypeOK(d)
         /\ Len(d.stack) = Len(r.stack) - 1
         /\ \A i \in 1 .. Len(d.stack) : d.stack[i] = r.stack[i]
         /\ d.live = r.live /\ d.ro = r.ro /\ d.table = r.table
<1> DEFINE s == SubSeq(r.stack, 1, Len(r.stack) - 1)
<1>1. r.stack \in Seq(Entries) /\ Len(r.stack) \in Nat
  BY DEF RteTypeOK
<1>2. /\ s \in Seq(Entries)
      /\ Len(s) = Len(r.stack) - 1
      /\ \A i \in 1 .. Len(s) : s[i] = r.stack[i]
  BY <1>1
<1>3. Drop(r) = [r EXCEPT !.stack = s]
  BY DEF Drop, RteTypeOK
<1> HIDE DEF s
<1>4. QED
  BY <1>2, <1>3, StackType

\* Recording undefined behaviour changes nothing else.
LEMMA FaultType ==
  ASSUME NEW r, RteTypeOK(r), NEW f \in Faults
  PROVE  LET t == Fault(r, f) IN
         /\ RteTypeOK(t)
         /\ t.stack = r.stack /\ t.live = r.live /\ t.ro = r.ro /\ t.table = r.table
         /\ t.cache = r.cache
<1> DEFINE t == Fault(r, f)
<1>1. /\ DOMAIN t = DOMAIN r
      /\ t.faults = r.faults \cup {f}
      /\ t.stack = r.stack /\ t.live = r.live /\ t.ro = r.ro /\ t.table = r.table
      /\ t.val = r.val /\ t.cache = r.cache
  BY DEF Fault, RteTypeOK
<1> HIDE DEF t
<1>2. RteTypeOK(t)
  BY <1>1 DEF RteTypeOK
<1>3. QED
  BY <1>1, <1>2 DEF t

\* A pop takes off one entry and allocates at most the value it returns.
LEMMA PopType ==
  ASSUME NEW r, RteTypeOK(r), Free(r) # {}, Len(r.stack) > 0
  PROVE  LET p == Pop(r) IN
         /\ RteTypeOK(p.r)
         /\ p.obj \in Obj
         /\ Len(p.r.stack) = Len(r.stack) - 1
         /\ \A i \in 1 .. Len(p.r.stack) : p.r.stack[i] = r.stack[i]
         /\ p.r.live \subseteq r.live \cup {p.obj}
<1> DEFINE d == Drop(r)
           e == Top(r)
<1>1. /\ RteTypeOK(d) /\ Len(d.stack) = Len(r.stack) - 1 /\ d.live = r.live
      /\ \A i \in 1 .. Len(d.stack) : d.stack[i] = r.stack[i]
  BY DropType
<1>2. e \in Entries
  BY TopType
<1>3. Free(d) # {}
  BY <1>1 DEF Free
<1> HIDE DEF d, e
<1>4. CASE e.obj = NoObj
  <2>1. e.name \in Names /\ e.last \in BOOLEAN
    BY <1>2, <1>4, NullIsFree DEF Entries
  <2>2. Pop(r) = Load(d, e.name, e.last)
    BY <1>4 DEF Pop, d, e
  <2>3. QED
    BY <1>1, <1>3, <2>1, <2>2, LoadType, SMTT(30)
<1>5. CASE e.obj # NoObj
  <2>1. e.obj \in Obj
    BY <1>2, <1>5 DEF Entries
  <2> DEFINE f == Fault(d, "used after delete")
  <2>2. /\ RteTypeOK(f) /\ f.stack = d.stack /\ f.live = d.live
    BY <1>1, FaultType DEF Faults
  <2> HIDE DEF f
  <2>3. Pop(r) = [r |-> d, obj |-> e.obj] \/ Pop(r) = [r |-> f, obj |-> e.obj]
    BY <1>5 DEF Pop, d, e, f
  <2>4. QED
    BY <1>1, <2>1, <2>2, <2>3
<1>6. QED
  BY <1>4, <1>5

\* What one step allocates fits into the room that it asks for.
LEMMA RoomLeft ==
  ASSUME NEW r, Cardinality(Free(r)) >= 4, NEW a, NEW b, NEW c
  PROVE  Free(r) \ {a, b, c} # {}
<1> SUFFICES ASSUME Free(r) \ {a, b, c} = {} PROVE FALSE
  OBVIOUS
<1> DEFINE three == {a, b, c}
<1>1. Free(r) \subseteq three
  OBVIOUS
<1>2. IsFiniteSet({a}) /\ Cardinality({a}) = 1
  BY FS_Singleton
<1>3. IsFiniteSet({a, b}) /\ Cardinality({a, b}) \in {1, 2}
  <2> DEFINE one == {a}
  <2>1. IsFiniteSet(one) /\ Cardinality(one) = 1 /\ {a, b} = one \cup {b}
    BY <1>2
  <2> HIDE DEF one
  <2>2. /\ IsFiniteSet(one \cup {b})
        /\ Cardinality(one \cup {b}) =
             IF b \in one THEN Cardinality(one) ELSE Cardinality(one) + 1
    BY <2>1, FS_AddElement
  <2>3. QED
    BY <2>1, <2>2
<1>4. IsFiniteSet(three) /\ Cardinality(three) \in {1, 2, 3}
  <2> DEFINE two == {a, b}
  <2>1. IsFiniteSet(two) /\ Cardinality(two) \in {1, 2} /\ three = two \cup {c}
    BY <1>3
  <2> HIDE DEF two, three
  <2>2. /\ IsFiniteSet(two \cup {c})
        /\ Cardinality(two \cup {c}) =
             IF c \in two THEN Cardinality(two) ELSE Cardinality(two) + 1
    BY <2>1, FS_AddElement
  <2>3. QED
    BY <2>1, <2>2
<1> HIDE DEF three
<1>5. Cardinality(Free(r)) <= Cardinality(three)
  BY <1>1, <1>4, FS_Subset
<1>6. Cardinality(three) \in Nat /\ Cardinality(Free(r)) \in Nat
  BY <1>1, <1>4, FS_Subset, FS_CardinalityType
<1>7. QED
  BY <1>4, <1>5, <1>6

-------------------------------------------------------------------------------
(* Types: the end of a run and the assignment *)

\* RunTimeEnv::deleteValue frees the value of the name, and that row of the table.
LEMMA DeleteValueType ==
  ASSUME NEW r, RteTypeOK(r), NEW n \in Names
  PROVE  LET d == DeleteValue(r, n) IN
         /\ RteTypeOK(d)
         /\ d.live \subseteq r.live
         /\ d.live = {v \in r.live : v # r.table[n]}
         /\ d.table = [r.table EXCEPT ![n] = NoObj]
         /\ d.ro = r.ro /\ d.stack = r.stack
<1> DEFINE o == r.table[n]
<1>1. CASE o = NoObj
  BY <1>1, NullIsFree DEF DeleteValue, RteTypeOK
<1>2. CASE o # NoObj
  <2>1. o \in Obj
    BY <1>2, TableType
  <2> DEFINE c == DeleteCacheEntry(r, o)
  <2>2. /\ DOMAIN c = DOMAIN r
        /\ c.cache = [r.cache EXCEPT ![o] = NoValue]
        /\ c.stack = r.stack /\ c.live = r.live /\ c.ro = r.ro /\ c.table = r.table
        /\ c.val = r.val /\ c.faults = r.faults
    BY DEF DeleteCacheEntry, RteTypeOK
  <2>3. DeleteValue(r, n) = SetTable(DeleteAlways(c, {o}), n, NoObj)
    BY <1>2 DEF DeleteValue
  <2> HIDE DEF c
  <2>4. RteTypeOK(c)
    BY <2>2 DEF RteTypeOK
  <2> DEFINE d == DeleteAlways(c, {o})
  <2>5. /\ RteTypeOK(DeleteAlways(c, {o}))
        /\ DeleteAlways(c, {o}).live = r.live \ {o}
        /\ DeleteAlways(c, {o}).ro = r.ro
        /\ DeleteAlways(c, {o}).stack = r.stack
        /\ DeleteAlways(c, {o}).table = r.table
    BY <2>2, <2>4, DeleteAlwaysType
  <2>6. RteTypeOK(d) /\ d.live = r.live \ {o} /\ d.ro = r.ro /\ d.stack = r.stack
        /\ d.table = r.table
    BY <2>5
  <2> HIDE DEF d, o
  <2>7. /\ RteTypeOK(SetTable(d, n, NoObj))
        /\ SetTable(d, n, NoObj).table = [d.table EXCEPT ![n] = NoObj]
        /\ SetTable(d, n, NoObj).live = d.live
        /\ SetTable(d, n, NoObj).ro = d.ro
        /\ SetTable(d, n, NoObj).stack = d.stack
    BY <2>6, SetTableType
  <2>8. QED
    BY <2>3, <2>6, <2>7 DEF d, o
<1>3. QED
  BY <1>1, <1>2

\* At most one value is allocated to have one that may be changed.
LEMMA OwnCopyType ==
  ASSUME NEW r, RteTypeOK(r), Free(r) # {}, NEW o \in Obj
  PROVE  LET own == OwnCopy(r, o) IN
         /\ RteTypeOK(own.r) /\ own.obj \in Obj
         /\ own.r.stack = r.stack /\ own.r.table = r.table
         /\ own.r.live \subseteq r.live \cup {own.obj}
<1>1. CASE r.ro[o]
  <2> DEFINE n == New(r, r.val[o], FALSE)
  <2>1. OwnCopy(r, o) = n
    BY <1>1 DEF OwnCopy
  <2>2. /\ RteTypeOK(n.r) /\ n.obj \in Obj
        /\ n.r.live = r.live \cup {n.obj}
        /\ n.r.stack = r.stack /\ n.r.table = r.table
    BY NewType
  <2> HIDE DEF n
  <2>3. QED
    BY <2>1, <2>2
<1>2. CASE ~r.ro[o]
  BY <1>2 DEF OwnCopy
<1>3. QED
  BY <1>1, <1>2

\* The value, or its copy, takes the place of the one that had the name.
LEMMA ResetValueType ==
  ASSUME NEW r, RteTypeOK(r), Free(r) # {}, NEW n \in Names, NEW o \in Obj
  PROVE  LET own == OwnCopy(r, o)
             t   == ResetValue(r, n, o)
         IN
         /\ RteTypeOK(t)
         /\ t.stack = r.stack
         /\ t.live \subseteq own.r.live
         /\ own.obj = r.table[n] => t = own.r
         /\ own.obj # r.table[n] =>
              /\ t.table = [r.table EXCEPT ![n] = own.obj]
              /\ t.ro = [own.r.ro EXCEPT ![own.obj] = TRUE]
              /\ t.live = {v \in own.r.live : v # r.table[n]}
<1> DEFINE own == OwnCopy(r, o)
           old == r.table[n]
           marked == SetReadOnly(own.r, own.obj, TRUE)
           freed  == IF old = NoObj THEN marked ELSE DeleteAlways(marked, {old})
<1>1. /\ RteTypeOK(own.r) /\ own.obj \in Obj
      /\ own.r.stack = r.stack /\ own.r.table = r.table
      /\ own.r.live \subseteq r.live \cup {own.obj}
  BY OwnCopyType
<1>2. ResetValue(r, n, o) = IF own.obj = old THEN own.r ELSE SetTable(freed, n, own.obj)
  BY DEF ResetValue
<1>3. old \in Obj \cup {NoObj}
  BY TableType
<1> HIDE DEF own, old
<1>4. /\ RteTypeOK(SetReadOnly(own.r, own.obj, TRUE))
      /\ SetReadOnly(own.r, own.obj, TRUE).ro = [own.r.ro EXCEPT ![own.obj] = TRUE]
      /\ SetReadOnly(own.r, own.obj, TRUE).live = own.r.live
      /\ SetReadOnly(own.r, own.obj, TRUE).stack = own.r.stack
      /\ SetReadOnly(own.r, own.obj, TRUE).table = own.r.table
  BY <1>1, SetReadOnlyType
<1>5. /\ RteTypeOK(marked) /\ marked.ro = [own.r.ro EXCEPT ![own.obj] = TRUE]
      /\ marked.live = own.r.live /\ marked.stack = own.r.stack
      /\ marked.table = own.r.table
  BY <1>4
<1> HIDE DEF marked
<1>6. /\ RteTypeOK(DeleteAlways(marked, {old}))
      /\ DeleteAlways(marked, {old}).live = marked.live \ {old}
      /\ DeleteAlways(marked, {old}).ro = marked.ro
      /\ DeleteAlways(marked, {old}).stack = marked.stack
      /\ DeleteAlways(marked, {old}).table = marked.table
  BY <1>5, DeleteAlwaysType
<1>7. /\ RteTypeOK(freed) /\ freed.live = marked.live \ {old}
      /\ freed.ro = marked.ro /\ freed.stack = marked.stack
      /\ freed.table = marked.table
  <2>1. CASE old = NoObj
    <3>1. marked.live \ {old} = marked.live
      BY <1>5, <2>1, NullIsFree DEF RteTypeOK
    <3>2. QED
      BY <1>5, <2>1, <3>1
  <2>2. CASE old # NoObj
    BY <1>6, <2>2
  <2>3. QED
    BY <2>1, <2>2
<1> HIDE DEF freed
<1>8. own.obj \in Obj \cup {NoObj}
  BY <1>1
<1>9. /\ RteTypeOK(SetTable(freed, n, own.obj))
      /\ SetTable(freed, n, own.obj).table = [freed.table EXCEPT ![n] = own.obj]
      /\ SetTable(freed, n, own.obj).live = freed.live
      /\ SetTable(freed, n, own.obj).ro = freed.ro
      /\ SetTable(freed, n, own.obj).stack = freed.stack
  BY <1>7, <1>8, SetTableType
<1>10. /\ RteTypeOK(ResetValue(r, n, o))
       /\ ResetValue(r, n, o).stack = r.stack
       /\ ResetValue(r, n, o).live \subseteq own.r.live
       /\ own.obj = old => ResetValue(r, n, o) = own.r
       /\ own.obj # old =>
            /\ ResetValue(r, n, o).table = [r.table EXCEPT ![n] = own.obj]
            /\ ResetValue(r, n, o).ro = [own.r.ro EXCEPT ![own.obj] = TRUE]
            /\ ResetValue(r, n, o).live = {v \in own.r.live : v # old}
  <2>1. CASE own.obj = old
    BY <1>1, <1>2, <2>1
  <2>2. CASE own.obj # old
    BY <1>1, <1>2, <1>5, <1>7, <1>9, <2>2
  <2>3. QED
    BY <2>1, <2>2
<1>11. QED
  BY <1>10 DEF own, old

\* Room for two allocations.
Roomy(r) == \A c : Free(r) \ {c} # {}

\* Where there is room for two values there is room for one.
LEMMA RoomyIsFree ==
  ASSUME NEW r, Roomy(r)
  PROVE  Free(r) # {}
  BY DEF Roomy

\* Out of four free addresses, two allocations leave two.
LEMMA RoomyAfter ==
  ASSUME NEW r, Cardinality(Free(r)) >= 4,
         NEW s, NEW a, NEW b, s.live \subseteq r.live \cup {a, b}
  PROVE  Roomy(s)
<1> SUFFICES ASSUME NEW c, Free(s) \ {c} = {} PROVE FALSE
  BY DEF Roomy
<1>1. Free(r) \ {a, b, c} # {}
  BY RoomLeft
<1>2. QED
  BY <1>1 DEF Free

\* Out of two free addresses, one allocation leaves one.
LEMMA FreeAfter ==
  ASSUME NEW r, Roomy(r), NEW s, NEW a, s.live \subseteq r.live \cup {a}
  PROVE  Free(s) # {}
<1>1. Free(r) \ {a} # {}
  BY DEF Roomy
<1>2. QED
  BY <1>1 DEF Free

\* A node is visited with room for two values, and more.
LEMMA RoomyAtFirst ==
  ASSUME NEW r, Cardinality(Free(r)) >= 4
  PROVE  Roomy(r)
  BY RoomyAfter

\* An assignment pops one entry and allocates at most two values.
LEMMA AssignStackTopType ==
  ASSUME NEW r, RteTypeOK(r), Roomy(r), Len(r.stack) > 0,
         NEW n \in Names, NEW lastUse \in BOOLEAN
  PROVE  LET t == AssignStackTop(r, n, lastUse) IN
         /\ RteTypeOK(t)
         /\ Len(t.stack) = Len(r.stack) - 1
         /\ Cardinality(Free(r)) >= 4 => Roomy(t)
<1> DEFINE p == Pop(r)
           q == p.r
           o == p.obj
<1>1. /\ RteTypeOK(q) /\ o \in Obj /\ Len(q.stack) = Len(r.stack) - 1
      /\ q.live \subseteq r.live \cup {o}
  BY PopType, RoomyIsFree
<1> HIDE DEF p, q, o
<1>2. CASE lastUse
  <2> DEFINE d == DeleteValue(q, n)
  <2>1. RteTypeOK(d) /\ d.live \subseteq q.live /\ d.stack = q.stack
    BY <1>1, DeleteValueType
  <2>2. AssignStackTop(r, n, lastUse) = DeleteFromPcrme(d, {o})
    BY <1>2 DEF AssignStackTop, p, q, o
  <2> HIDE DEF d
  <2> DEFINE t == DeleteFromPcrme(d, {o})
  <2>3. RteTypeOK(t) /\ t.live \subseteq d.live /\ t.stack = d.stack
    BY <2>1, DeleteFromPcrmeType
  <2> HIDE DEF t
  <2>4. /\ RteTypeOK(t) /\ Len(t.stack) = Len(r.stack) - 1
        /\ t.live \subseteq r.live \cup {o, o}
    BY <1>1, <2>1, <2>3
  <2>5. Cardinality(Free(r)) >= 4 => Roomy(t)
    BY <2>4, RoomyAfter
  <2>6. QED
    BY <2>2, <2>4, <2>5 DEF t
<1>3. CASE ~lastUse
  <2> DEFINE own == OwnCopy(q, o)
             t == ResetValue(q, n, o)
  <2>1. AssignStackTop(r, n, lastUse) = t
    BY <1>3 DEF AssignStackTop, p, q, o
  <2> HIDE DEF own, t
  <2>2. Free(q) # {}
    BY <1>1, FreeAfter
  <2>3. /\ RteTypeOK(t) /\ t.stack = q.stack
        /\ t.live \subseteq own.r.live
    <3>1. RteTypeOK(q) /\ o \in Obj /\ n \in Names /\ q.stack = q.stack
      BY <1>1
    <3>2. /\ RteTypeOK(ResetValue(q, n, o))
          /\ ResetValue(q, n, o).stack = q.stack
          /\ ResetValue(q, n, o).live \subseteq OwnCopy(q, o).r.live
      BY <2>2, <3>1, ResetValueType, ZenonT(60)
    <3>3. QED
      BY <3>2 DEF own, t
  <2>4. own.r.live \subseteq q.live \cup {own.obj}
    BY <1>1, <2>2, OwnCopyType DEF own
  <2>5. t.live \subseteq r.live \cup {o, own.obj}
    BY <1>1, <2>3, <2>4
  <2>6. Len(t.stack) = Len(r.stack) - 1
    BY <1>1, <2>3
  <2>7. Cardinality(Free(r)) >= 4 => Roomy(t)
    BY <2>5, RoomyAfter
  <2>8. QED
    BY <2>1, <2>3, <2>6, <2>7
<1>4. QED
  BY <1>2, <1>3

\* ~RunTimeEnv empties table and cache, and frees what the table held.
LEMMA CleanType ==
  ASSUME NEW r, RteTypeOK(r)
  PROVE  LET c == Clean(r) IN
         /\ RteTypeOK(c)
         /\ c.live = r.live \ Tabled(r)
         /\ c.stack = r.stack
         /\ IsEmpty(c)
<1> DEFINE d == DeleteAlways(r, Tabled(r))
           noTable == [n \in Names |-> NoObj]
           noCache == [o \in Obj |-> NoValue]
           c == [d EXCEPT !.table = noTable, !.cache = noCache]
<1>1. RteTypeOK(d) /\ d.live = r.live \ Tabled(r) /\ d.stack = r.stack
  BY DeleteAlwaysType
<1>2. Clean(r) = c
  BY DEF Clean
<1>3. noTable \in [Names -> Obj \cup {NoObj}] /\ DOMAIN noCache = Obj
  OBVIOUS
<1> HIDE DEF d
<1>4. /\ DOMAIN c = DOMAIN d
      /\ c.table = noTable /\ c.cache = noCache
      /\ c.stack = d.stack /\ c.live = d.live /\ c.ro = d.ro /\ c.val = d.val
      /\ c.faults = d.faults
  BY <1>1 DEF RteTypeOK
<1> HIDE DEF c
<1>5. RteTypeOK(c)
  BY <1>1, <1>3, <1>4 DEF RteTypeOK
<1>6. IsEmpty(c)
  BY <1>4 DEF IsEmpty, Tabled
<1>7. QED
  BY <1>1, <1>2, <1>4, <1>5, <1>6

\* The values on the stack go, but for the read-only ones.
LEMMA CleanStackType ==
  ASSUME NEW r, RteTypeOK(r)
  PROVE  LET c == CleanStack(r) IN
         /\ RteTypeOK(c)
         /\ c.live = {o \in r.live : o \notin Stacked(r) \/ r.ro[o]}
         /\ c.table = r.table /\ c.ro = r.ro
         /\ c.stack = << >>
<1> DEFINE d == DeleteFromPcrme(r, Stacked(r))
           e == [d EXCEPT !.stack = << >>]
           f == Fault(e, "deleted twice")
<1>1. /\ RteTypeOK(d) /\ d.live = {o \in r.live : o \notin Stacked(r) \/ r.ro[o]}
      /\ d.ro = r.ro /\ d.table = r.table
  BY DeleteFromPcrmeType
<1>2. CleanStack(r) = IF StackedTwice(r) THEN f ELSE e
  BY DEF CleanStack
<1> HIDE DEF d
<1> DEFINE none == << >>
<1>3. none \in Seq(Entries)
  OBVIOUS
<1> HIDE DEF none
<1>4. LET t == [d EXCEPT !.stack = none] IN
      RteTypeOK(t) /\ t.stack = none /\ t.live = d.live /\ t.ro = d.ro /\ t.table = d.table
  BY <1>1, <1>3, StackType
<1>5. RteTypeOK(e) /\ e.stack = << >> /\ e.live = d.live /\ e.ro = d.ro /\ e.table = d.table
  BY <1>4 DEF none
<1> HIDE DEF e
<1>6. "deleted twice" \in Faults
  BY DEF Faults
<1>7. RteTypeOK(f) /\ f.stack = e.stack /\ f.live = e.live /\ f.ro = e.ro /\ f.table = e.table
  BY <1>5, <1>6, FaultType
<1> HIDE DEF f
<1>8. CleanStack(r) = f \/ CleanStack(r) = e
  BY <1>2
<1>9. QED
  BY <1>1, <1>5, <1>7, <1>8

-------------------------------------------------------------------------------
(* Types: the arguments of an operation *)

ArgsTypeOK(x) ==
  /\ DOMAIN x = {"r", "f", "res", "at"}
  /\ RteTypeOK(x.r)
  /\ x.f \in Seq(Obj) /\ x.res \in Seq(Obj)

\* An operation pops its operands, and loading allocates one value for each at most.
LEMMA ArgumentsType ==
  ASSUME NEW r, RteTypeOK(r), Roomy(r), NEW k \in 0 .. 2, Len(r.stack) >= k
  PROVE  LET x == Arguments(r, k) IN
         /\ ArgsTypeOK(x)
         /\ Len(x.f) = k /\ x.res = << >> /\ x.at = 0
         /\ Len(x.r.stack) = Len(r.stack) - k
         /\ Cardinality(Free(r)) >= 4 => Roomy(x.r)
<1>1. CASE k = 0
  <2> DEFINE x == [r |-> r, f |-> << >>, res |-> << >>, at |-> 0]
  <2>1. Arguments(r, k) = x
    BY <1>1 DEF Arguments
  <2>2. ArgsTypeOK(x)
    BY DEF ArgsTypeOK
  <2>3. Len(r.stack) \in Nat
    BY DEF RteTypeOK
  <2>4. x.r = r /\ Len(x.f) = k /\ x.res = << >> /\ x.at = 0
    BY <1>1
  <2> HIDE DEF x
  <2>5. x.r.live \subseteq r.live \cup {0, 0} /\ Len(x.r.stack) = Len(r.stack) - k
    BY <1>1, <2>3, <2>4
  <2>6. Cardinality(Free(r)) >= 4 => Roomy(x.r)
    BY <2>5, RoomyAfter
  <2>7. QED
    BY <2>1, <2>2, <2>4, <2>5, <2>6
<1> DEFINE p  == Pop(r)
           pr == p.r
           po == p.obj
<1>2. ASSUME k > 0
      PROVE  /\ RteTypeOK(pr) /\ po \in Obj /\ Len(pr.stack) = Len(r.stack) - 1
             /\ pr.live \subseteq r.live \cup {po}
  <2>1. Len(r.stack) > 0
    BY <1>2 DEF RteTypeOK
  <2>2. QED
    BY <2>1, PopType, RoomyIsFree
<1> HIDE DEF pr, po
<1>3. Len(r.stack) \in Nat
  BY DEF RteTypeOK
<1>4. CASE k = 1
  <2> DEFINE x == [r |-> pr, f |-> <<po>>, res |-> << >>, at |-> 0]
  <2>1. Arguments(r, k) = x
    BY <1>4 DEF Arguments, pr, po
  <2>2. ArgsTypeOK(x)
    BY <1>2, <1>4 DEF ArgsTypeOK
  <2>3. x.r = pr /\ Len(x.f) = k /\ x.res = << >> /\ x.at = 0
    BY <1>4
  <2> HIDE DEF x
  <2>4. x.r.live \subseteq r.live \cup {po, po}
    BY <1>2, <1>4, <2>3
  <2>5. Len(x.r.stack) = Len(r.stack) - k
    BY <1>2, <1>4, <2>3
  <2>6. Cardinality(Free(r)) >= 4 => Roomy(x.r)
    BY <2>4, RoomyAfter
  <2>7. QED
    BY <2>1, <2>2, <2>3, <2>5, <2>6
<1>5. CASE k = 2
  <2> DEFINE q  == Pop(pr)
             qr == q.r
             qo == q.obj
             x == [r |-> qr, f |-> <<qo, po>>, res |-> << >>, at |-> 0]
  <2>1. Arguments(r, k) = x
    BY <1>5 DEF Arguments, pr, po
  <2>2. Len(pr.stack) > 0
    <3>1. Len(pr.stack) = Len(r.stack) - 1
      BY <1>2, <1>5
    <3>2. Len(r.stack) >= 2
      BY <1>5
    <3>3. QED
      BY <1>3, <3>1, <3>2
  <2>3. Free(pr) # {}
    <3>1. Free(r) \ {po} # {} /\ pr.live \subseteq r.live \cup {po}
      BY <1>2, <1>5 DEF Roomy
    <3>2. QED
      BY <3>1 DEF Free
  <2>4. /\ RteTypeOK(qr) /\ qo \in Obj /\ Len(qr.stack) = Len(pr.stack) - 1
        /\ qr.live \subseteq pr.live \cup {qo}
    BY <1>2, <1>5, <2>2, <2>3, PopType
  <2> HIDE DEF q, qr, qo
  <2>5. ArgsTypeOK(x)
    BY <1>2, <1>5, <2>4 DEF ArgsTypeOK
  <2>6. x.r = qr /\ Len(x.f) = k /\ x.res = << >> /\ x.at = 0
    BY <1>5
  <2> HIDE DEF x
  <2>7. x.r.live \subseteq r.live \cup {po, qo}
    BY <1>2, <1>5, <2>4, <2>6
  <2>8. Len(x.r.stack) = Len(r.stack) - k
    BY <1>2, <1>3, <1>5, <2>4, <2>6
  <2>9. Cardinality(Free(r)) >= 4 => Roomy(x.r)
    BY <2>7, RoomyAfter
  <2>10. QED
    BY <2>1, <2>5, <2>6, <2>8, <2>9
<1>6. k = 0 \/ k = 1 \/ k = 2
  OBVIOUS
<1>7. QED
  BY <1>1, <1>4, <1>5, <1>6, Zenon

\* createResults adds new results and leaves operands and stack alone.
LEMMA CreateResultsType ==
  ASSUME NEW x, ArgsTypeOK(x), Roomy(x.r), NEW k \in 1 .. 2
  PROVE  LET y == CreateResults(x, k) IN
         /\ ArgsTypeOK(y)
         /\ Len(y.res) = k /\ y.f = x.f
         /\ y.r.stack = x.r.stack
<1> DEFINE a  == New(x.r, NoValue, FALSE)
           ar == a.r
           ao == a.obj
           b  == New(ar, NoValue, FALSE)
           br == b.r
           bo == b.obj
<1>1. RteTypeOK(ar) /\ ao \in Obj /\ ar.live = x.r.live \cup {ao} /\ ar.stack = x.r.stack
  BY NewType, RoomyIsFree DEF ArgsTypeOK
<1>2. CreateResults(x, k) = IF k = 1 THEN [x EXCEPT !.r = ar, !.res = <<ao>>]
                            ELSE [x EXCEPT !.r = br, !.res = <<ao, bo>>]
  BY DEF CreateResults
<1> HIDE DEF ar, ao
<1>3. Free(ar) # {}
  BY <1>1, FreeAfter
<1>4. RteTypeOK(br) /\ bo \in Obj /\ br.stack = ar.stack
  BY <1>1, <1>3, NewType
<1> HIDE DEF b, br, bo
<1>5. CASE k = 1
  <2> DEFINE y == [x EXCEPT !.r = ar, !.res = <<ao>>]
  <2>1. DOMAIN y = DOMAIN x /\ y.r = ar /\ y.res = <<ao>> /\ y.f = x.f
    BY DEF ArgsTypeOK
  <2> HIDE DEF y
  <2>2. QED
    BY <1>1, <1>2, <1>5, <2>1 DEF ArgsTypeOK, y
<1>6. CASE k = 2
  <2> DEFINE y == [x EXCEPT !.r = br, !.res = <<ao, bo>>]
  <2>1. DOMAIN y = DOMAIN x /\ y.r = br /\ y.res = <<ao, bo>> /\ y.f = x.f
    BY DEF ArgsTypeOK
  <2> HIDE DEF y
  <2>2. QED
    BY <1>1, <1>2, <1>4, <1>6, <2>1 DEF ArgsTypeOK, y
<1>7. QED
  BY <1>5, <1>6

\* srcDest makes the operand, or its copy, the one result.
LEMMA SrcDestType ==
  ASSUME NEW x, ArgsTypeOK(x), Free(x.r) # {}, NEW i \in 1 .. Len(x.f)
  PROVE  LET y == SrcDest(x, i) IN
         /\ ArgsTypeOK(y)
         /\ Len(y.res) = 1
         /\ y.f = [x.f EXCEPT ![i] = y.res[1]]
         /\ y.at = i
         /\ y.r.stack = x.r.stack
<1> DEFINE o  == x.f[i]
           d  == OwnCopy(x.r, o)
           dr == d.r
           do == d.obj
           y  == [x EXCEPT !.r = dr, !.f[i] = do, !.res = <<do>>, !.at = i]
<1>1. o \in Obj
  BY DEF ArgsTypeOK
<1>2. RteTypeOK(dr) /\ do \in Obj /\ dr.stack = x.r.stack
  BY <1>1, OwnCopyType DEF ArgsTypeOK
<1>3. SrcDest(x, i) = y
  BY DEF SrcDest
<1> HIDE DEF o, d, dr, do
<1>4. /\ DOMAIN y = DOMAIN x /\ y.r = dr /\ y.res = <<do>> /\ y.at = i
      /\ y.f = [x.f EXCEPT ![i] = do]
  BY DEF ArgsTypeOK
<1> HIDE DEF y
<1>5. y.f \in Seq(Obj)
  BY <1>2, <1>4 DEF ArgsTypeOK
<1>6. ArgsTypeOK(y) /\ Len(y.res) = 1 /\ y.res[1] = do
  BY <1>2, <1>4, <1>5 DEF ArgsTypeOK
<1>7. QED
  BY <1>2, <1>3, <1>4, <1>6

\* Only the cells of the results change.
LEMMA ComputedType ==
  ASSUME NEW x, ArgsTypeOK(x), NEW vals
  PROVE  LET y == Computed(x, vals) IN
         /\ ArgsTypeOK(y)
         /\ y.f = x.f /\ y.res = x.res /\ y.at = x.at
         /\ y.r.stack = x.r.stack /\ y.r.table = x.r.table
         /\ y.r.live = x.r.live /\ y.r.ro = x.r.ro
<1> DEFINE v == [o \in Obj |-> IF \E i \in DOMAIN x.res : x.res[i] = o
                    THEN vals[CHOOSE i \in DOMAIN x.res : x.res[i] = o]
                    ELSE x.r.val[o]]
           s == [x.r EXCEPT !.val = v]
           y == [x EXCEPT !.r = s]
<1>1. Computed(x, vals) = y
  BY DEF Computed, ArgsTypeOK, RteTypeOK
<1>2. DOMAIN v = Obj
  OBVIOUS
<1> HIDE DEF v
<1>3. /\ DOMAIN s = DOMAIN x.r /\ s.val = v
      /\ s.stack = x.r.stack /\ s.table = x.r.table /\ s.live = x.r.live
      /\ s.ro = x.r.ro /\ s.cache = x.r.cache /\ s.faults = x.r.faults
  BY DEF ArgsTypeOK, RteTypeOK
<1> HIDE DEF s
<1>4. RteTypeOK(s)
  BY <1>2, <1>3 DEF ArgsTypeOK, RteTypeOK
<1>5. DOMAIN y = DOMAIN x /\ y.r = s /\ y.f = x.f /\ y.res = x.res /\ y.at = x.at
  BY DEF ArgsTypeOK
<1> HIDE DEF y
<1>6. ArgsTypeOK(y)
  BY <1>4, <1>5 DEF ArgsTypeOK
<1>7. QED
  BY <1>1, <1>3, <1>5, <1>6

\* What becomes of a graph concerns the cache alone.
LEMMA LeaveGraphType ==
  ASSUME NEW r, RteTypeOK(r), NEW o \in Obj
  PROVE  LET t == LeaveGraph(r, o) IN
         /\ RteTypeOK(t)
         /\ t.stack = r.stack /\ t.table = r.table /\ t.live = r.live /\ t.ro = r.ro
<1> DEFINE kept == [r EXCEPT !.cache[o] = GraphOf(r, o)]
           gone == [r EXCEPT !.cache[o] = NoValue]
           twice == Fault(gone, "graph deleted twice")
<1>1. /\ DOMAIN kept = DOMAIN r /\ DOMAIN kept.cache = DOMAIN r.cache
      /\ kept.stack = r.stack /\ kept.table = r.table /\ kept.live = r.live
      /\ kept.ro = r.ro /\ kept.val = r.val /\ kept.faults = r.faults
  BY DEF RteTypeOK
<1>2. /\ DOMAIN gone = DOMAIN r /\ DOMAIN gone.cache = DOMAIN r.cache
      /\ gone.stack = r.stack /\ gone.table = r.table /\ gone.live = r.live
      /\ gone.ro = r.ro /\ gone.val = r.val /\ gone.faults = r.faults
  BY DEF RteTypeOK
<1>3. LeaveGraph(r, o) = r \/ LeaveGraph(r, o) = kept \/ LeaveGraph(r, o) = twice
  BY DEF LeaveGraph, DeleteCacheEntry
<1> HIDE DEF kept, gone
<1>4. RteTypeOK(kept) /\ RteTypeOK(gone)
  BY <1>1, <1>2 DEF RteTypeOK
<1>5. "graph deleted twice" \in Faults
  BY DEF Faults
<1>6. /\ RteTypeOK(twice)
      /\ twice.stack = gone.stack /\ twice.table = gone.table
      /\ twice.live = gone.live /\ twice.ro = gone.ro
  BY <1>4, <1>5, FaultType
<1> HIDE DEF twice
<1>7. QED
  BY <1>1, <1>2, <1>3, <1>4, <1>6

\* The results go on top of the stack; operands that nobody owns are freed.
LEMMA PushResultsType ==
  ASSUME NEW x, ArgsTypeOK(x)
  PROVE  LET pushed == [i \in DOMAIN x.res |-> StackedField(x.res[i])]
             t      == PushResults(x)
         IN
         /\ RteTypeOK(t)
         /\ t.stack = x.r.stack \o pushed
         /\ pushed \in Seq(Entries) /\ Len(pushed) = Len(x.res)
         /\ t.live = {o \in x.r.live : o \notin Operands(x) \ Results(x) \/ x.r.ro[o]}
         /\ t.ro = x.r.ro /\ t.table = x.r.table
<1> DEFINE pushed == [i \in DOMAIN x.res |-> StackedField(x.res[i])]
           s == x.r.stack \o pushed
           q == [x.r EXCEPT !.stack = s]
           S == Operands(x) \ Results(x)
<1>1. \A i \in DOMAIN x.res : StackedField(x.res[i]) \in Entries
  BY StackFieldType DEF ArgsTypeOK
<1>2. DOMAIN x.res = 1 .. Len(x.res) /\ Len(x.res) \in Nat
  BY DEF ArgsTypeOK
<1>3. pushed \in Seq(Entries) /\ Len(pushed) = Len(x.res)
  BY <1>1, <1>2
<1>4. PushResults(x) = DeleteFromPcrme(q, S)
  BY DEF PushResults, ArgsTypeOK, RteTypeOK
<1> HIDE DEF pushed
<1>5. s \in Seq(Entries)
  BY <1>3 DEF ArgsTypeOK, RteTypeOK
<1> HIDE DEF s, S
<1>6. /\ RteTypeOK([x.r EXCEPT !.stack = s])
      /\ [x.r EXCEPT !.stack = s].stack = s
      /\ [x.r EXCEPT !.stack = s].live = x.r.live
      /\ [x.r EXCEPT !.stack = s].ro = x.r.ro
      /\ [x.r EXCEPT !.stack = s].table = x.r.table
  BY <1>5, StackType DEF ArgsTypeOK
<1>7. /\ RteTypeOK(q) /\ q.stack = s /\ q.live = x.r.live /\ q.ro = x.r.ro
      /\ q.table = x.r.table
  BY <1>6
<1> HIDE DEF q
<1> DEFINE d == DeleteFromPcrme(q, S)
<1>8. /\ RteTypeOK(d)
      /\ d.live = {o \in q.live : o \notin S \/ q.ro[o]}
      /\ d.ro = q.ro /\ d.stack = q.stack /\ d.table = q.table
  BY <1>7, DeleteFromPcrmeType
<1> HIDE DEF d
<1>9. QED
  BY <1>3, <1>4, <1>7, <1>8 DEF d, s, S, pushed

\* When an exception passes, operands and results that nobody owns are freed.
LEMMA CleanArgumentsType ==
  ASSUME NEW x, ArgsTypeOK(x)
  PROVE  LET t == CleanArguments(x) IN
         /\ RteTypeOK(t)
         /\ t.live = {o \in x.r.live : o \notin Operands(x) \cup Results(x) \/ x.r.ro[o]}
         /\ t.ro = x.r.ro /\ t.table = x.r.table /\ t.stack = x.r.stack
<1> DEFINE q == x.r
           d == DeleteFromPcrme(q, Operands(x))
           t == DeleteFromPcrme(d, Results(x))
<1>1. RteTypeOK(q)
  BY DEF ArgsTypeOK
<1>2. CleanArguments(x) = t
  BY DEF CleanArguments
<1> HIDE DEF q
<1>3. /\ RteTypeOK(d)
      /\ d.live = {o \in q.live : o \notin Operands(x) \/ q.ro[o]}
      /\ d.ro = q.ro /\ d.stack = q.stack /\ d.table = q.table
  BY <1>1, DeleteFromPcrmeType
<1> HIDE DEF d
<1>4. /\ RteTypeOK(t)
      /\ t.live = {o \in d.live : o \notin Results(x) \/ d.ro[o]}
      /\ t.ro = d.ro /\ t.stack = d.stack /\ t.table = d.table
  BY <1>3, DeleteFromPcrmeType
<1> HIDE DEF t
<1>5. t.live = {o \in q.live : o \notin Operands(x) \cup Results(x) \/ q.ro[o]}
  BY <1>3, <1>4
<1>6. QED
  BY <1>2, <1>3, <1>4, <1>5 DEF q

\* ~RunTimeEnv after an exception, or of a run that ends early.
LEMMA CleanOnExceptionType ==
  ASSUME NEW r, RteTypeOK(r)
  PROVE  LET t == CleanOnException(r) IN
         /\ RteTypeOK(t)
         /\ t.live = {o \in r.live : o \notin Stacked(r) \/ r.ro[o]} \ Tabled(r)
         /\ t.stack = << >>
         /\ IsEmpty(t)
<1> DEFINE c == CleanStack(r)
           t == Clean(c)
<1>1. /\ RteTypeOK(c)
      /\ c.live = {o \in r.live : o \notin Stacked(r) \/ r.ro[o]}
      /\ c.table = r.table /\ c.stack = << >>
  BY CleanStackType
<1>2. CleanOnException(r) = t
  BY DEF CleanOnException
<1>3. Tabled(c) = Tabled(r)
  BY <1>1 DEF Tabled
<1> HIDE DEF c
<1>4. RteTypeOK(t) /\ t.live = c.live \ Tabled(c) /\ t.stack = c.stack /\ IsEmpty(t)
  BY <1>1, CleanType
<1> HIDE DEF t
<1>5. QED
  BY <1>1, <1>2, <1>3, <1>4

-------------------------------------------------------------------------------
(* The code *)

At == cur \in 1 .. Len(Code)

\* A node that is to be visited exists and is one the executor can visit.
LEMMA CodeType ==
  ASSUME TypeOK, cur # 0
  PROVE  /\ At
         /\ Len(Code) \in Nat \ {0}
         /\ WellFormedNode(Code, cur)
<1>1. prog \in DOMAIN Script /\ cur \in 0 .. Len(Code)
  BY DEF TypeOK
<1>2. /\ Len(Code) \in Nat \ {0}
      /\ \A i \in 1 .. Len(Code) : WellFormedNode(Code, i)
  BY <1>1, ProgramsAssumption DEF Code
<1>3. QED
  BY <1>1, <1>2 DEF At

\* The next node follows in the list, or is the entrance of a block.
LEMMA SuccType ==
  ASSUME TypeOK, cur # 0, NEW b \in BOOLEAN, b => Node.op = "jump", Advance(b)
  PROVE  /\ cur' \in 0 .. Len(Code)
         /\ cur' # 0 => cur' = cur + 1 \/ Code[cur'].op = "enter"
<1>1. At /\ Len(Code) \in Nat /\ WellFormedNode(Code, cur)
  BY CodeType
<1>2. CASE b
  <2>1. cur' = Code[cur].blk
    BY <1>2 DEF Advance, Succ
  <2>2. Code[cur].op = "jump"
    BY <1>2 DEF Node
  <2>3. QED
    BY <1>1, <2>1, <2>2 DEF WellFormedNode, At
<1>3. CASE ~b
  BY <1>1, <1>3 DEF Advance, Succ, At
<1>4. QED
  BY <1>2, <1>3

\* What holds whenever a node is visited.
LEMMA VisitingType ==
  ASSUME TypeOK, Visiting
  PROVE  /\ At
         /\ WellFormedNode(Code, cur)
         /\ RteTypeOK(rte)
         /\ Roomy(rte) /\ Free(rte) # {}
         /\ Len(rte.stack) \in Nat
         /\ Len(rte.stack) >= Pops(Node)
<1>1. cur # 0 /\ Len(rte.stack) >= Pops(Node) /\ Cardinality(Free(rte)) >= 4
  BY DEF Visiting
<1>2. RteTypeOK(rte)
  BY DEF TypeOK
<1>3. Roomy(rte)
  BY <1>1, RoomyAtFirst
<1>4. QED
  BY <1>1, <1>2, <1>3, CodeType, RoomyIsFree DEF RteTypeOK

-------------------------------------------------------------------------------
(* Operations *)

\* Every operator has its operands and gets its results.
LEMMA PreparedType ==
  ASSUME NEW a, ArgsTypeOK(a), Roomy(a.r), a.res = << >>,
         NEW node, WellFormedExpr(node), node.fn \notin {"nop", "timeoutput"},
         Len(a.f) = node.k
  PROVE  LET x == Prepared(a, node.fn, node.r) IN
         /\ ArgsTypeOK(x)
         /\ Len(x.f) = node.k
         /\ x.r.stack = a.r.stack
<1>1. Free(a.r) # {}
  BY RoomyIsFree
<1> DEFINE k == node.k
           fn == node.fn
<1>2. a.f \in Seq(Obj) /\ k \in 0 .. 2
  BY DEF ArgsTypeOK, WellFormedExpr
<1>3. ASSUME NEW i \in 1 .. k
      PROVE  /\ ArgsTypeOK(SrcDest(a, i)) /\ Len(SrcDest(a, i).f) = k
             /\ SrcDest(a, i).r.stack = a.r.stack
  <2>1. i \in 1 .. Len(a.f)
    OBVIOUS
  <2> DEFINE y == SrcDest(a, i)
  <2>2. /\ ArgsTypeOK(y) /\ y.f = [a.f EXCEPT ![i] = y.res[1]]
        /\ y.r.stack = a.r.stack
    BY <1>1, <2>1, SrcDestType, SMTT(60)
  <2> HIDE DEF y
  <2>3. Len(y.f) = Len(a.f)
    BY <1>2, <2>2 DEF ArgsTypeOK
  <2>4. QED
    BY <2>2, <2>3 DEF y
<1>4. CASE fn \in {"same1", "left"}
  <2>1. Prepared(a, node.fn, node.r) = SrcDest(a, 1) /\ 1 \in 1 .. k
    BY <1>2, <1>4 DEF Prepared, WellFormedExpr
  <2>2. QED
    BY <1>3, <2>1
<1>5. CASE fn = "right"
  <2>1. Prepared(a, node.fn, node.r) = SrcDest(a, 2) /\ 2 \in 1 .. k
    BY <1>2, <1>5 DEF Prepared, WellFormedExpr
  <2>2. QED
    BY <1>3, <2>1
<1>6. CASE fn = "comm"
  <2> DEFINE i == IF a.r.ro[a.f[1]] THEN 2 ELSE 1
  <2>1. Prepared(a, node.fn, node.r) = SrcDest(a, i) /\ i \in 1 .. k
    BY <1>2, <1>6 DEF Prepared, WellFormedExpr
  <2> HIDE DEF i
  <2>2. QED
    BY <1>3, <2>1
<1>7. CASE fn \in {"diff", "two", "accu"}
  <2>1. Prepared(a, node.fn, node.r) = CreateResults(a, node.r)
    BY <1>7 DEF Prepared
  <2>2. node.r \in 1 .. 2
    BY DEF WellFormedExpr
  <2>3. QED
    BY <2>1, <2>2, CreateResultsType
<1>8. QED
  BY <1>4, <1>5, <1>6, <1>7 DEF WellFormedExpr, Operators

\* An operation keeps the types up to the point where it may fail.
LEMMA ReadyType ==
  ASSUME NEW r, RteTypeOK(r), Cardinality(Free(r)) >= 4,
         NEW node, WellFormedExpr(node), node.fn \notin {"nop", "timeoutput"},
         Len(r.stack) >= node.k
  PROVE  ArgsTypeOK(Ready(r, node))
<1> DEFINE k == node.k
           a == Arguments(r, k)
<1>1. k \in 0 .. 2 /\ Roomy(r) /\ Len(r.stack) >= k
  BY RoomyAtFirst DEF WellFormedExpr
<1> HIDE DEF k
<1>2. ArgsTypeOK(a) /\ Len(a.f) = k /\ a.res = << >>
  BY <1>1, ArgumentsType
<1>3. Roomy(a.r)
  BY <1>1, ArgumentsType
<1> HIDE DEF a
<1> DEFINE x == Prepared(a, node.fn, node.r)
<1>4. ArgsTypeOK(x) /\ Len(x.f) = node.k
  BY <1>2, <1>3, PreparedType DEF k
<1> HIDE DEF x
<1> DEFINE vals == [i \in 1 .. node.r |-> Semantics!Result(node.fn, Inputs(a, node.fn), i)]
           y == Computed(x, vals)
<1>5. ArgsTypeOK(y) /\ y.f = x.f
  BY <1>4, ComputedType
<1>6. Ready(r, node) = IF node.fn = "accu" THEN [y EXCEPT !.r = LeaveGraph(y.r, y.f[1])] ELSE y
  BY DEF Ready, x, a, k
<1> HIDE DEF y
<1>7. CASE node.fn = "accu"
  <2>1. y.f[1] \in Obj /\ RteTypeOK(y.r)
    BY <1>4, <1>5, <1>7 DEF ArgsTypeOK, WellFormedExpr
  <2> DEFINE g == LeaveGraph(y.r, y.f[1])
  <2>2. RteTypeOK(g)
    BY <2>1, LeaveGraphType
  <2> HIDE DEF g
  <2>3. ArgsTypeOK([y EXCEPT !.r = g])
    BY <1>5, <2>2 DEF ArgsTypeOK
  <2>4. QED
    BY <1>6, <1>7, <2>3 DEF g
<1>8. CASE node.fn # "accu"
  BY <1>5, <1>6, <1>8
<1>9. QED
  BY <1>7, <1>8

\* A conversion that converts nothing pops an entry and pushes it.
LEMMA RepushType ==
  ASSUME NEW r, RteTypeOK(r), Free(r) # {}, Len(r.stack) > 0
  PROVE  RteTypeOK(Repush(r))
<1> DEFINE p == Pop(r)
           q == p.r
           e == StackedField(p.obj)
<1>1. RteTypeOK(q) /\ p.obj \in Obj
  BY PopType
<1>2. e \in Entries
  BY <1>1, StackFieldType
<1>3. Repush(r) = PushEntry(q, e)
  BY DEF Repush
<1> HIDE DEF p, q, e
<1>4. QED
  BY <1>1, <1>2, <1>3, PushType

\* deleteForwards frees the values of the names and empties their rows.
LEMMA DeleteForwardsType ==
  ASSUME NEW r, RteTypeOK(r), NEW names
  PROVE  LET t == DeleteForwards(r, names) IN
         /\ RteTypeOK(t)
         /\ t.live = r.live \ ({r.table[n] : n \in names} \ {NoObj})
         /\ t.table = [n \in Names |-> IF n \in names THEN NoObj ELSE r.table[n]]
         /\ t.stack = r.stack /\ t.ro = r.ro
<1> DEFINE objs  == {r.table[n] : n \in names} \ {NoObj}
           d     == DeleteAlways(r, objs)
           table == [n \in Names |-> IF n \in names THEN NoObj ELSE r.table[n]]
           cache == [o \in Obj |-> IF o \in objs THEN NoValue ELSE r.cache[o]]
           t     == [d EXCEPT !.table = table, !.cache = cache]
<1>1. DeleteForwards(r, names) = t
  BY DEF DeleteForwards
<1>2. table \in [Names -> Obj \cup {NoObj}] /\ DOMAIN cache = Obj
  BY DEF RteTypeOK
<1> HIDE DEF objs, table, cache
<1>3. RteTypeOK(d) /\ d.live = r.live \ objs /\ d.ro = r.ro /\ d.stack = r.stack
  BY DeleteAlwaysType
<1> HIDE DEF d
<1>4. /\ DOMAIN t = DOMAIN d /\ t.table = table /\ t.cache = cache
      /\ t.live = d.live /\ t.ro = d.ro /\ t.stack = d.stack /\ t.val = d.val
      /\ t.faults = d.faults
  BY <1>3 DEF RteTypeOK
<1> HIDE DEF t
<1>5. RteTypeOK(t)
  BY <1>2, <1>3, <1>4 DEF RteTypeOK
<1>6. QED
  BY <1>1, <1>3, <1>4, <1>5 DEF table, objs

\* Leaving a block keeps the types, with or without its delete set.
LEMMA LeaveType ==
  ASSUME NEW r, RteTypeOK(r), NEW b \in BOOLEAN
  PROVE  RteTypeOK(Leave(r, b))
<1>1. CASE b
  BY <1>1 DEF Leave
<1>2. CASE ~b
  <2> DEFINE names == {n \in Names : <<Node.blk, n>> \in Script[prog].deletes}
  <2>1. Leave(r, b) = DeleteForwards(r, names)
    BY <1>2 DEF Leave
  <2> HIDE DEF names
  <2>2. RteTypeOK(DeleteForwards(r, names))
    BY DeleteForwardsType, Zenon
  <2>3. QED
    BY <2>1, <2>2
<1>3. QED
  BY <1>1, <1>2

-------------------------------------------------------------------------------
(* Type correctness *)

\* What is not a field is assigned with the deferred operator pending.
Deferred == cur # 0 /\ AssignsNoField(Node) => timeoutput

TypeInv == TypeOK /\ Deferred

\* The types hold when a run starts; the first node assigns nothing.
LEMMA InitTypeInv == Init => TypeInv
<1> SUFFICES ASSUME Init PROVE TypeInv
  OBVIOUS
<1>1. prog \in DOMAIN Script /\ cur = 1
  BY DEF Init
<1>2. Len(Code) \in Nat \ {0} /\ WellFormedNode(Code, 1)
  BY <1>1, ProgramsAssumption DEF Code
<1>3. RteTypeOK(rte)
  BY EmptyRteType DEF Init
<1>4. TypeOK
  <2>1. cur \in 0 .. Len(Code)
    BY <1>1, <1>2
  <2>2. time = 0 /\ spins = 0
    BY DEF Init
  <2>3. time \in Nat /\ spins \in 0 .. MaxSpins
    BY <2>2, TimerAssumption
  <2>4. QED
    BY <1>3, <2>1, <2>3 DEF Init, TypeOK
<1>5. ~AssignsNoField(Node)
  BY <1>1, <1>2 DEF WellFormedNode, Node
<1>6. QED
  BY <1>4, <1>5 DEF TypeInv, Deferred

\* What a visit has to establish beyond the position of the next node.
LEMMA AdvanceType ==
  ASSUME TypeInv, Visiting, NEW b \in BOOLEAN, b => Node.op = "jump", Advance(b),
         UNCHANGED <<run, status>>,
         RteTypeOK(rte'), time' \in Nat, spins' \in 0 .. MaxSpins,
         allDone' \in BOOLEAN, timeoutput' \in BOOLEAN,
         Node.op = "expr" /\ Node.fn = "timeoutput" => timeoutput'
  PROVE  TypeInv'
<1>1. TypeOK /\ cur # 0
  BY DEF TypeInv, Visiting
<1>2. /\ cur' \in 0 .. Len(Code)
      /\ cur' # 0 => cur' = cur + 1 \/ Code[cur'].op = "enter"
  BY <1>1, SuccType
<1>3. prog' = prog /\ stepWise' = stepWise /\ status' = status
  BY DEF run
<1>4. Code' = Code
  BY <1>3 DEF Code
<1>5. TypeOK'
  BY <1>1, <1>2, <1>3, <1>4 DEF TypeOK
<1>6. Deferred'
  <2> SUFFICES ASSUME cur' # 0, AssignsNoField(Code[cur'])
               PROVE  timeoutput'
    BY <1>4 DEF Deferred, Node
  <2>1. cur' = cur + 1
    BY <1>2 DEF AssignsNoField
  <2>2. cur' \in 1 .. Len(Code) /\ cur \in 1 .. Len(Code)
    BY <1>1, <1>2, CodeType DEF At
  <2>3. WellFormedNode(Code, cur')
    BY <1>1, <2>2, ProgramsAssumption DEF Code, TypeOK
  <2>4. Code[cur' - 1].op = "expr" /\ Code[cur' - 1].fn = "timeoutput"
    BY <2>3 DEF WellFormedNode, IsDeferred
  <2>5. cur' - 1 = cur
    BY <2>1, <2>2
  <2>6. QED
    BY <2>4, <2>5 DEF Node
<1>7. QED
  BY <1>5, <1>6 DEF TypeInv

\* A visit that pushes or pops and does nothing else.
LEMMA StackStepType ==
  ASSUME TypeInv, Visiting, Advance(FALSE),
         UNCHANGED <<run, time, allDone, timeoutput, spins, status>>,
         RteTypeOK(rte'), ~(Node.op = "expr" /\ Node.fn = "timeoutput")
  PROVE  TypeInv'
<1>1. /\ time' \in Nat /\ spins' \in 0 .. MaxSpins
      /\ allDone' \in BOOLEAN /\ timeoutput' \in BOOLEAN
  BY DEF TypeInv, TypeOK
<1>2. QED
  BY <1>1, AdvanceType

\* What holds whenever a node is visited, from the invariant.
LEMMA TypeOf ==
  ASSUME TypeInv, Visiting
  PROVE  /\ RteTypeOK(rte) /\ Roomy(rte) /\ Free(rte) # {}
         /\ WellFormedNode(Code, cur) /\ Node = Code[cur]
         /\ Len(rte.stack) \in Nat /\ Len(rte.stack) >= Pops(Node)
         /\ Cardinality(Free(rte)) >= 4
  BY VisitingType DEF TypeInv, Node, Visiting

\* A name that is pushed is a name of the script.
LEMMA VisitParType == TypeInv /\ VisitPar => TypeInv'
<1> SUFFICES ASSUME TypeInv, VisitPar PROVE TypeInv'
  OBVIOUS
<1>1. /\ Visiting /\ Node.op = "par" /\ Advance(FALSE)
      /\ UNCHANGED <<run, time, allDone, timeoutput, spins, status>>
  BY DEF VisitPar
<1> DEFINE e == StackedValue(Node.name, IsLast(0))
<1>2. RteTypeOK(rte) /\ Node.name \in Names
  BY <1>1, TypeOf DEF WellFormedNode
<1>3. IsLast(0) \in BOOLEAN
  BY DEF IsLast
<1>4. e \in Entries
  BY <1>2, <1>3, StackValueType
<1>5. rte' = PushEntry(rte, e)
  BY DEF VisitPar
<1> HIDE DEF e
<1>6. RteTypeOK(rte')
  BY <1>2, <1>4, <1>5, PushType
<1>7. QED
  BY <1>1, <1>6, StackStepType

\* A number is pushed as a new field.
LEMMA VisitNumberType == TypeInv /\ VisitNumber => TypeInv'
<1> SUFFICES ASSUME TypeInv, VisitNumber PROVE TypeInv'
  OBVIOUS
<1>1. /\ Visiting /\ Node.op = "num" /\ Advance(FALSE)
      /\ UNCHANGED <<run, time, allDone, timeoutput, spins, status>>
  BY DEF VisitNumber
<1> DEFINE new == New(rte, <<"number", << >> >>, FALSE)
           q == new.r
           e == StackedField(new.obj)
<1>2. RteTypeOK(rte) /\ Free(rte) # {}
  BY <1>1, TypeOf
<1>3. RteTypeOK(q) /\ new.obj \in Obj
  BY <1>2, NewType
<1>4. e \in Entries
  BY <1>3, StackFieldType
<1>5. rte' = PushEntry(q, e)
  BY DEF VisitNumber
<1> HIDE DEF new, q, e
<1>6. RteTypeOK(rte')
  BY <1>3, <1>4, <1>5, PushType
<1>7. QED
  BY <1>1, <1>6, StackStepType

\* An operation pops its operands and pushes its results.
LEMMA VisitExprType == TypeInv /\ VisitExpr => TypeInv'
<1> SUFFICES ASSUME TypeInv, VisitExpr PROVE TypeInv'
  OBVIOUS
<1>1. /\ Visiting /\ Node.op = "expr" /\ Node.fn # "timeoutput" /\ Advance(FALSE)
      /\ UNCHANGED <<run, time, allDone, timeoutput, spins, status>>
      /\ rte' = IF Node.fn = "nop" THEN Repush(rte) ELSE PushResults(Ready(rte, Node))
  BY DEF VisitExpr
<1>2. /\ RteTypeOK(rte) /\ Free(rte) # {} /\ Cardinality(Free(rte)) >= 4
      /\ WellFormedExpr(Node) /\ Len(rte.stack) >= Node.k
      /\ Len(rte.stack) \in Nat
  BY <1>1, TypeOf DEF WellFormedNode, Pops
<1>3. RteTypeOK(rte')
  <2>1. CASE Node.fn = "nop"
    <3>1. Len(rte.stack) > 0
      BY <1>2, <2>1 DEF WellFormedExpr
    <3>2. QED
      BY <1>1, <1>2, <2>1, <3>1, RepushType
  <2>2. CASE Node.fn # "nop"
    <3> DEFINE x == Ready(rte, Node)
    <3>1. ArgsTypeOK(x)
      BY <1>1, <1>2, <2>2, ReadyType
    <3>2. rte' = PushResults(x)
      BY <1>1, <2>2
    <3> HIDE DEF x
    <3>3. QED
      BY <3>1, <3>2, PushResultsType
  <2>3. QED
    BY <2>1, <2>2
<1>4. QED
  BY <1>1, <1>3, StackStepType

\* A run that ends stays at its node.
LEMMA EndType ==
  ASSUME TypeInv, UNCHANGED <<run, cur, time, allDone, timeoutput, spins>>,
         RteTypeOK(rte'), status' \in {"thrown", "closed"}
  PROVE  TypeInv'
<1>1. prog' = prog /\ stepWise' = stepWise
  BY DEF run
<1>2. Code' = Code /\ Node' = Node
  BY <1>1 DEF Code, Node
<1>3. TypeOK'
  BY <1>1, <1>2 DEF TypeInv, TypeOK
<1>4. Deferred'
  BY <1>2 DEF TypeInv, Deferred
<1>5. QED
  BY <1>3, <1>4 DEF TypeInv

\* A domain error keeps the types while it unwinds.
LEMMA ThrowType == TypeInv /\ ThrowDomainError => TypeInv'
<1> SUFFICES ASSUME TypeInv, ThrowDomainError PROVE TypeInv'
  OBVIOUS
<1>1. /\ Visiting /\ Node.op = "expr" /\ Node.fn \notin {"nop", "timeoutput"}
      /\ rte' = CleanOnException(CleanArguments(Ready(rte, Node)))
      /\ status' = "thrown"
      /\ UNCHANGED <<run, cur, time, allDone, timeoutput, spins>>
  BY DEF ThrowDomainError, MayThrow
<1>2. /\ RteTypeOK(rte) /\ Cardinality(Free(rte)) >= 4
      /\ WellFormedExpr(Node) /\ Len(rte.stack) >= Node.k
  BY <1>1, TypeOf DEF WellFormedNode, Pops
<1> DEFINE x == Ready(rte, Node)
           c == CleanArguments(x)
<1>3. ArgsTypeOK(x)
  BY <1>1, <1>2, ReadyType
<1> HIDE DEF x
<1>4. RteTypeOK(c)
  BY <1>3, CleanArgumentsType
<1> HIDE DEF c
<1>5. RteTypeOK(CleanOnException(c))
  BY <1>4, CleanOnExceptionType
<1>6. RteTypeOK(rte')
  BY <1>1, <1>5 DEF c, x
<1>7. QED
  BY <1>1, <1>6, EndType

\* Deferring an operator changes only the pending flag.
LEMMA DeferType == TypeInv /\ DeferTimeoutput => TypeInv'
<1> SUFFICES ASSUME TypeInv, DeferTimeoutput PROVE TypeInv'
  OBVIOUS
<1>1. /\ Visiting /\ Node.op = "expr" /\ timeoutput' = TRUE /\ Advance(FALSE)
      /\ UNCHANGED <<run, time, allDone, rte, spins, status>>
  BY DEF DeferTimeoutput
<1>2. /\ RteTypeOK(rte') /\ time' \in Nat /\ spins' \in 0 .. MaxSpins
      /\ allDone' \in BOOLEAN
  BY <1>1 DEF TypeInv, TypeOK
<1>3. QED
  BY <1>1, <1>2, AdvanceType

\* An assignment that is not deferred assigns fields.
LEMMA VisitAssType == TypeInv /\ VisitAss => TypeInv'
<1> SUFFICES ASSUME TypeInv, VisitAss PROVE TypeInv'
  OBVIOUS
<1> DEFINE m == Node.lhs[1]
           n == Node.lhs[2]
           one == AssignStackTop(rte, m, IsLast(1))
<1>1. /\ Visiting /\ Node.op = "ass" /\ ~timeoutput /\ Advance(FALSE)
      /\ UNCHANGED <<run, time, allDone, timeoutput, spins, status>>
      /\ rte' = IF Len(Node.lhs) = 1 THEN one ELSE AssignStackTop(one, n, IsLast(2))
  BY DEF VisitAss
<1>2. /\ RteTypeOK(rte) /\ Roomy(rte) /\ Cardinality(Free(rte)) >= 4
      /\ Len(Node.lhs) \in 1 .. 2 /\ Len(rte.stack) >= Len(Node.lhs)
      /\ Len(rte.stack) \in Nat
  BY <1>1, TypeOf DEF WellFormedNode, Pops
<1>3. \A k \in 1 .. Len(Node.lhs) : Node.lhs[k] \in Names
  BY <1>1 DEF TypeInv, Deferred, AssignsNoField, Visiting
<1>4. m \in Names /\ Len(rte.stack) > 0
  BY <1>2, <1>3
<1>5. IsLast(1) \in BOOLEAN /\ IsLast(2) \in BOOLEAN
  BY DEF IsLast
<1> HIDE DEF m, n
<1>6. RteTypeOK(one) /\ Len(one.stack) = Len(rte.stack) - 1 /\ Roomy(one)
  BY <1>2, <1>4, <1>5, AssignStackTopType
<1> HIDE DEF one
<1>7. RteTypeOK(rte')
  <2>1. CASE Len(Node.lhs) = 1
    BY <1>1, <1>6, <2>1
  <2>2. CASE Len(Node.lhs) = 2
    <3>1. n \in Names
      BY <1>3, <2>2 DEF n
    <3>2. Len(one.stack) > 0
      BY <1>2, <1>6, <2>2
    <3>3. RteTypeOK(AssignStackTop(one, n, IsLast(2)))
      BY <1>5, <1>6, <3>1, <3>2, AssignStackTopType
    <3>4. QED
      BY <1>1, <2>2, <3>3
  <2>3. QED
    BY <1>2, <2>1, <2>2
<1>8. QED
  BY <1>1, <1>7, StackStepType

\* A deferred assignment writes its two operands and frees them.
LEMMA AssignOutTssType == TypeInv /\ AssignOutTss => TypeInv'
<1> SUFFICES ASSUME TypeInv, AssignOutTss PROVE TypeInv'
  OBVIOUS
<1> DEFINE x == Arguments(rte, 2)
           q == x.r
           d == DeleteFromPcrme(q, {x.f[1]})
           t == DeleteFromPcrme(d, {x.f[2]})
<1>1. /\ Visiting /\ Node.op = "ass" /\ Len(rte.stack) >= 2
      /\ timeoutput' = FALSE /\ Advance(FALSE) /\ rte' = t
      /\ UNCHANGED <<run, time, allDone, spins, status>>
  BY DEF AssignOutTss
<1>2. RteTypeOK(rte) /\ Roomy(rte)
  BY <1>1, TypeOf
<1>3. RteTypeOK(q)
  <2>1. 2 \in 0 .. 2
    OBVIOUS
  <2>2. ArgsTypeOK(x)
    BY <1>1, <1>2, <2>1, ArgumentsType
  <2>3. QED
    BY <2>2 DEF ArgsTypeOK
<1> HIDE DEF x, q
<1>4. RteTypeOK(d)
  BY <1>3, DeleteFromPcrmeType
<1> HIDE DEF d
<1>5. RteTypeOK(t)
  BY <1>4, DeleteFromPcrmeType
<1>6. /\ RteTypeOK(rte') /\ time' \in Nat /\ spins' \in 0 .. MaxSpins
      /\ allDone' \in BOOLEAN
  BY <1>1, <1>5 DEF TypeInv, TypeOK
<1>7. QED
  BY <1>1, <1>6, AdvanceType

\* A statement resets the pending flag and nothing else.
LEMMA VisitStatType == TypeInv /\ VisitStat => TypeInv'
<1> SUFFICES ASSUME TypeInv, VisitStat PROVE TypeInv'
  OBVIOUS
<1>1. /\ Visiting /\ Node.op = "stat" /\ timeoutput' = FALSE /\ Advance(FALSE)
      /\ UNCHANGED <<run, time, allDone, rte, spins, status>>
  BY DEF VisitStat
<1>2. /\ RteTypeOK(rte') /\ time' \in Nat /\ spins' \in 0 .. MaxSpins
      /\ allDone' \in BOOLEAN
  BY <1>1 DEF TypeInv, TypeOK
<1>3. QED
  BY <1>1, <1>2, AdvanceType

\* An expression that is not assigned leaves its value on the stack.
LEMMA VisitNonAssExprType == TypeInv /\ VisitNonAssExpr => TypeInv'
<1> SUFFICES ASSUME TypeInv, VisitNonAssExpr PROVE TypeInv'
  OBVIOUS
<1>1. /\ Visiting /\ Node.op = "nonass" /\ Advance(FALSE)
      /\ UNCHANGED <<run, time, allDone, timeoutput, rte, spins, status>>
  BY DEF VisitNonAssExpr
<1>2. RteTypeOK(rte')
  BY <1>1 DEF TypeInv, TypeOK
<1>3. QED
  BY <1>1, <1>2, StackStepType

\* The time step stays a natural number.
LEMMA VisitBlockEntranceType == TypeInv /\ VisitBlockEntrance => TypeInv'
<1> SUFFICES ASSUME TypeInv, VisitBlockEntrance PROVE TypeInv'
  OBVIOUS
<1>1. /\ Visiting /\ Node.op = "enter" /\ Advance(FALSE)
      /\ UNCHANGED <<run, allDone, timeoutput, rte, spins, status>>
      /\ time' = IF Node.kind # "dynamic" THEN time
                 ELSE IF time = 0 THEN StartInt ELSE time + 1
  BY DEF VisitBlockEntrance
<1>2. time' \in Nat
  BY <1>1, TimerAssumption DEF TypeInv, TypeOK
<1>3. /\ RteTypeOK(rte') /\ spins' \in 0 .. MaxSpins
      /\ allDone' \in BOOLEAN /\ timeoutput' \in BOOLEAN
  BY <1>1 DEF TypeInv, TypeOK
<1>4. QED
  BY <1>1, <1>2, <1>3, AdvanceType

\* Leaving the dynamic section, or going round, keeps the types.
LEMMA JumpOutDynamicSectionType == TypeInv /\ JumpOutDynamicSection => TypeInv'
<1> SUFFICES ASSUME TypeInv, JumpOutDynamicSection PROVE TypeInv'
  OBVIOUS
<1>1. /\ Visiting /\ Node.op = "jump" /\ Advance(TakeBackBranch)
      /\ UNCHANGED <<run, time, timeoutput, spins, status>>
      /\ rte' = Leave(rte, TakeBackBranch)
      /\ allDone' = (allDone \/ ~TakeBackBranch)
  BY DEF JumpOutDynamicSection
<1>2. TakeBackBranch \in BOOLEAN
  BY DEF TakeBackBranch
<1>3. RteTypeOK(Leave(rte, TakeBackBranch))
  BY <1>1, <1>2, TypeOf, LeaveType
<1>4. /\ RteTypeOK(rte') /\ spins' \in 0 .. MaxSpins /\ time' \in Nat
      /\ allDone' \in BOOLEAN /\ timeoutput' \in BOOLEAN
  BY <1>1, <1>3 DEF TypeInv, TypeOK
<1>5. QED
  BY <1>1, <1>2, <1>4, AdvanceType

\* Popping a condition and jumping on it keeps the types.
LEMMA JumpOutRepeatUntilType == TypeInv /\ JumpOutRepeatUntil => TypeInv'
<1> SUFFICES ASSUME TypeInv, JumpOutRepeatUntil PROVE TypeInv'
  OBVIOUS
<1> DEFINE p == Pop(rte)
           q == p.r
           r == DeleteFromPcrme(q, {p.obj})
<1>1. PICK again \in RepeatAgain :
        /\ Visiting /\ Node.op = "jump" /\ Len(rte.stack) >= 1
        /\ UNCHANGED <<run, time, allDone, timeoutput, status>>
        /\ spins' = IF again /\ spins < MaxSpins THEN spins + 1 ELSE spins
        /\ rte' = Leave(r, again)
        /\ Advance(again)
  BY DEF JumpOutRepeatUntil
<1>2. again \in BOOLEAN
  BY DEF RepeatAgain
<1>3. Len(rte.stack) > 0 /\ RteTypeOK(rte) /\ Free(rte) # {}
  BY <1>1, TypeOf
<1>4. RteTypeOK(q)
  BY <1>3, PopType
<1> HIDE DEF p, q
<1>5. RteTypeOK(r)
  BY <1>4, DeleteFromPcrmeType
<1> HIDE DEF r
<1>6. RteTypeOK(Leave(r, again))
  BY <1>2, <1>5, LeaveType
<1>7. spins' \in 0 .. MaxSpins
  BY <1>1, TimerAssumption DEF TypeInv, TypeOK
<1>8. /\ RteTypeOK(rte') /\ time' \in Nat
      /\ allDone' \in BOOLEAN /\ timeoutput' \in BOOLEAN
  BY <1>1, <1>6 DEF TypeInv, TypeOK
<1>9. QED
  BY <1>1, <1>2, <1>7, <1>8, AdvanceType

\* Leaving the script keeps the types.
LEMMA JumpOutCodeType == TypeInv /\ JumpOutCode => TypeInv'
<1> SUFFICES ASSUME TypeInv, JumpOutCode PROVE TypeInv'
  OBVIOUS
<1>1. /\ Visiting /\ Node.op = "jump" /\ Advance(FALSE)
      /\ UNCHANGED <<run, time, timeoutput, spins, status>>
      /\ rte' = Leave(rte, FALSE) /\ allDone' = TRUE
  BY DEF JumpOutCode
<1>2. RteTypeOK(Leave(rte, FALSE))
  BY <1>1, TypeOf, LeaveType
<1>3. /\ RteTypeOK(rte') /\ spins' \in 0 .. MaxSpins /\ time' \in Nat
      /\ allDone' \in BOOLEAN /\ timeoutput' \in BOOLEAN
  BY <1>1, <1>2 DEF TypeInv, TypeOK
<1>4. QED
  BY <1>1, <1>3, AdvanceType

\* The destructor keeps the types.
LEMMA DestroyType == TypeInv /\ Destroy => TypeInv'
<1> SUFFICES ASSUME TypeInv, Destroy PROVE TypeInv'
  OBVIOUS
<1>1. /\ rte' = CleanOnException(rte) /\ status' = "closed"
      /\ UNCHANGED <<run, cur, time, allDone, timeoutput, spins>>
  BY DEF Destroy, CleanOnException
<1>2. RteTypeOK(CleanOnException(rte))
  BY CleanOnExceptionType DEF TypeInv, TypeOK
<1>3. QED
  BY <1>1, <1>2, EndType

\* A step that changes nothing keeps the types.
LEMMA StutterType == TypeInv /\ UNCHANGED vars => TypeInv'
  BY DEF TypeInv, TypeOK, Deferred, vars, run, Code, Node

\* Every step keeps the types.
LEMMA NextType == TypeInv /\ [Next]_vars => TypeInv'
<1> SUFFICES ASSUME TypeInv, [Next]_vars PROVE TypeInv'
  OBVIOUS
<1>1. CASE VisitPar \/ VisitNumber \/ VisitExpr \/ ThrowDomainError \/ DeferTimeoutput
  BY <1>1, VisitParType, VisitNumberType, VisitExprType, ThrowType, DeferType
<1>2. CASE VisitAss \/ AssignOutTss \/ VisitStat \/ VisitNonAssExpr \/ VisitBlockEntrance
  BY <1>2, VisitAssType, AssignOutTssType, VisitStatType, VisitNonAssExprType,
     VisitBlockEntranceType
<1>3. CASE JumpOutDynamicSection \/ JumpOutRepeatUntil \/ JumpOutCode \/ Destroy
  BY <1>3, JumpOutDynamicSectionType, JumpOutRepeatUntilType, JumpOutCodeType,
     DestroyType
<1>4. CASE UNCHANGED vars
  BY <1>4, StutterType
<1>5. QED
  BY <1>1, <1>2, <1>3, <1>4 DEF Next, Closed

(***************************************************************************)
(* Whatever is executed, the runtime environment keeps its types: entries  *)
(* of the stack and of the table are null or addresses of values, and      *)
(* loading finds the name of every value that waits on the stack.          *)
(***************************************************************************)
THEOREM TypeCorrect == Spec => []TypeOK
<1>1. Spec => Init /\ [][Next]_vars
  BY DEF Spec
<1>2. TypeInv => TypeOK
  BY DEF TypeInv
<1>3. QED
  BY <1>1, <1>2, InitTypeInv, NextType, PTL

-------------------------------------------------------------------------------
(* Ownership *)

\* Values on the heap that have no owner.
Loose(r) == r.live \ (Tabled(r) \cup Stacked(r))

\* No value has two names.
OneName(r) ==
  \A m, n \in Names : r.table[m] = r.table[n] /\ r.table[m] # NoObj => m = n

\* No value is on the stack twice.
OneEntry(r) ==
  \A i, j \in 1 .. Len(r.stack) :
    r.stack[i].obj = r.stack[j].obj /\ r.stack[i].obj # NoObj => i = j

\* What is owned has not been deleted, and readOnlyReference marks the values
\* in the table.
Sound(r) ==
  /\ RteTypeOK(r)
  /\ OneName(r) /\ OneEntry(r)
  /\ Tabled(r) \subseteq r.live /\ Stacked(r) \subseteq r.live
  /\ Tabled(r) \cap Stacked(r) = {}
  /\ \A o \in r.live : r.ro[o] <=> o \in Tabled(r)

\* A run starts with an empty heap.
LEMMA EmptySound == Sound(EmptyRte) /\ Loose(EmptyRte) = {}
<1>1. /\ EmptyRte.stack = << >> /\ EmptyRte.live = {}
      /\ \A n \in Names : EmptyRte.table[n] = NoObj
  BY DEF EmptyRte
<1>2. Tabled(EmptyRte) = {} /\ Stacked(EmptyRte) = {}
  BY <1>1 DEF Tabled, Stacked
<1>3. QED
  BY <1>1, <1>2, EmptyRteType DEF Sound, Loose, OneName, OneEntry

\* The owners are those that table and stack name.
LEMMA SameOwners ==
  ASSUME NEW r, NEW s, s.table = r.table, s.stack = r.stack
  PROVE  /\ Tabled(s) = Tabled(r) /\ Stacked(s) = Stacked(r)
         /\ OneName(s) <=> OneName(r)
         /\ OneEntry(s) <=> OneEntry(r)
  BY DEF Tabled, Stacked, OneName, OneEntry

\* The values in the table have addresses.
LEMMA TabledType ==
  ASSUME NEW r, RteTypeOK(r)
  PROVE  /\ Tabled(r) \subseteq Obj
         /\ \A n \in Names : r.table[n] # NoObj => r.table[n] \in Tabled(r)
  BY DEF RteTypeOK, Tabled

\* The values on the stack have addresses, and an entry each.
LEMMA StackedType ==
  ASSUME NEW r, RteTypeOK(r)
  PROVE  /\ Stacked(r) \subseteq Obj
         /\ \A i \in 1 .. Len(r.stack) :
              r.stack[i].obj # NoObj => r.stack[i].obj \in Stacked(r)
         /\ \A o \in Stacked(r) : \E i \in 1 .. Len(r.stack) : r.stack[i].obj = o
<1>1. r.stack \in Seq(Entries) /\ DOMAIN r.stack = 1 .. Len(r.stack)
  BY DEF RteTypeOK
<1>2. ASSUME NEW i \in 1 .. Len(r.stack)
      PROVE  r.stack[i].obj \in Obj \cup {NoObj}
  <2>1. r.stack[i] \in Entries
    BY <1>1
  <2>2. QED
    BY <2>1 DEF Entries
<1>3. QED
  BY <1>1, <1>2 DEF Stacked

\* A new value is loose.
LEMMA NewSound ==
  ASSUME NEW r, Sound(r), Free(r) # {}, NEW v
  PROVE  LET n == New(r, v, FALSE) IN
         /\ Sound(n.r)
         /\ Tabled(n.r) = Tabled(r) /\ Stacked(n.r) = Stacked(r)
         /\ n.obj \notin r.live
         /\ n.r.live = r.live \cup {n.obj}
         /\ ~n.r.ro[n.obj]
<1> DEFINE n == New(r, v, FALSE)
           s == n.r
           o == n.obj
<1>1. /\ RteTypeOK(s) /\ o \in Obj \ r.live /\ s.live = r.live \cup {o}
      /\ s.ro = [r.ro EXCEPT ![o] = FALSE] /\ s.stack = r.stack /\ s.table = r.table
  BY NewType DEF Sound
<1> HIDE DEF n, s, o
<1>2. /\ Tabled(s) = Tabled(r) /\ Stacked(s) = Stacked(r)
      /\ OneName(s) <=> OneName(r)
      /\ OneEntry(s) <=> OneEntry(r)
  BY <1>1, SameOwners
<1>3. r.ro \in [Obj -> BOOLEAN] /\ r.live \subseteq Obj
  BY DEF Sound, RteTypeOK
<1>4. ~s.ro[o] /\ \A u \in r.live : s.ro[u] = r.ro[u]
  BY <1>1, <1>3
<1>5. \A u \in s.live : s.ro[u] <=> u \in Tabled(s)
  BY <1>1, <1>2, <1>4 DEF Sound
<1>6. Sound(s)
  BY <1>1, <1>2, <1>5 DEF Sound
<1>7. QED
  BY <1>1, <1>2, <1>4, <1>6 DEF n, s, o

\* Deleting what is not on the stack keeps the owners.
LEMMA DeleteSound ==
  ASSUME NEW r, Sound(r), NEW S, S \cap Stacked(r) = {}
  PROVE  LET d == DeleteFromPcrme(r, S) IN
         /\ Sound(d)
         /\ Tabled(d) = Tabled(r) /\ Stacked(d) = Stacked(r)
         /\ d.live = r.live \ (S \ Tabled(r))
         /\ d.stack = r.stack
<1> DEFINE d == DeleteFromPcrme(r, S)
<1>1. /\ RteTypeOK(d)
      /\ d.live = {o \in r.live : o \notin S \/ r.ro[o]}
      /\ d.ro = r.ro /\ d.stack = r.stack /\ d.table = r.table
  BY DeleteFromPcrmeType DEF Sound
<1> HIDE DEF d
<1>2. /\ Tabled(d) = Tabled(r) /\ Stacked(d) = Stacked(r)
      /\ OneName(d) <=> OneName(r)
      /\ OneEntry(d) <=> OneEntry(r)
  BY <1>1, SameOwners
<1>3. d.live = r.live \ (S \ Tabled(r))
  BY <1>1 DEF Sound
<1>4. Sound(d)
  BY <1>1, <1>2, <1>3 DEF Sound
<1>5. QED
  BY <1>1, <1>2, <1>3, <1>4 DEF d

(***************************************************************************)
(* A value that is loaded is in the table, or loose: the last use of a     *)
(* name takes its value out of the table.                                  *)
(***************************************************************************)
LEMMA LoadSound ==
  ASSUME NEW r, Sound(r), Free(r) # {}, NEW n \in Names, NEW lastUse \in BOOLEAN
  PROVE  LET p == Load(r, n, lastUse) IN
         /\ Sound(p.r)
         /\ Stacked(p.r) = Stacked(r)
         /\ p.obj \in p.r.live \ Stacked(p.r)
         /\ r.live \subseteq p.r.live
         /\ Loose(p.r) \subseteq Loose(r) \cup {p.obj}
<1> DEFINE o == r.table[n]
           p == Load(r, n, lastUse)
<1>1. RteTypeOK(r)
  BY DEF Sound
<1>2. CASE o # NoObj /\ ~lastUse
  <2>1. p = [r |-> r, obj |-> o]
    BY <1>2 DEF Load
  <2>2. o \in Tabled(r)
    BY <1>1, <1>2, TabledType
  <2>3. QED
    BY <2>1, <2>2 DEF Sound, Loose
<1>3. CASE o # NoObj /\ lastUse
  <2>1. o \in Obj /\ o \in Tabled(r)
    BY <1>1, <1>3, TabledType
  <2> DEFINE s == SetReadOnly(r, o, FALSE)
             t == SetTable(s, n, NoObj)
  <2>2. p = [r |-> t, obj |-> o]
    BY <1>3 DEF Load
  <2>3. /\ RteTypeOK(s) /\ s.ro = [r.ro EXCEPT ![o] = FALSE]
        /\ s.live = r.live /\ s.stack = r.stack /\ s.table = r.table
    BY <1>1, <2>1, SetReadOnlyType
  <2> HIDE DEF p, s
  <2>4. /\ RteTypeOK(SetTable(s, n, NoObj))
        /\ SetTable(s, n, NoObj).table = [s.table EXCEPT ![n] = NoObj]
        /\ SetTable(s, n, NoObj).live = s.live
        /\ SetTable(s, n, NoObj).stack = s.stack
        /\ SetTable(s, n, NoObj).ro = s.ro
    BY <2>3, SetTableType
  <2>5. /\ RteTypeOK(t) /\ t.table = [r.table EXCEPT ![n] = NoObj]
        /\ t.live = r.live /\ t.stack = r.stack /\ t.ro = [r.ro EXCEPT ![o] = FALSE]
    BY <2>3, <2>4
  <2> HIDE DEF t
  <2>6. r.table \in [Names -> Obj \cup {NoObj}] /\ r.ro \in [Obj -> BOOLEAN]
        /\ r.live \subseteq Obj
    BY <1>1 DEF RteTypeOK
  <2>7. Tabled(t) = Tabled(r) \ {o}
    BY <2>1, <2>5, <2>6, <1>3 DEF Tabled, Sound, OneName
  <2>8. Stacked(t) = Stacked(r)
    BY <2>5 DEF Stacked
  <2>9. OneName(t) /\ OneEntry(t)
    BY <2>5, <2>6 DEF Sound, OneName, OneEntry
  <2>10. \A u \in t.live : t.ro[u] <=> u \in Tabled(t)
    BY <2>1, <2>5, <2>6, <2>7 DEF Sound
  <2>11. Sound(t)
    BY <2>5, <2>7, <2>8, <2>9, <2>10 DEF Sound
  <2>12. o \in t.live \ Stacked(t) /\ Loose(t) \subseteq Loose(r) \cup {o}
    BY <2>1, <2>5, <2>7, <2>8 DEF Sound, Loose
  <2>13. QED
    BY <2>2, <2>5, <2>8, <2>11, <2>12 DEF p
<1>4. CASE o = NoObj /\ lastUse
  <2> DEFINE new == New(r, FileValue(n), FALSE)
  <2>1. p = [r |-> new.r, obj |-> new.obj]
    BY <1>4 DEF Load
  <2>2. /\ Sound(new.r)
        /\ Tabled(new.r) = Tabled(r) /\ Stacked(new.r) = Stacked(r)
        /\ new.obj \notin r.live
        /\ new.r.live = r.live \cup {new.obj}
    BY NewSound
  <2> HIDE DEF new, p
  <2>3. new.obj \in new.r.live \ Stacked(new.r) /\ Loose(new.r) \subseteq Loose(r) \cup {new.obj}
    BY <2>2 DEF Sound, Loose
  <2>4. QED
    BY <2>1, <2>2, <2>3 DEF p
<1>5. CASE o = NoObj /\ ~lastUse
  <2> DEFINE new == New(r, FileValue(n), TRUE)
             s   == new.r
             u   == new.obj
             t   == SetTable(s, n, u)
  <2>1. p = [r |-> t, obj |-> u]
    BY <1>5 DEF Load
  <2>2. /\ RteTypeOK(s) /\ u \in Obj \ r.live /\ s.live = r.live \cup {u}
        /\ s.ro = [r.ro EXCEPT ![u] = TRUE] /\ s.stack = r.stack /\ s.table = r.table
    BY <1>1, NewType
  <2> HIDE DEF p, new, s, u
  <2>3. u \in Obj \cup {NoObj}
    BY <2>2
  <2>4. /\ RteTypeOK(SetTable(s, n, u))
        /\ SetTable(s, n, u).table = [s.table EXCEPT ![n] = u]
        /\ SetTable(s, n, u).live = s.live
        /\ SetTable(s, n, u).stack = s.stack
        /\ SetTable(s, n, u).ro = s.ro
    BY <2>2, <2>3, SetTableType
  <2>5. /\ RteTypeOK(t) /\ t.table = [r.table EXCEPT ![n] = u]
        /\ t.live = r.live \cup {u} /\ t.stack = r.stack
        /\ t.ro = [r.ro EXCEPT ![u] = TRUE]
    BY <2>2, <2>4
  <2> HIDE DEF t
  <2>6. r.table \in [Names -> Obj \cup {NoObj}] /\ r.ro \in [Obj -> BOOLEAN]
        /\ r.live \subseteq Obj
    BY <1>1 DEF RteTypeOK
  <2>7. Tabled(t) = Tabled(r) \cup {u}
    BY <2>2, <2>5, <2>6, <1>5, NullIsFree DEF Tabled
  <2>8. Stacked(t) = Stacked(r)
    BY <2>5 DEF Stacked
  <2>9. u \notin Tabled(r) /\ \A m \in Names : r.table[m] # u
    BY <2>2, <1>1, NullIsFree, TabledType DEF Sound
  <2>10. OneName(t)
    BY <2>5, <2>6, <2>9 DEF Sound, OneName
  <2>11. OneEntry(t)
    BY <2>5 DEF Sound, OneEntry
  <2>12. \A w \in t.live : t.ro[w] <=> w \in Tabled(t)
    BY <2>2, <2>5, <2>6, <2>7 DEF Sound
  <2>13. Sound(t)
    BY <2>2, <2>5, <2>7, <2>8, <2>10, <2>11, <2>12 DEF Sound
  <2>14. u \in t.live \ Stacked(t) /\ Loose(t) \subseteq Loose(r) \cup {u}
    BY <2>2, <2>5, <2>7, <2>8 DEF Sound, Loose
  <2>15. QED
    BY <2>1, <2>5, <2>8, <2>13, <2>14 DEF p
<1>6. QED
  BY <1>2, <1>3, <1>4, <1>5

\* What is loaded for the last time has no name; otherwise it has this one.
LEMMA LoadOwner ==
  ASSUME NEW r, Sound(r), Free(r) # {}, NEW n \in Names, NEW lastUse \in BOOLEAN
  PROVE  LET p == Load(r, n, lastUse) IN
         /\ lastUse => p.obj \notin Tabled(p.r)
         /\ ~lastUse => p.r.table[n] = p.obj
<1> DEFINE o   == r.table[n]
           p   == Load(r, n, lastUse)
           new == New(r, FileValue(n), ~lastUse)
<1>1. RteTypeOK(r) /\ r.table \in [Names -> Obj \cup {NoObj}]
  BY DEF Sound, RteTypeOK
<1>2. CASE o # NoObj
  <2> DEFINE s == SetReadOnly(r, o, FALSE)
  <2>1. o \in Obj
    BY <1>1, <1>2
  <2>2. RteTypeOK(s) /\ s.table = r.table
    BY <1>1, <2>1, SetReadOnlyType
  <2>3. p = [r |-> IF lastUse THEN SetTable(s, n, NoObj) ELSE r, obj |-> o]
    BY <1>2 DEF Load
  <2> HIDE DEF s, p
  <2>4. SetTable(s, n, NoObj).table = [r.table EXCEPT ![n] = NoObj]
    BY <2>2, SetTableType
  <2>5. QED
    BY <1>1, <1>2, <2>3, <2>4 DEF p, Tabled, Sound, OneName
<1>3. CASE o = NoObj
  <2>1. p = [r |-> IF lastUse THEN new.r ELSE SetTable(new.r, n, new.obj), obj |-> new.obj]
    BY <1>3 DEF Load
  <2>2. RteTypeOK(new.r) /\ new.obj \in Obj \ r.live /\ new.r.table = r.table
    BY <1>1, NewType
  <2> HIDE DEF new, p
  <2>3. SetTable(new.r, n, new.obj).table = [r.table EXCEPT ![n] = new.obj]
    BY <2>2, SetTableType
  <2>4. new.obj \notin Tabled(new.r)
    BY <2>2 DEF Tabled, Sound
  <2>5. QED
    BY <1>1, <2>1, <2>3, <2>4 DEF p
<1>4. QED
  BY <1>2, <1>3

\* The owners are unchanged when table, stack, heap and flags are.
LEMMA SameSound ==
  ASSUME NEW r, Sound(r), NEW s, RteTypeOK(s),
         s.table = r.table, s.stack = r.stack, s.live = r.live, s.ro = r.ro
  PROVE  /\ Sound(s)
         /\ Tabled(s) = Tabled(r) /\ Stacked(s) = Stacked(r) /\ Loose(s) = Loose(r)
<1>1. /\ Tabled(s) = Tabled(r) /\ Stacked(s) = Stacked(r)
      /\ OneName(s) <=> OneName(r)
      /\ OneEntry(s) <=> OneEntry(r)
  BY SameOwners
<1>2. QED
  BY <1>1 DEF Sound, Loose

\* What is popped from the stack has no entry of the stack left.
LEMMA DropSound ==
  ASSUME NEW r, Sound(r), Len(r.stack) > 0
  PROVE  LET d == Drop(r) IN
         /\ Sound(d)
         /\ Tabled(d) = Tabled(r)
         /\ Stacked(d) = Stacked(r) \ {Top(r).obj}
<1> DEFINE d == Drop(r)
           len == Len(r.stack)
<1>1. RteTypeOK(r) /\ len \in Nat
  BY DEF Sound, RteTypeOK
<1>2. /\ RteTypeOK(d) /\ Len(d.stack) = len - 1
      /\ \A i \in 1 .. Len(d.stack) : d.stack[i] = r.stack[i]
      /\ d.live = r.live /\ d.ro = r.ro /\ d.table = r.table
  BY <1>1, DropType
<1>3. Top(r) = r.stack[len]
  BY DEF Top
<1> HIDE DEF d
<1>4. Tabled(d) = Tabled(r) /\ (OneName(d) <=> OneName(r))
  BY <1>2 DEF Tabled, OneName
<1>5. /\ d.stack \in Seq(Entries) /\ DOMAIN d.stack = 1 .. len - 1
      /\ r.stack \in Seq(Entries) /\ DOMAIN r.stack = 1 .. len
  BY <1>1, <1>2 DEF RteTypeOK
<1>6. \A i \in 1 .. len - 1 : d.stack[i] = r.stack[i]
  BY <1>2
<1>7. OneEntry(d)
  <2>1. OneEntry(r) /\ \A i \in 1 .. len - 1 : i \in 1 .. len
    BY <1>1 DEF Sound
  <2>2. QED
    BY <1>2, <1>6, <2>1 DEF OneEntry
<1>8. \A i \in 1 .. len - 1 :
        r.stack[i].obj # NoObj => r.stack[i].obj # r.stack[len].obj
  BY <1>1 DEF Sound, OneEntry
<1>9. Stacked(d) = {r.stack[i].obj : i \in 1 .. len - 1} \ {NoObj}
  BY <1>5, <1>6 DEF Stacked
<1>10. Stacked(r) = {r.stack[i].obj : i \in 1 .. len} \ {NoObj}
  BY <1>5 DEF Stacked
<1>11. \A i \in 1 .. len : i \in 1 .. len - 1 \/ i = len
  BY <1>1
<1>12. \A i \in 1 .. len - 1 : i \in 1 .. len
  BY <1>1
<1>13. Stacked(d) = Stacked(r) \ {r.stack[len].obj}
  BY <1>8, <1>9, <1>10, <1>11, <1>12
<1>14. Sound(d)
  BY <1>2, <1>4, <1>7, <1>13 DEF Sound
<1>15. QED
  BY <1>3, <1>4, <1>13, <1>14 DEF d

\* What is popped is held by whoever popped it, or still owned by a name.
LEMMA PopSound ==
  ASSUME NEW r, Sound(r), Free(r) # {}, Len(r.stack) > 0
  PROVE  LET p == Pop(r) IN
         /\ Sound(p.r)
         /\ Stacked(p.r) \subseteq Stacked(r)
         /\ p.obj \in p.r.live \ Stacked(p.r)
         /\ r.live \subseteq p.r.live
         /\ Loose(p.r) \subseteq Loose(r) \cup {p.obj}
<1> DEFINE d == Drop(r)
           p == Pop(r)
           t == Top(r)
<1>1. Sound(d) /\ Tabled(d) = Tabled(r) /\ Stacked(d) = Stacked(r) \ {t.obj}
  BY DropSound
<1>2. RteTypeOK(r)
  BY DEF Sound
<1>3. d.live = r.live /\ t \in Entries /\ RteTypeOK(d)
  BY <1>2, DropType, TopType
<1>4. t.obj # NoObj => t.obj \in Stacked(r)
  BY <1>2, StackedType DEF Top, RteTypeOK
<1>5. CASE t.obj = NoObj
  <2>1. p = Load(d, t.name, t.last)
    BY <1>5 DEF Pop
  <2>2. t.name \in Names /\ t.last \in BOOLEAN
    BY <1>3, <1>5, NullIsFree DEF Entries
  <2>3. Free(d) # {}
    BY <1>3 DEF Free
  <2>4. Loose(d) = Loose(r)
    BY <1>1, <1>3, <1>5 DEF Loose, Stacked
  <2>5. Stacked(d) = Stacked(r)
    BY <1>1, <1>5 DEF Stacked
  <2> HIDE DEF d, p, t
  <2>6. LET q == Load(d, t.name, t.last) IN
        /\ Sound(q.r) /\ Stacked(q.r) = Stacked(d)
        /\ q.obj \in q.r.live \ Stacked(q.r)
        /\ d.live \subseteq q.r.live
        /\ Loose(q.r) \subseteq Loose(d) \cup {q.obj}
    BY <1>1, <2>2, <2>3, LoadSound
  <2>7. QED
    BY <1>3, <2>1, <2>4, <2>5, <2>6 DEF p
<1>6. CASE t.obj # NoObj
  <2>1. t.obj \in r.live
    BY <1>4, <1>6 DEF Sound
  <2>2. p = [r |-> d, obj |-> t.obj]
    BY <1>6, <2>1 DEF Pop
  <2> HIDE DEF d, p, t
  <2>3. Loose(d) \subseteq Loose(r) \cup {t.obj}
    BY <1>1, <1>3 DEF Loose
  <2>4. QED
    BY <1>1, <1>3, <2>1, <2>2, <2>3 DEF p
<1>7. QED
  BY <1>5, <1>6

\* What is popped has a name only if a name was popped, other than for the last
\* time.
LEMMA PopOwner ==
  ASSUME NEW r, Sound(r), Free(r) # {}, Len(r.stack) > 0
  PROVE  LET p == Pop(r) IN
         /\ Top(r).obj # NoObj \/ Top(r).last => p.obj \notin Tabled(p.r)
         /\ Top(r).obj = NoObj /\ ~Top(r).last => p.r.table[Top(r).name] = p.obj
<1> DEFINE d == Drop(r)
           t == Top(r)
<1>1. Sound(d) /\ Tabled(d) = Tabled(r)
  BY DropSound
<1>2. RteTypeOK(r)
  BY DEF Sound
<1>3. d.live = r.live /\ t \in Entries
  BY <1>2, DropType, TopType
<1>4. CASE t.obj = NoObj
  <2>1. Pop(r) = Load(d, t.name, t.last)
    BY <1>4 DEF Pop
  <2>2. t.name \in Names /\ t.last \in BOOLEAN /\ Free(d) # {}
    BY <1>3, <1>4, NullIsFree DEF Entries, Free
  <2> HIDE DEF d, t
  <2>3. /\ t.last => Load(d, t.name, t.last).obj \notin Tabled(Load(d, t.name, t.last).r)
        /\ ~t.last => Load(d, t.name, t.last).r.table[t.name] = Load(d, t.name, t.last).obj
    BY <1>1, <2>2, LoadOwner
  <2>4. QED
    BY <1>4, <2>1, <2>3 DEF t
<1>5. CASE t.obj # NoObj
  <2>1. t.obj \in Stacked(r)
    BY <1>2, <1>5, StackedType DEF Top, RteTypeOK
  <2>2. Pop(r) = [r |-> d, obj |-> t.obj]
    BY <1>5, <2>1 DEF Pop, Sound
  <2>3. QED
    BY <1>1, <1>5, <2>1, <2>2 DEF Sound
<1>6. QED
  BY <1>4, <1>5

\* A value that is copied to be changed is loose, and no other than its owner's.
LEMMA OwnCopySound ==
  ASSUME NEW r, Sound(r), Free(r) # {}, NEW o \in r.live \ Stacked(r)
  PROVE  LET own == OwnCopy(r, o) IN
         /\ Sound(own.r)
         /\ Tabled(own.r) = Tabled(r) /\ Stacked(own.r) = Stacked(r)
         /\ own.obj \in Loose(own.r)
         /\ r.live \subseteq own.r.live
         /\ Loose(own.r) \subseteq (Loose(r) \ {o}) \cup {own.obj}
<1> DEFINE own == OwnCopy(r, o)
<1>1. CASE r.ro[o]
  <2> DEFINE n == New(r, r.val[o], FALSE)
  <2>1. own = n
    BY <1>1 DEF OwnCopy
  <2>2. /\ Sound(n.r)
        /\ Tabled(n.r) = Tabled(r) /\ Stacked(n.r) = Stacked(r)
        /\ n.obj \notin r.live
        /\ n.r.live = r.live \cup {n.obj}
    BY NewSound
  <2>3. o \in Tabled(r)
    BY <1>1 DEF Sound
  <2> HIDE DEF n, own
  <2>4. n.obj \in Loose(n.r) /\ Loose(n.r) \subseteq (Loose(r) \ {o}) \cup {n.obj}
    BY <2>2, <2>3 DEF Sound, Loose
  <2>5. QED
    BY <2>1, <2>2, <2>4 DEF own
<1>2. CASE ~r.ro[o]
  <2>1. own = [r |-> r, obj |-> o]
    BY <1>2 DEF OwnCopy
  <2>2. o \notin Tabled(r)
    BY <1>2 DEF Sound
  <2>3. QED
    BY <2>1, <2>2 DEF Loose
<1>3. QED
  BY <1>1, <1>2

-------------------------------------------------------------------------------
(***************************************************************************)
(* Whatever an operation has popped or created, it holds: nothing else is  *)
(* loose, no operand has an entry of the stack, and every result is a      *)
(* value of its own that nobody owns.                                      *)
(***************************************************************************)
ArgsSound(x) ==
  /\ ArgsTypeOK(x) /\ Sound(x.r)
  /\ \A i \in DOMAIN x.f : x.f[i] \in x.r.live \ Stacked(x.r)
  /\ \A i \in DOMAIN x.res : x.res[i] \in Loose(x.r)
  /\ \A i, j \in DOMAIN x.res : x.res[i] = x.res[j] => i = j
  /\ Loose(x.r) \subseteq Operands(x) \cup Results(x)

\* An operation holds what it popped, and nothing else is loose.
LEMMA ArgumentsSound ==
  ASSUME NEW r, Sound(r), Loose(r) = {}, Roomy(r),
         NEW k \in 0 .. 2, Len(r.stack) >= k
  PROVE  LET x == Arguments(r, k) IN
         /\ ArgsSound(x)
         /\ Len(x.f) = k /\ x.res = << >> /\ x.at = 0
<1>1. RteTypeOK(r) /\ Len(r.stack) \in Nat
  BY DEF Sound, RteTypeOK
<1> DEFINE x == Arguments(r, k)
<1>2. ArgsTypeOK(x) /\ Len(x.f) = k /\ x.res = << >> /\ x.at = 0
  BY <1>1, ArgumentsType
<1>3. DOMAIN x.f = 1 .. k
  BY <1>2 DEF ArgsTypeOK
<1>4. SUFFICES /\ Sound(x.r)
               /\ \A i \in 1 .. k : x.f[i] \in x.r.live \ Stacked(x.r)
               /\ Loose(x.r) \subseteq {x.f[i] : i \in 1 .. k}
  <2>1. Operands(x) = {x.f[i] : i \in 1 .. k}
    BY <1>2, <1>3 DEF Operands
  <2>2. DOMAIN x.res = {}
    BY <1>2
  <2> HIDE DEF x
  <2>3. QED
    BY <1>2, <1>3, <2>1, <2>2 DEF ArgsSound, x
<1>5. CASE k = 0
  <2>1. x.r = r
    BY <1>5 DEF Arguments
  <2>2. QED
    BY <1>5, <2>1
<1> DEFINE p  == Pop(r)
           pr == p.r
           po == p.obj
<1>6. ASSUME k > 0
      PROVE  /\ Sound(pr) /\ po \in pr.live \ Stacked(pr)
             /\ Loose(pr) \subseteq {po}
             /\ Len(pr.stack) = Len(r.stack) - 1
             /\ pr.live \subseteq r.live \cup {po}
  <2>1. Len(r.stack) > 0
    BY <1>1, <1>6
  <2>2. Free(r) # {}
    BY RoomyIsFree
  <2>3. QED
    BY <1>1, <2>1, <2>2, PopSound, PopType
<1>7. CASE k = 1
  <2>1. x.r = pr /\ x.f = <<po>>
    BY <1>7 DEF Arguments
  <2> HIDE DEF x, pr, po
  <2>2. \A i \in 1 .. k : i = 1 /\ x.f[i] = po
    BY <1>7, <2>1
  <2>3. po \in {x.f[i] : i \in 1 .. k}
    BY <1>7, <2>1
  <2>4. QED
    BY <1>6, <1>7, <2>1, <2>2, <2>3
<1>8. CASE k = 2
  <2> DEFINE q  == Pop(pr)
             qr == q.r
             qo == q.obj
  <2>1. x.r = qr /\ x.f = <<qo, po>>
    BY <1>8 DEF Arguments
  <2> HIDE DEF x, p, pr, po
  <2>2. /\ Sound(pr) /\ po \in pr.live \ Stacked(pr) /\ Loose(pr) \subseteq {po}
        /\ Len(pr.stack) = Len(r.stack) - 1 /\ pr.live \subseteq r.live \cup {po}
    BY <1>6, <1>8
  <2>3. Len(pr.stack) > 0
    BY <1>1, <1>8, <2>2
  <2>4. Free(pr) # {}
    <3>1. Free(r) \ {po} # {}
      BY DEF Roomy
    <3>2. QED
      BY <2>2, <3>1 DEF Free
  <2>5. /\ Sound(qr) /\ Stacked(qr) \subseteq Stacked(pr)
        /\ qo \in qr.live \ Stacked(qr)
        /\ pr.live \subseteq qr.live
        /\ Loose(qr) \subseteq Loose(pr) \cup {qo}
    BY <2>2, <2>3, <2>4, PopSound
  <2> HIDE DEF q, qr, qo
  <2>6. x.f[1] = qo /\ x.f[2] = po
    BY <2>1
  <2>7. \A i \in 1 .. k : i = 1 \/ i = 2
    BY <1>8
  <2>8. qo \in {x.f[i] : i \in 1 .. k} /\ po \in {x.f[i] : i \in 1 .. k}
    BY <1>8, <2>6
  <2>9. \A i \in 1 .. k : x.f[i] \in x.r.live \ Stacked(x.r)
    BY <2>1, <2>2, <2>5, <2>6, <2>7
  <2>10. QED
    BY <2>1, <2>2, <2>5, <2>8, <2>9
<1>9. k = 0 \/ k = 1 \/ k = 2
  OBVIOUS
<1>10. QED
  BY <1>5, <1>7, <1>8, <1>9

\* New results are loose, and held.
LEMMA CreateResultsSound ==
  ASSUME NEW x, ArgsSound(x), Roomy(x.r), NEW k \in 1 .. 2, x.res = << >>, x.at = 0
  PROVE  ArgsSound(CreateResults(x, k))
<1> DEFINE a  == New(x.r, NoValue, FALSE)
           ar == a.r
           ao == a.obj
           b  == New(ar, NoValue, FALSE)
           br == b.r
           bo == b.obj
           y  == CreateResults(x, k)
<1>1. ArgsTypeOK(x) /\ RteTypeOK(x.r)
  BY DEF ArgsSound, ArgsTypeOK
<1>2. ArgsTypeOK(y)
  BY <1>1, CreateResultsType
<1>3. /\ Sound(ar) /\ Tabled(ar) = Tabled(x.r) /\ Stacked(ar) = Stacked(x.r)
      /\ ao \notin x.r.live /\ ar.live = x.r.live \cup {ao}
  BY NewSound, RoomyIsFree DEF ArgsSound
<1>4. y = IF k = 1 THEN [x EXCEPT !.r = ar, !.res = <<ao>>]
          ELSE [x EXCEPT !.r = br, !.res = <<ao, bo>>]
  BY DEF CreateResults
<1> HIDE DEF a, ar, ao
<1>5. Free(ar) # {}
  BY <1>3, FreeAfter
<1>6. /\ Sound(br) /\ Tabled(br) = Tabled(ar) /\ Stacked(br) = Stacked(ar)
      /\ bo \notin ar.live /\ br.live = ar.live \cup {bo}
  BY <1>3, <1>5, NewSound
<1> HIDE DEF b, br, bo, y
<1>7. Operands(x) = {x.f[i] : i \in DOMAIN x.f}
  <2>1. DOMAIN x.f \ {0} = DOMAIN x.f
    BY <1>1 DEF ArgsTypeOK
  <2>2. QED
    BY <2>1 DEF Operands
<1>8. Loose(x.r) \subseteq Operands(x)
  BY DEF ArgsSound, Results
<1>9. /\ \A i \in DOMAIN x.f : x.f[i] \in x.r.live \ Stacked(x.r)
      /\ Tabled(x.r) \subseteq x.r.live /\ Stacked(x.r) \subseteq x.r.live
  BY DEF ArgsSound, Sound
<1>10. CASE k = 1
  <2>1. y.r = ar /\ y.res = <<ao>> /\ y.f = x.f /\ y.at = 0
    BY <1>1, <1>4, <1>10 DEF ArgsTypeOK
  <2>2. Operands(y) = Operands(x) /\ Results(y) = {ao}
    BY <2>1 DEF Operands, Results
  <2>3. ao \in Loose(ar)
    BY <1>3, <1>9 DEF Loose
  <2>4. Loose(ar) \subseteq Loose(x.r) \cup {ao}
    BY <1>3 DEF Loose
  <2>5. \A i \in DOMAIN y.res : i = 1 /\ y.res[i] = ao
    BY <2>1
  <2>6. \A i \in DOMAIN y.f : y.f[i] \in y.r.live \ Stacked(y.r)
    BY <1>3, <1>9, <2>1
  <2>7. \A i \in DOMAIN y.res : y.res[i] \in Loose(y.r)
    BY <2>1, <2>3, <2>5
  <2>8. Sound(y.r) /\ Loose(y.r) \subseteq Operands(y) \cup Results(y)
    BY <1>3, <1>8, <2>1, <2>2, <2>4
  <2>9. \A i, j \in DOMAIN y.res : y.res[i] = y.res[j] => i = j
    BY <2>5
  <2>10. QED
    BY <1>2, <2>6, <2>7, <2>8, <2>9 DEF ArgsSound, y
<1>11. CASE k = 2
  <2>1. y.r = br /\ y.res = <<ao, bo>> /\ y.f = x.f /\ y.at = 0
    BY <1>1, <1>4, <1>11 DEF ArgsTypeOK
  <2>2. Operands(y) = Operands(x) /\ Results(y) = {ao, bo}
    BY <2>1 DEF Operands, Results
  <2>3. ao \in Loose(br) /\ bo \in Loose(br) /\ ao # bo
    BY <1>3, <1>6, <1>9 DEF Loose
  <2>4. Loose(br) \subseteq Loose(x.r) \cup {ao, bo}
    BY <1>3, <1>6 DEF Loose
  <2>5. /\ \A i \in DOMAIN y.res : i = 1 \/ i = 2
        /\ y.res[1] = ao /\ y.res[2] = bo
    BY <2>1
  <2>6. \A i \in DOMAIN y.f : y.f[i] \in y.r.live \ Stacked(y.r)
    BY <1>3, <1>6, <1>9, <2>1
  <2>7. \A i \in DOMAIN y.res : y.res[i] \in Loose(y.r)
    BY <2>1, <2>3, <2>5
  <2>8. \A i, j \in DOMAIN y.res : y.res[i] = y.res[j] => i = j
    BY <2>3, <2>5
  <2>9. Sound(y.r) /\ Loose(y.r) \subseteq Operands(y) \cup Results(y)
    BY <1>6, <1>8, <2>1, <2>2, <2>4
  <2>10. QED
    BY <1>2, <2>6, <2>7, <2>8, <2>9 DEF ArgsSound, y
<1>12. QED
  BY <1>10, <1>11

(***************************************************************************)
(* An operand that becomes the result is loose afterwards: it was in its   *)
(* last use, or it has been copied and the table owns the original.        *)
(***************************************************************************)
LEMMA SrcDestSound ==
  ASSUME NEW x, ArgsSound(x), Free(x.r) # {}, NEW i \in 1 .. Len(x.f),
         x.res = << >>, x.at = 0
  PROVE  ArgsSound(SrcDest(x, i))
<1> DEFINE o  == x.f[i]
           d  == OwnCopy(x.r, o)
           dr == d.r
           do == d.obj
           y  == SrcDest(x, i)
<1>1. ArgsTypeOK(x) /\ Sound(x.r) /\ o \in x.r.live \ Stacked(x.r)
  BY DEF ArgsSound, ArgsTypeOK
<1>2. ArgsTypeOK(y)
  BY <1>1, SrcDestType
<1>3. y = [x EXCEPT !.r = dr, !.f[i] = do, !.res = <<do>>, !.at = i]
  BY DEF SrcDest
<1>4. /\ Sound(dr) /\ Tabled(dr) = Tabled(x.r) /\ Stacked(dr) = Stacked(x.r)
      /\ do \in Loose(dr) /\ x.r.live \subseteq dr.live
      /\ Loose(dr) \subseteq (Loose(x.r) \ {o}) \cup {do}
  BY <1>1, OwnCopySound
<1> HIDE DEF d, dr, do, y
<1>5. /\ y.r = dr /\ y.res = <<do>> /\ y.at = i
      /\ y.f = [x.f EXCEPT ![i] = do]
  BY <1>1, <1>3 DEF ArgsTypeOK
<1>6. /\ DOMAIN y.f = DOMAIN x.f /\ y.f[i] = do
      /\ \A j \in DOMAIN x.f : j # i => y.f[j] = x.f[j]
  BY <1>1, <1>5 DEF ArgsTypeOK
<1>7. Loose(x.r) \subseteq {x.f[j] : j \in DOMAIN x.f}
  BY DEF ArgsSound, Operands, Results
<1>8. Loose(x.r) \ {o} \subseteq Operands(y)
  BY <1>5, <1>6, <1>7 DEF Operands
<1>9. Results(y) = {do}
  BY <1>5 DEF Results
<1>10. \A j \in DOMAIN y.res : j = 1 /\ y.res[j] = do
  BY <1>5
<1>11. \A j \in DOMAIN y.f : y.f[j] \in y.r.live \ Stacked(y.r)
  BY <1>4, <1>5, <1>6 DEF ArgsSound, Loose
<1>12. \A j \in DOMAIN y.res : y.res[j] \in Loose(y.r)
  BY <1>4, <1>5, <1>10
<1>13. Sound(y.r) /\ Loose(y.r) \subseteq Operands(y) \cup Results(y)
  BY <1>4, <1>5, <1>8, <1>9
<1>14. \A j, k \in DOMAIN y.res : y.res[j] = y.res[k] => j = k
  BY <1>10
<1>15. QED
  BY <1>2, <1>11, <1>12, <1>13, <1>14 DEF ArgsSound, y

\* What ArgsSound says depends on who holds and owns what, not on the cells.
LEMMA SameArgsSound ==
  ASSUME NEW x, ArgsSound(x), NEW y, ArgsTypeOK(y),
         y.f = x.f, y.res = x.res, y.at = x.at,
         y.r.table = x.r.table, y.r.stack = x.r.stack,
         y.r.live = x.r.live, y.r.ro = x.r.ro
  PROVE  ArgsSound(y)
<1>1. Sound(x.r) /\ RteTypeOK(y.r)
  BY DEF ArgsSound, ArgsTypeOK
<1>2. /\ Sound(y.r) /\ Tabled(y.r) = Tabled(x.r)
      /\ Stacked(y.r) = Stacked(x.r) /\ Loose(y.r) = Loose(x.r)
  BY <1>1, SameSound
<1>3. Operands(y) = Operands(x) /\ Results(y) = Results(x)
  BY DEF Operands, Results
<1>4. QED
  BY <1>2, <1>3 DEF ArgsSound

(***************************************************************************)
(* pushResults and the destructor leave nothing loose: the results are on  *)
(* the stack, and the operands that nobody owns are deleted.               *)
(***************************************************************************)
LEMMA PushResultsSound ==
  ASSUME NEW x, ArgsSound(x)
  PROVE  Sound(PushResults(x)) /\ Loose(PushResults(x)) = {}
<1> DEFINE pushed == [i \in DOMAIN x.res |-> StackedField(x.res[i])]
           t == PushResults(x)
           n == Len(x.r.stack)
           m == Len(x.res)
<1>1. ArgsTypeOK(x) /\ RteTypeOK(x.r) /\ Sound(x.r)
  BY DEF ArgsSound, ArgsTypeOK
<1>2. /\ RteTypeOK(t)
      /\ t.stack = x.r.stack \o pushed
      /\ pushed \in Seq(Entries) /\ Len(pushed) = m
      /\ t.live = {o \in x.r.live : o \notin Operands(x) \ Results(x) \/ x.r.ro[o]}
      /\ t.ro = x.r.ro /\ t.table = x.r.table
  BY <1>1, PushResultsType
<1>3. /\ n \in Nat /\ m \in Nat
      /\ x.r.stack \in Seq(Entries) /\ x.res \in Seq(Obj)
      /\ DOMAIN x.r.stack = 1 .. n /\ DOMAIN x.res = 1 .. m
  BY <1>1 DEF ArgsTypeOK, RteTypeOK
<1>4. \A i \in 1 .. m : pushed[i].obj = x.res[i]
  BY <1>3 DEF StackedField
<1> HIDE DEF pushed, t, n, m
<1>5. /\ Len(t.stack) = n + m /\ DOMAIN t.stack = 1 .. n + m
      /\ \A i \in 1 .. n : t.stack[i] = x.r.stack[i]
      /\ \A i \in n + 1 .. n + m : t.stack[i] = pushed[i - n]
  <2>1. /\ Len(x.r.stack \o pushed) = n + m
        /\ \A i \in 1 .. n + m : (x.r.stack \o pushed)[i] =
                               IF i <= n THEN x.r.stack[i] ELSE pushed[i - n]
        /\ x.r.stack \o pushed \in Seq(Entries)
    <3>1. /\ Len(x.r.stack \o pushed) = Len(x.r.stack) + Len(pushed)
          /\ \A i \in 1 .. Len(x.r.stack) + Len(pushed) :
               (x.r.stack \o pushed)[i] =
                  IF i <= Len(x.r.stack) THEN x.r.stack[i]
                  ELSE pushed[i - Len(x.r.stack)]
          /\ x.r.stack \o pushed \in Seq(Entries)
      <4> DEFINE a == x.r.stack
      <4>1. a \in Seq(Entries) /\ pushed \in Seq(Entries)
        BY <1>2, <1>3
      <4> HIDE DEF a
      <4>2. /\ Len(a \o pushed) = Len(a) + Len(pushed)
            /\ \A i \in 1 .. Len(a) + Len(pushed) :
                 (a \o pushed)[i] =
                    IF i <= Len(a) THEN a[i] ELSE pushed[i - Len(a)]
            /\ a \o pushed \in Seq(Entries)
        BY <4>1
      <4>3. QED
        BY <4>2 DEF a
    <3>2. Len(x.r.stack) = n /\ Len(pushed) = m
      BY <1>2 DEF n
    <3>3. QED
      BY <3>1, <3>2
  <2>2. Len(t.stack) = n + m /\ DOMAIN t.stack = 1 .. n + m
    BY <1>2, <1>3, <2>1
  <2>3. \A i \in 1 .. n + m : t.stack[i] = IF i <= n THEN x.r.stack[i] ELSE pushed[i - n]
    BY <1>2, <2>1
  <2>4. \A i \in 1 .. n : i \in 1 .. n + m /\ i <= n
    BY <1>3
  <2>5. \A i \in n + 1 .. n + m : i \in 1 .. n + m /\ ~(i <= n)
    BY <1>3
  <2>6. QED
    BY <2>2, <2>3, <2>4, <2>5
<1>6. \A i \in n + 1 .. n + m : i - n \in 1 .. m /\ t.stack[i].obj = x.res[i - n]
  <2>1. \A i \in n + 1 .. n + m : i - n \in 1 .. m
    BY <1>3
  <2>2. QED
    BY <1>4, <1>5, <2>1
<1>7. \A i \in 1 .. n + m : i \in 1 .. n \/ i \in n + 1 .. n + m
  BY <1>3
<1>8. Stacked(t) = Stacked(x.r) \cup Results(x)
  <2>1. ASSUME NEW o \in Stacked(t) PROVE o \in Stacked(x.r) \cup Results(x)
    <3>1. PICK i \in 1 .. n + m : t.stack[i].obj = o /\ o # NoObj
      BY <1>5 DEF Stacked
    <3>2. CASE i \in 1 .. n
      BY <1>3, <1>5, <3>1, <3>2 DEF Stacked
    <3>3. CASE i \in n + 1 .. n + m
      BY <1>3, <1>6, <3>1, <3>3 DEF Results
    <3>4. QED
      BY <1>7, <3>1, <3>2, <3>3
  <2>2. ASSUME NEW o \in Stacked(x.r) PROVE o \in Stacked(t)
    <3>1. PICK i \in 1 .. n : x.r.stack[i].obj = o /\ o # NoObj
      BY <1>3, Zenon DEF Stacked
    <3>2. i \in DOMAIN t.stack /\ t.stack[i].obj = o
      BY <1>3, <1>5, <3>1
    <3>3. QED
      BY <3>1, <3>2 DEF Stacked
  <2>3. ASSUME NEW o \in Results(x) PROVE o \in Stacked(t)
    <3>1. PICK i \in 1 .. m : x.res[i] = o
      BY <1>3 DEF Results
    <3>2. o # NoObj
      <4>1. x.res[i] \in Obj
        BY <1>3
      <4>2. QED
        BY <3>1, <4>1, NullIsFree
    <3>3. n + i \in n + 1 .. n + m /\ (n + i) - n = i /\ n + i \in DOMAIN t.stack
      BY <1>3, <1>5
    <3>4. t.stack[n + i].obj = o
      BY <1>6, <3>1, <3>3
    <3>5. QED
      BY <3>2, <3>3, <3>4 DEF Stacked
  <2>4. QED
    BY <2>1, <2>2, <2>3
<1>9. OneEntry(t)
  <2>1. SUFFICES ASSUME NEW i \in 1 .. n + m, NEW j \in 1 .. n + m,
                        t.stack[i].obj = t.stack[j].obj, t.stack[i].obj # NoObj
                 PROVE  i = j
    BY <1>5 DEF OneEntry
  <2>2. CASE i \in 1 .. n /\ j \in 1 .. n
    BY <1>1, <1>5, <2>1, <2>2 DEF Sound, OneEntry, n
  <2>3. CASE i \in n + 1 .. n + m /\ j \in n + 1 .. n + m
    <3>1. x.res[i - n] = x.res[j - n] /\ i - n \in 1 .. m /\ j - n \in 1 .. m
      BY <1>6, <2>1, <2>3
    <3>2. i - n = j - n
      BY <1>3, <3>1 DEF ArgsSound
    <3>3. QED
      BY <1>3, <3>2
  <2>4. ASSUME NEW a \in 1 .. n, NEW b \in n + 1 .. n + m
        PROVE  t.stack[a].obj # t.stack[b].obj \/ t.stack[a].obj = NoObj
    <3>1. t.stack[a].obj # NoObj => t.stack[a].obj \in Stacked(x.r)
      BY <1>3, <1>5 DEF Stacked
    <3>2. t.stack[b].obj \in Loose(x.r)
      BY <1>3, <1>6 DEF ArgsSound
    <3>3. QED
      BY <3>1, <3>2 DEF Loose
  <2>5. QED
    BY <1>7, <2>1, <2>2, <2>3, <2>4
<1>10. /\ Tabled(t) = Tabled(x.r) /\ (OneName(t) <=> OneName(x.r))
  BY <1>2 DEF Tabled, OneName
<1>11. t.live = x.r.live \ ((Operands(x) \ Results(x)) \ Tabled(x.r))
  BY <1>1, <1>2 DEF Sound
<1>12. Results(x) \subseteq Loose(x.r) /\ Operands(x) \cap Stacked(x.r) = {}
  BY <1>3 DEF ArgsSound, Results, Operands
<1>13. Sound(t)
  <2>1. Stacked(t) \subseteq t.live /\ Tabled(t) \subseteq t.live
    BY <1>1, <1>8, <1>10, <1>11, <1>12 DEF Sound, Loose
  <2>2. Tabled(t) \cap Stacked(t) = {}
    BY <1>1, <1>8, <1>10, <1>12 DEF Sound, Loose
  <2>3. \A o \in t.live : t.ro[o] <=> o \in Tabled(t)
    BY <1>1, <1>2, <1>10 DEF Sound
  <2>4. QED
    BY <1>1, <1>2, <1>9, <1>10, <2>1, <2>2, <2>3 DEF Sound
<1>14. Loose(t) = {}
  BY <1>8, <1>10, <1>11 DEF ArgsSound, Loose
<1>15. QED
  BY <1>13, <1>14 DEF t

\* When a DomainError passes, operands and results go.
LEMMA CleanArgumentsSound ==
  ASSUME NEW x, ArgsSound(x)
  PROVE  Sound(CleanArguments(x)) /\ Loose(CleanArguments(x)) = {}
<1> DEFINE d == DeleteFromPcrme(x.r, Operands(x))
           e == DeleteFromPcrme(d, Results(x))
<1>1. Operands(x) \cap Stacked(x.r) = {} /\ Results(x) \subseteq Loose(x.r)
  BY DEF ArgsSound, Operands, Results
<1>2. /\ Sound(d) /\ Tabled(d) = Tabled(x.r) /\ Stacked(d) = Stacked(x.r)
      /\ d.live = x.r.live \ (Operands(x) \ Tabled(x.r))
  BY <1>1, DeleteSound DEF ArgsSound
<1> HIDE DEF d
<1>3. Results(x) \cap Stacked(d) = {}
  BY <1>1, <1>2 DEF Loose
<1>4. /\ Sound(e) /\ Tabled(e) = Tabled(d) /\ Stacked(e) = Stacked(d)
      /\ e.live = d.live \ (Results(x) \ Tabled(d))
  BY <1>2, <1>3, DeleteSound
<1>5. CleanArguments(x) = e
  BY DEF CleanArguments, d
<1> HIDE DEF e
<1>6. Loose(e) = {}
  BY <1>2, <1>4 DEF ArgsSound, Loose
<1>7. QED
  BY <1>4, <1>5, <1>6

-------------------------------------------------------------------------------
\* A loose value that is pushed is on the stack; a name has no owner to add.
LEMMA PushSound ==
  ASSUME NEW r, Sound(r), NEW e \in Entries, e.obj = NoObj \/ e.obj \in Loose(r)
  PROVE  LET t == PushEntry(r, e) IN
         /\ Sound(t)
         /\ Loose(t) = Loose(r) \ {e.obj}
<1> DEFINE t == PushEntry(r, e)
           n == Len(r.stack)
<1>1. RteTypeOK(r) /\ n \in Nat /\ r.stack \in Seq(Entries) /\ DOMAIN r.stack = 1 .. n
  BY DEF Sound, RteTypeOK
<1>2. /\ RteTypeOK(t) /\ t.stack = Append(r.stack, e)
      /\ t.live = r.live /\ t.ro = r.ro /\ t.table = r.table
  BY <1>1, PushType
<1> HIDE DEF t
<1>3. /\ Len(t.stack) = n + 1 /\ DOMAIN t.stack = 1 .. n + 1
      /\ \A i \in 1 .. n : t.stack[i] = r.stack[i]
      /\ t.stack[n + 1] = e
  BY <1>1, <1>2
<1>4. Tabled(t) = Tabled(r) /\ (OneName(t) <=> OneName(r))
  BY <1>2 DEF Tabled, OneName
<1>5. /\ \A i \in 1 .. n + 1 : i \in 1 .. n \/ i = n + 1
      /\ \A i \in 1 .. n : i \in 1 .. n + 1
      /\ n + 1 \in 1 .. n + 1
  BY <1>1
<1>6. Stacked(t) = Stacked(r) \cup ({e.obj} \ {NoObj})
  BY <1>1, <1>3, <1>5 DEF Stacked
<1>7. \A i \in 1 .. n : r.stack[i].obj # NoObj => r.stack[i].obj \in Stacked(r)
  BY <1>1 DEF Stacked
<1>8. \A i \in 1 .. n : t.stack[i].obj = e.obj => e.obj = NoObj
  BY <1>3, <1>7 DEF Loose
<1>9. \A i, j \in 1 .. n : t.stack[i].obj = t.stack[j].obj /\ t.stack[i].obj # NoObj
                             => i = j
  BY <1>3 DEF Sound, OneEntry
<1>10. OneEntry(t)
  <2>1. SUFFICES ASSUME NEW i \in 1 .. n + 1, NEW j \in 1 .. n + 1,
                        t.stack[i].obj = t.stack[j].obj, t.stack[i].obj # NoObj
                 PROVE  i = j
    BY <1>3 DEF OneEntry
  <2>2. QED
    BY <1>3, <1>5, <1>8, <1>9, <2>1
<1>11. Sound(t)
  <2>1. Stacked(t) \subseteq t.live /\ Tabled(t) \cap Stacked(t) = {}
    BY <1>2, <1>4, <1>6 DEF Sound, Loose
  <2>2. Tabled(t) \subseteq t.live /\ \A o \in t.live : t.ro[o] <=> o \in Tabled(t)
    BY <1>2, <1>4 DEF Sound
  <2>3. QED
    BY <1>2, <1>4, <1>10, <2>1, <2>2 DEF Sound
<1>12. Loose(t) = Loose(r) \ {e.obj}
  <2>1. NoObj \notin Loose(r)
    BY <1>1, NullIsFree DEF RteTypeOK, Loose
  <2>2. QED
    BY <1>2, <1>4, <1>6, <2>1 DEF Loose
<1>13. QED
  BY <1>11, <1>12 DEF t

\* A field that is popped and pushed again has the stack as its owner still.
LEMMA RepushOwned ==
  ASSUME NEW r, Sound(r), Loose(r) = {}, Free(r) # {}, Len(r.stack) > 0,
         Top(r).obj # NoObj \/ Top(r).last
  PROVE  Sound(Repush(r)) /\ Loose(Repush(r)) = {}
<1> DEFINE p == Pop(r)
           q == p.r
           o == p.obj
           e == StackedField(o)
<1>1. /\ Sound(q) /\ o \in q.live \ Stacked(q) /\ Loose(q) \subseteq {o}
      /\ o \notin Tabled(q)
  BY PopSound, PopOwner
<1>2. Repush(r) = PushEntry(q, e)
  BY DEF Repush
<1> HIDE DEF p, q, o
<1>3. o \in Obj /\ o \in Loose(q)
  BY <1>1 DEF Sound, RteTypeOK, Loose
<1>4. e \in Entries /\ e.obj = o
  BY <1>3, StackFieldType DEF StackedField
<1> HIDE DEF e
<1>5. Sound(PushEntry(q, e)) /\ Loose(PushEntry(q, e)) = Loose(q) \ {e.obj}
  BY <1>1, <1>3, <1>4, PushSound
<1>6. QED
  BY <1>1, <1>2, <1>4, <1>5

\* Neither the value nor its flag can be lost while another name owns it.
LEMMA DeleteValueSound ==
  ASSUME NEW r, Sound(r), NEW n \in Names
  PROVE  LET d == DeleteValue(r, n) IN
         /\ Sound(d)
         /\ Stacked(d) = Stacked(r)
         /\ Loose(d) \subseteq Loose(r)
<1> DEFINE d == DeleteValue(r, n)
           o == r.table[n]
<1>1. RteTypeOK(r) /\ r.table \in [Names -> Obj \cup {NoObj}]
  BY DEF Sound, RteTypeOK
<1>2. /\ RteTypeOK(d)
      /\ d.live = {v \in r.live : v # r.table[n]}
      /\ d.table = [r.table EXCEPT ![n] = NoObj]
      /\ d.ro = r.ro /\ d.stack = r.stack
  <2>1. d.live = {v \in r.live : v # r.table[n]}
    BY <1>1, DeleteValueType, ZenonT(40)
  <2>2. /\ RteTypeOK(d) /\ d.table = [r.table EXCEPT ![n] = NoObj]
        /\ d.ro = r.ro /\ d.stack = r.stack
    BY <1>1, DeleteValueType
  <2>3. QED
    BY <2>1, <2>2
<1> HIDE DEF d
<1>3. Tabled(d) = Tabled(r) \ {o}
  BY <1>1, <1>2 DEF Tabled, Sound, OneName
<1>4. o # NoObj => o \in Tabled(r)
  BY <1>1 DEF Tabled
<1>5. Stacked(d) = Stacked(r) /\ (OneEntry(d) <=> OneEntry(r))
  BY <1>2 DEF Stacked, OneEntry
<1>6. OneName(d)
  BY <1>1, <1>2 DEF Sound, OneName
<1>7. o \notin Stacked(r)
  BY <1>4 DEF Sound, Stacked
<1>8. Tabled(d) \subseteq d.live /\ Stacked(d) \subseteq d.live
  BY <1>2, <1>3, <1>5, <1>7 DEF Sound
<1>9. \A v \in d.live : d.ro[v] <=> v \in Tabled(d)
  BY <1>2, <1>3 DEF Sound
<1>10. Sound(d)
  BY <1>2, <1>3, <1>5, <1>6, <1>8, <1>9 DEF Sound
<1>11. Loose(d) \subseteq Loose(r)
  BY <1>2, <1>3, <1>5 DEF Loose
<1>12. QED
  BY <1>5, <1>10, <1>11 DEF d

(***************************************************************************)
(* resetValue gives the value to the name, and deletes the value that the  *)
(* name had: no other name and no entry of the stack has it.               *)
(***************************************************************************)
LEMMA ResetValueSound ==
  ASSUME NEW r, Sound(r), Free(r) # {}, NEW n \in Names,
         NEW o \in r.live \ Stacked(r), Loose(r) \subseteq {o}
  PROVE  Sound(ResetValue(r, n, o)) /\ Loose(ResetValue(r, n, o)) = {}
<1> DEFINE own == OwnCopy(r, o)
           s   == own.r
           u   == own.obj
           t   == ResetValue(r, n, o)
           old == r.table[n]
<1>1. RteTypeOK(r) /\ o \in Obj
  BY DEF Sound, RteTypeOK
<1>2. /\ Sound(s)
      /\ Tabled(s) = Tabled(r) /\ Stacked(s) = Stacked(r)
      /\ u \in Loose(s)
      /\ Loose(s) \subseteq (Loose(r) \ {o}) \cup {u}
  BY OwnCopySound
<1>3. s.table = r.table /\ s.stack = r.stack
  BY <1>1, OwnCopyType
<1>4. RteTypeOK(s) /\ s.table \in [Names -> Obj \cup {NoObj}] /\ s.ro \in [Obj -> BOOLEAN]
      /\ u \in Obj
  <2>1. RteTypeOK(s)
    BY <1>2 DEF Sound
  <2>2. QED
    BY <1>2, <2>1 DEF RteTypeOK, Loose
<1>5. old # NoObj => old \in Tabled(r)
  BY <1>1, TabledType
<1>6. u # old
  BY <1>2, <1>4, <1>5, NullIsFree DEF Loose
<1>7. /\ RteTypeOK(t) /\ t.stack = r.stack
      /\ t.table = [r.table EXCEPT ![n] = u]
      /\ t.ro = [s.ro EXCEPT ![u] = TRUE]
      /\ t.live = {v \in s.live : v # old}
  <2> HIDE DEF own, t
  <2>1. /\ RteTypeOK(t) /\ t.stack = r.stack
        /\ own.obj # r.table[n] =>
             /\ t.table = [r.table EXCEPT ![n] = own.obj]
             /\ t.ro = [own.r.ro EXCEPT ![own.obj] = TRUE]
             /\ t.live = {v \in own.r.live : v # r.table[n]}
    BY <1>1, ResetValueType DEF own, t
  <2>2. QED
    BY <1>6, <2>1
<1> HIDE DEF own, s, u, t
<1>8. OneName(s)
  BY <1>2 DEF Sound
<1>9. Tabled(t) = (Tabled(s) \ {old}) \cup {u}
  <2>1. ASSUME NEW v \in Tabled(t) PROVE v \in (Tabled(s) \ {old}) \cup {u}
    <3>1. PICK m \in Names : t.table[m] = v /\ v # NoObj
      BY DEF Tabled
    <3>2. CASE m = n
      BY <1>3, <1>4, <1>7, <3>1, <3>2
    <3>3. CASE m # n
      BY <1>3, <1>4, <1>7, <1>8, <3>1, <3>3 DEF Tabled, OneName
    <3>4. QED
      BY <3>2, <3>3
  <2>2. u \in Tabled(t)
    BY <1>3, <1>4, <1>7, NullIsFree DEF Tabled
  <2>3. ASSUME NEW v \in Tabled(s), v # old PROVE v \in Tabled(t)
    <3>1. PICK m \in Names : s.table[m] = v /\ v # NoObj
      BY DEF Tabled
    <3>2. QED
      BY <1>3, <1>4, <1>7, <2>3, <3>1 DEF Tabled
  <2>4. QED
    BY <2>1, <2>2, <2>3
<1>10. OneName(t)
  <2>1. \A m \in Names : s.table[m] # u
    BY <1>2, <1>4, NullIsFree, TabledType DEF Loose
  <2>2. QED
    BY <1>3, <1>4, <1>7, <1>8, <2>1 DEF OneName
<1>11. Stacked(t) = Stacked(s) /\ (OneEntry(t) <=> OneEntry(s))
  BY <1>3, <1>7 DEF Stacked, OneEntry
<1>12. old \notin Stacked(s)
  BY <1>2, <1>5 DEF Sound, Stacked
<1>13. Tabled(t) \subseteq t.live /\ Stacked(t) \subseteq t.live
       /\ Tabled(t) \cap Stacked(t) = {}
  BY <1>2, <1>6, <1>7, <1>9, <1>11, <1>12 DEF Sound, Loose
<1>14. \A v \in t.live : t.ro[v] <=> v \in Tabled(t)
  <2>1. s.live \subseteq Obj
    BY <1>4 DEF RteTypeOK
  <2>2. \A v \in s.live : s.ro[v] <=> v \in Tabled(s)
    BY <1>2 DEF Sound
  <2>3. QED
    BY <1>4, <1>7, <1>9, <2>1, <2>2
<1>15. Sound(t)
  BY <1>2, <1>7, <1>10, <1>11, <1>13, <1>14 DEF Sound
<1>16. Loose(t) = {}
  BY <1>2, <1>7, <1>9, <1>11 DEF Loose
<1>17. QED
  BY <1>15, <1>16 DEF t

-------------------------------------------------------------------------------
(* Between two nodes nothing is loose *)

Owned(r) == Sound(r) /\ Loose(r) = {}

Nothing(r) == r.live = {} /\ IsEmpty(r) /\ r.stack = << >>

\* An assignment takes the value from the stack, for the name or to delete it.
LEMMA AssignStackTopOwned ==
  ASSUME NEW r, Owned(r), Roomy(r), Len(r.stack) > 0,
         NEW n \in Names, NEW lastUse \in BOOLEAN
  PROVE  Owned(AssignStackTop(r, n, lastUse))
<1> DEFINE p == Pop(r)
           q == p.r
           o == p.obj
<1>1. /\ Sound(q) /\ o \in q.live \ Stacked(q) /\ Loose(q) \subseteq {o}
      /\ q.live \subseteq r.live \cup {o}
  BY PopSound, PopType, RoomyIsFree DEF Owned, Sound
<1> HIDE DEF p, q, o
<1>2. CASE lastUse
  <2> DEFINE d == DeleteValue(q, n)
             t == DeleteFromPcrme(d, {o})
  <2>1. Sound(d) /\ Stacked(d) = Stacked(q) /\ Loose(d) \subseteq Loose(q)
    BY <1>1, DeleteValueSound
  <2>2. AssignStackTop(r, n, lastUse) = t
    BY <1>2 DEF AssignStackTop, p, q, o
  <2> HIDE DEF d
  <2>3. {o} \cap Stacked(d) = {}
    BY <1>1, <2>1
  <2>4. /\ Sound(t) /\ Tabled(t) = Tabled(d) /\ Stacked(t) = Stacked(d)
        /\ t.live = d.live \ ({o} \ Tabled(d))
    BY <2>1, <2>3, DeleteSound
  <2> HIDE DEF t
  <2>5. Loose(t) = {}
    BY <1>1, <2>1, <2>4 DEF Loose
  <2>6. QED
    BY <2>2, <2>4, <2>5 DEF Owned
<1>3. CASE ~lastUse
  <2>1. AssignStackTop(r, n, lastUse) = ResetValue(q, n, o)
    BY <1>3 DEF AssignStackTop, p, q, o
  <2>2. Free(q) # {}
    BY <1>1, FreeAfter
  <2>3. QED
    BY <1>1, <2>1, <2>2, ResetValueSound DEF Owned
<1>4. QED
  BY <1>2, <1>3

\* deleteForwards: the names of a delete set lose their values and owners.
LEMMA DeleteForwardsOwned ==
  ASSUME NEW r, Owned(r), NEW names \in SUBSET Names
  PROVE  Owned(DeleteForwards(r, names))
<1> DEFINE objs == {r.table[n] : n \in names} \ {NoObj}
           t    == DeleteForwards(r, names)
<1>1. RteTypeOK(r) /\ Sound(r) /\ Loose(r) = {}
  BY DEF Owned, Sound
<1>2. /\ RteTypeOK(t)
      /\ t.live = r.live \ objs
      /\ t.table = [n \in Names |-> IF n \in names THEN NoObj ELSE r.table[n]]
      /\ t.stack = r.stack /\ t.ro = r.ro
  BY <1>1, DeleteForwardsType
<1> HIDE DEF t
<1>3. objs \subseteq Tabled(r)
  BY DEF Tabled
<1>4. Tabled(t) = Tabled(r) \ objs
  BY <1>1, <1>2 DEF Tabled, Sound, OneName
<1> HIDE DEF objs
<1>5. Stacked(t) = Stacked(r) /\ (OneEntry(t) <=> OneEntry(r))
  BY <1>2 DEF Stacked, OneEntry
<1>6. OneName(t)
  BY <1>1, <1>2 DEF Sound, OneName
<1>7. Tabled(t) \subseteq t.live /\ Stacked(t) \subseteq t.live
      /\ Tabled(t) \cap Stacked(t) = {}
  BY <1>1, <1>2, <1>3, <1>4, <1>5 DEF Sound
<1>8. \A v \in t.live : t.ro[v] <=> v \in Tabled(t)
  BY <1>1, <1>2, <1>4 DEF Sound
<1>9. Sound(t)
  BY <1>1, <1>2, <1>5, <1>6, <1>7, <1>8 DEF Sound
<1>10. Loose(t) = {}
  BY <1>1, <1>2, <1>4, <1>5 DEF Loose
<1>11. QED
  BY <1>9, <1>10 DEF Owned, t

\* Leaving a block, with or without its delete set, leaves nothing loose.
LEMMA LeaveOwned ==
  ASSUME NEW r, Owned(r), NEW b \in BOOLEAN
  PROVE  Owned(Leave(r, b))
<1>1. CASE b
  BY <1>1 DEF Leave
<1>2. CASE ~b
  <2> DEFINE names == {n \in Names : <<Node.blk, n>> \in Script[prog].deletes}
  <2>1. Leave(r, b) = DeleteForwards(r, names)
    BY <1>2 DEF Leave
  <2>2. names \in SUBSET Names
    OBVIOUS
  <2> HIDE DEF names
  <2>3. QED
    BY <2>1, <2>2, DeleteForwardsOwned
<1>3. QED
  BY <1>1, <1>2

\* Where every value has an owner, cleaning stack and table leaves none.
LEMMA CleanLeavesNothing ==
  ASSUME NEW r, Owned(r) \/ (RteTypeOK(r) /\ Nothing(r))
  PROVE  Nothing(CleanOnException(r))
<1>1. RteTypeOK(r)
  BY DEF Owned, Sound
<1> DEFINE t == CleanOnException(r)
<1>2. /\ t.live = {o \in r.live : o \notin Stacked(r) \/ r.ro[o]} \ Tabled(r)
      /\ t.stack = << >> /\ IsEmpty(t)
  BY <1>1, CleanOnExceptionType
<1> HIDE DEF t
<1>3. t.live = {}
  <2>1. CASE Owned(r)
    BY <1>2, <2>1 DEF Owned, Sound, Loose
  <2>2. CASE Nothing(r)
    BY <1>2, <2>2 DEF Nothing
  <2>3. QED
    BY <2>1, <2>2
<1>4. QED
  BY <1>2, <1>3 DEF Nothing, t

\* Wherever the result goes, an operation holds its operands and results.
LEMMA PreparedSound ==
  ASSUME NEW a, ArgsSound(a), Roomy(a.r), a.res = << >>, a.at = 0,
         NEW node, WellFormedExpr(node), node.fn \notin {"nop", "timeoutput"},
         Len(a.f) = node.k
  PROVE  ArgsSound(Prepared(a, node.fn, node.r))
<1> DEFINE k == node.k
           fn == node.fn
<1>1. Free(a.r) # {} /\ k \in 0 .. 2
  BY RoomyIsFree DEF WellFormedExpr
<1>2. ASSUME NEW i \in 1 .. k PROVE ArgsSound(SrcDest(a, i))
  <2>1. i \in 1 .. Len(a.f)
    OBVIOUS
  <2>2. QED
    BY <1>1, <2>1, SrcDestSound
<1>3. CASE fn \in {"same1", "left"}
  <2>1. Prepared(a, node.fn, node.r) = SrcDest(a, 1) /\ 1 \in 1 .. k
    BY <1>1, <1>3 DEF Prepared, WellFormedExpr
  <2>2. QED
    BY <1>2, <2>1
<1>4. CASE fn = "right"
  <2>1. Prepared(a, node.fn, node.r) = SrcDest(a, 2) /\ 2 \in 1 .. k
    BY <1>1, <1>4 DEF Prepared, WellFormedExpr
  <2>2. QED
    BY <1>2, <2>1
<1>5. CASE fn = "comm"
  <2> DEFINE i == IF a.r.ro[a.f[1]] THEN 2 ELSE 1
  <2>1. Prepared(a, node.fn, node.r) = SrcDest(a, i) /\ i \in 1 .. k
    BY <1>1, <1>5 DEF Prepared, WellFormedExpr
  <2> HIDE DEF i
  <2>2. QED
    BY <1>2, <2>1
<1>6. CASE fn \in {"diff", "two", "accu"}
  <2>1. Prepared(a, node.fn, node.r) = CreateResults(a, node.r)
    BY <1>6 DEF Prepared
  <2>2. node.r \in 1 .. 2
    BY DEF WellFormedExpr
  <2>3. QED
    BY <2>1, <2>2, CreateResultsSound
<1>7. QED
  BY <1>3, <1>4, <1>5, <1>6 DEF WellFormedExpr, Operators

\* Up to the point where it may fail, an operation holds all that is loose.
LEMMA ReadySound ==
  ASSUME NEW r, Owned(r), Cardinality(Free(r)) >= 4,
         NEW node, WellFormedExpr(node), node.fn \notin {"nop", "timeoutput"},
         Len(r.stack) >= node.k
  PROVE  ArgsSound(Ready(r, node))
<1> DEFINE k == node.k
           a == Arguments(r, k)
<1>1. /\ k \in 0 .. 2 /\ Roomy(r) /\ Len(r.stack) >= k
      /\ RteTypeOK(r) /\ Sound(r) /\ Loose(r) = {}
  BY RoomyAtFirst DEF WellFormedExpr, Owned, Sound
<1> HIDE DEF k
<1>2. /\ Len(a.f) = k /\ a.res = << >> /\ a.at = 0 /\ ArgsSound(a)
  BY <1>1, ArgumentsSound
<1>3. Roomy(a.r)
  BY <1>1, ArgumentsType
<1> HIDE DEF a
<1> DEFINE x == Prepared(a, node.fn, node.r)
<1>4. ArgsSound(x) /\ ArgsTypeOK(x) /\ Len(x.f) = node.k
  <2>1. ArgsTypeOK(a)
    BY <1>2 DEF ArgsSound
  <2>2. QED
    BY <1>2, <1>3, <2>1, PreparedSound, PreparedType DEF k
<1> HIDE DEF x
<1> DEFINE vals == [i \in 1 .. node.r |-> Semantics!Result(node.fn, Inputs(a, node.fn), i)]
           y == Computed(x, vals)
<1>5. Ready(r, node) = IF node.fn = "accu" THEN [y EXCEPT !.r = LeaveGraph(y.r, y.f[1])] ELSE y
  BY DEF Ready, x, a, k
<1> HIDE DEF vals
<1>6. /\ ArgsTypeOK(y) /\ y.f = x.f /\ y.res = x.res /\ y.at = x.at
      /\ y.r.stack = x.r.stack /\ y.r.table = x.r.table
      /\ y.r.live = x.r.live /\ y.r.ro = x.r.ro
  BY <1>4, ComputedType
<1> HIDE DEF y
<1>7. ArgsSound(y)
  BY <1>4, <1>6, SameArgsSound
<1>8. CASE node.fn = "accu"
  <2>1. y.f[1] \in Obj /\ RteTypeOK(y.r)
    BY <1>4, <1>6, <1>8 DEF ArgsTypeOK, WellFormedExpr
  <2> DEFINE g == LeaveGraph(y.r, y.f[1])
             z == [y EXCEPT !.r = g]
  <2>2. /\ RteTypeOK(g)
        /\ g.stack = y.r.stack /\ g.table = y.r.table /\ g.live = y.r.live /\ g.ro = y.r.ro
    BY <2>1, LeaveGraphType
  <2>3. Ready(r, node) = z
    BY <1>5, <1>8
  <2> HIDE DEF g
  <2>4. /\ DOMAIN z = DOMAIN y /\ z.r = g
        /\ z.f = y.f /\ z.res = y.res /\ z.at = y.at
    BY <1>6 DEF ArgsTypeOK
  <2> HIDE DEF z
  <2>5. ArgsTypeOK(z)
    BY <1>6, <2>2, <2>4 DEF ArgsTypeOK
  <2>6. ArgsSound(z)
    BY <1>7, <2>2, <2>4, <2>5, SameArgsSound
  <2>7. QED
    BY <2>3, <2>6
<1>9. CASE node.fn # "accu"
  BY <1>5, <1>7, <1>9
<1>10. QED
  BY <1>8, <1>9

-------------------------------------------------------------------------------
(* What is on top of the stack when a node is visited *)

\* The node whose value is on top of the stack when node i is visited: the one
\* before, but a deferred operator leaves the stack as it is.
Before(c, i) == IF i > 1 /\ IsDeferred(c[i - 1]) THEN i - 2 ELSE i - 1

\* The entry e is what node i of script p pushed.
Shows(p, i, e) ==
  LET c == Script[p].code IN
  /\ PushesField(c[i]) => e.obj # NoObj
  /\ c[i].op = "par" => e = StackedValue(c[i].name, <<i, 0>> \in Script[p].last)

\* Node i pushed the topmost entries of the stack s, or the topmost one and
\* the node before it the next.
ShowsOperands(p, s, i) ==
  LET c == Script[p].code
      n == Len(s)
  IN /\ n >= 1 /\ Shows(p, i, s[n])
     /\ c[i].op = "par" /\ i > 1 /\ IsOperand(c[i - 1]) =>
          n >= 2 /\ Shows(p, i - 1, s[n - 1])
     /\ c[i].op = "expr" /\ c[i].fn = "two" /\ c[i].r = 2 =>
          n >= 2 /\ s[n - 1].obj # NoObj

StackInv ==
  LET i == Before(Code, cur) IN
  status = "running" /\ cur # 0 /\ Node.op # "enter" /\ i >= 1 /\ IsOperand(Code[i])
    => ShowsOperands(prog, rte.stack, i)

\* An operand that becomes the result is the only result.
LEMMA SrcDestOne ==
  ASSUME NEW x, ArgsTypeOK(x), Free(x.r) # {}, NEW i \in 1 .. Len(x.f)
  PROVE  Len(SrcDest(x, i).res) = 1
<1> DEFINE y == SrcDest(x, i)
<1>1. Len(y.res) = 1
  <2> HIDE DEF y
  <2>1. ArgsTypeOK(y) /\ Len(y.res) = 1
    BY SrcDestType DEF y
  <2>2. QED
    BY <2>1
<1>2. QED
  BY <1>1

\* An operation has at least one result, and "two" has two.
LEMMA ReadyResults ==
  ASSUME NEW r, RteTypeOK(r), Cardinality(Free(r)) >= 4,
         NEW node, WellFormedExpr(node), node.fn \notin {"nop", "timeoutput"},
         Len(r.stack) >= node.k
  PROVE  LET y == Ready(r, node) IN
         /\ Len(y.res) >= 1
         /\ node.fn = "two" /\ node.r = 2 => Len(y.res) = 2
<1> DEFINE a == Arguments(r, node.k)
           x == Prepared(a, node.fn, node.r)
           vals == [i \in 1 .. node.r |-> Semantics!Result(node.fn, Inputs(a, node.fn), i)]
           y == Computed(x, vals)
           fn == node.fn
<1>1. node.k \in 0 .. 2 /\ node.r \in 1 .. 2 /\ Roomy(r)
  BY RoomyAtFirst DEF WellFormedExpr
<1>2. ArgsTypeOK(a) /\ Len(a.f) = node.k /\ Roomy(a.r) /\ a.res = << >> /\ a.at = 0
  BY <1>1, ArgumentsType
<1>3. Ready(r, node) = IF node.fn = "accu" THEN [y EXCEPT !.r = LeaveGraph(y.r, y.f[1])] ELSE y
  BY DEF Ready
<1> HIDE DEF vals, a
<1> DEFINE z == [y EXCEPT !.r = LeaveGraph(y.r, y.f[1])]
<1>4. ArgsTypeOK(x)
  BY <1>2, PreparedType
<1> HIDE DEF x
<1>5. y.res = x.res /\ ArgsTypeOK(y)
  BY <1>4, ComputedType
<1> HIDE DEF y
<1>6. z.res = y.res
  BY <1>5 DEF ArgsTypeOK
<1>7. Ready(r, node).res = x.res
  BY <1>3, <1>5, <1>6
<1> DEFINE len == Len(x.res)
<1>8. SUFFICES len \in {1, 2} /\ (node.fn = "two" /\ node.r = 2 => len = 2)
  <2> HIDE DEF len
  <2>1. Len(Ready(r, node).res) = len
    BY <1>7 DEF len
  <2>2. ASSUME len \in {1, 2} PROVE len >= 1
    BY <2>2
  <2>3. QED
    BY <2>1, <2>2
<1>9. ASSUME NEW i \in 1 .. node.k PROVE Len(SrcDest(a, i).res) = 1
  <2>1. ArgsTypeOK(a) /\ i \in 1 .. Len(a.f) /\ Free(a.r) # {}
    BY <1>2, RoomyIsFree
  <2>2. QED
    BY <2>1, SrcDestOne
<1>10. Len(CreateResults(a, node.r).res) = node.r
  BY <1>1, <1>2, CreateResultsType
<1>11. CASE fn \in {"diff", "two", "accu"}
  <2>1. x = CreateResults(a, node.r)
    BY <1>11 DEF Prepared, x
  <2>2. len = node.r
    BY <1>10, <2>1
  <2> HIDE DEF len
  <2>3. QED
    BY <1>1, <2>2
<1>12. ASSUME fn # "two", NEW i \in 1 .. node.k, x = SrcDest(a, i)
       PROVE  len \in {1, 2} /\ (node.fn = "two" /\ node.r = 2 => len = 2)
  <2>1. len = 1
    BY <1>12, <1>9
  <2> HIDE DEF len
  <2>2. QED
    BY <1>12, <2>1
<1>13. CASE fn \in {"same1", "left"}
  <2>1. x = SrcDest(a, 1) /\ 1 \in 1 .. node.k
    BY <1>1, <1>13 DEF Prepared, x, WellFormedExpr
  <2>2. QED
    BY <1>12, <1>13, <2>1
<1>14. CASE fn = "right"
  <2>1. x = SrcDest(a, 2) /\ 2 \in 1 .. node.k
    BY <1>1, <1>14 DEF Prepared, x, WellFormedExpr
  <2>2. QED
    BY <1>12, <1>14, <2>1
<1>15. CASE fn = "comm"
  <2> DEFINE i == IF a.r.ro[a.f[1]] THEN 2 ELSE 1
  <2>1. x = SrcDest(a, i) /\ i \in 1 .. node.k
    BY <1>1, <1>15 DEF Prepared, x, WellFormedExpr
  <2> HIDE DEF i
  <2>2. QED
    BY <1>12, <1>15, <2>1
<1>16. QED
  BY <1>11, <1>13, <1>14, <1>15 DEF WellFormedExpr, Operators

\* The run starts where nothing has been pushed.
LEMMA InitStackInv == Init => StackInv
  BY DEF Init, StackInv, Before

\* What the next node finds on the stack is what this one has pushed.
LEMMA StepStackInv ==
  ASSUME TypeInv, Visiting, NEW b \in BOOLEAN, b => Node.op = "jump", Advance(b),
         UNCHANGED prog, ~IsDeferred(Node),
         IsOperand(Node) => ShowsOperands(prog, rte'.stack, cur)
  PROVE  StackInv'
<1>1. /\ TypeOK /\ cur # 0 /\ Code' = Code
  BY DEF TypeInv, Visiting, Code
<1>2. /\ cur' \in 0 .. Len(Code)
      /\ cur' # 0 => cur' = cur + 1 \/ Code[cur'].op = "enter"
  BY <1>1, SuccType
<1>3. cur \in Nat
  BY <1>1 DEF TypeOK
<1>4. SUFFICES ASSUME cur' = cur + 1, IsOperand(Code[Before(Code, cur + 1)])
               PROVE  ShowsOperands(prog, rte'.stack, Before(Code, cur + 1))
  BY <1>1, <1>2 DEF StackInv, Node
<1>5. Before(Code, cur + 1) = cur
  BY <1>1, <1>3 DEF Before, Node
<1>6. QED
  BY <1>4, <1>5 DEF Node

\* A visit to a node that pushes nothing.
LEMMA NoOperandStackInv ==
  ASSUME TypeInv, Visiting, NEW b \in BOOLEAN, b => Node.op = "jump", Advance(b),
         UNCHANGED prog, Node.op \notin {"par", "num", "expr"}
  PROVE  StackInv'
  BY StepStackInv DEF IsDeferred, IsOperand, PushesField

\* A deferred operator leaves the stack, and is the only one in its place.
LEMMA DeferStackInv ==
  ASSUME TypeInv, StackInv, DeferTimeoutput
  PROVE  StackInv'
<1>1. /\ TypeOK /\ Visiting /\ cur # 0 /\ Code' = Code /\ Advance(FALSE)
      /\ rte' = rte /\ prog' = prog /\ status = "running"
      /\ IsDeferred(Node) /\ Node.op = "expr" /\ Node = Code[cur]
  BY DEF TypeInv, Visiting, Code, DeferTimeoutput, IsDeferred, run, Node
<1>2. /\ cur' \in 0 .. Len(Code) /\ cur \in 1 .. Len(Code) /\ Len(Code) \in Nat
      /\ cur' # 0 => cur' = cur + 1 \/ Code[cur'].op = "enter"
  BY <1>1, SuccType, CodeType DEF At
<1>3. SUFFICES ASSUME cur' = cur + 1, Before(Code, cur + 1) >= 1,
                      IsOperand(Code[Before(Code, cur + 1)])
               PROVE  ShowsOperands(prog, rte.stack, Before(Code, cur + 1))
  BY <1>1, <1>2 DEF StackInv, Node
<1>4. Before(Code, cur + 1) = cur - 1 /\ cur > 1
  BY <1>1, <1>2, <1>3 DEF Before
<1>5. ~IsDeferred(Code[cur - 1])
  BY <1>3, <1>4 DEF IsDeferred, IsOperand, PushesField
<1>6. Before(Code, cur) = cur - 1
  BY <1>5 DEF Before
<1>7. QED
  BY <1>1, <1>3, <1>4, <1>6 DEF StackInv

\* A name is on top of what the node before it pushed.
LEMMA VisitParStackInv ==
  ASSUME TypeInv, StackInv, VisitPar
  PROVE  StackInv'
<1> DEFINE e == StackedValue(Node.name, IsLast(0))
           n == Len(rte.stack)
<1>1. /\ Visiting /\ Node.op = "par" /\ Advance(FALSE) /\ prog' = prog
      /\ rte' = PushEntry(rte, e) /\ status = "running" /\ cur # 0 /\ Node = Code[cur]
  BY DEF VisitPar, Visiting, run, Node
<1>2. RteTypeOK(rte) /\ e \in Entries /\ cur \in Nat
  <2>1. RteTypeOK(rte) /\ Node.name \in Names /\ IsLast(0) \in BOOLEAN
    BY <1>1, TypeOf DEF WellFormedNode, IsLast
  <2>2. QED
    BY <2>1, StackValueType DEF TypeInv, TypeOK
<1>3. e = StackedValue(Code[cur].name, <<cur, 0>> \in Script[prog].last)
  BY DEF IsLast, Node
<1> HIDE DEF e
<1>4. /\ n \in Nat /\ Len(rte'.stack) = n + 1 /\ rte'.stack[n + 1] = e
      /\ \A i \in 1 .. n : rte'.stack[i] = rte.stack[i]
  <2>1. rte'.stack = Append(rte.stack, e) /\ rte.stack \in Seq(Entries)
    BY <1>1, <1>2, PushType DEF RteTypeOK
  <2>2. QED
    BY <1>2, <2>1
<1>5. Shows(prog, cur, e)
  BY <1>1, <1>3 DEF Shows, PushesField, Code
<1>6. ASSUME cur > 1, IsOperand(Code[cur - 1])
      PROVE  n >= 1 /\ Shows(prog, cur - 1, rte.stack[n])
  <2>1. Before(Code, cur) = cur - 1
    BY <1>6 DEF Before, IsDeferred, IsOperand, PushesField
  <2>2. ShowsOperands(prog, rte.stack, cur - 1)
    BY <1>1, <1>2, <1>6, <2>1 DEF StackInv
  <2>3. QED
    BY <2>2 DEF ShowsOperands
<1>7. ShowsOperands(prog, rte'.stack, cur)
  BY <1>1, <1>4, <1>5, <1>6 DEF ShowsOperands, Code
<1>8. QED
  BY <1>1, <1>7, StepStackInv DEF IsDeferred

\* A number is a new field.
LEMMA VisitNumberStackInv ==
  ASSUME TypeInv, VisitNumber
  PROVE  StackInv'
<1> DEFINE new == New(rte, <<"number", << >> >>, FALSE)
           q == new.r
           e == StackedField(new.obj)
<1>1. /\ Visiting /\ Node.op = "num" /\ Advance(FALSE) /\ prog' = prog
      /\ rte' = PushEntry(q, e) /\ Node = Code[cur]
  BY DEF VisitNumber, run, Node
<1>2. RteTypeOK(rte) /\ Free(rte) # {}
  BY <1>1, TypeOf
<1>3. RteTypeOK(q) /\ new.obj \in Obj
  BY <1>2, NewType
<1>4. e \in Entries /\ e.obj # NoObj
  BY <1>3, StackFieldType, NullIsFree DEF StackedField
<1> HIDE DEF q, e, new
<1>5. Len(rte'.stack) >= 1 /\ rte'.stack[Len(rte'.stack)] = e
  <2>1. rte'.stack = Append(q.stack, e) /\ q.stack \in Seq(Entries)
    BY <1>1, <1>3, <1>4, PushType DEF RteTypeOK
  <2>2. QED
    BY <1>4, <2>1
<1>6. ShowsOperands(prog, rte'.stack, cur)
  BY <1>1, <1>4, <1>5 DEF ShowsOperands, Shows, Code
<1>7. QED
  BY <1>1, <1>6, StepStackInv DEF IsDeferred

\* An operation pushes its results, a conversion the field that it popped.
LEMMA VisitExprStackInv ==
  ASSUME TypeInv, VisitExpr
  PROVE  StackInv'
<1> DEFINE s == rte'.stack
           n == Len(s)
<1>1. /\ Visiting /\ Node.op = "expr" /\ Node.fn # "timeoutput"
      /\ Advance(FALSE) /\ prog' = prog /\ Node = Code[cur]
      /\ rte' = IF Node.fn = "nop" THEN Repush(rte) ELSE PushResults(Ready(rte, Node))
  BY DEF VisitExpr, run, Node
<1>2. /\ RteTypeOK(rte) /\ Free(rte) # {} /\ Cardinality(Free(rte)) >= 4
      /\ WellFormedExpr(Node) /\ Len(rte.stack) >= Node.k
  BY <1>1, TypeOf DEF WellFormedNode, Pops
<1>3. SUFFICES /\ n >= 1 /\ s[n].obj # NoObj
               /\ Node.fn = "two" /\ Node.r = 2 => n >= 2 /\ s[n - 1].obj # NoObj
  <2>1. ShowsOperands(prog, s, cur)
    BY <1>1, <1>3 DEF ShowsOperands, Shows, Code
  <2>2. QED
    BY <1>1, <2>1, StepStackInv DEF IsDeferred
<1>4. CASE Node.fn = "nop"
  <2> DEFINE p == Pop(rte)
             q == p.r
             e == StackedField(p.obj)
  <2>1. Len(rte.stack) > 0
    BY <1>1, <1>2, <1>4, TypeOf DEF WellFormedExpr
  <2>2. RteTypeOK(q) /\ p.obj \in Obj
    BY <1>2, <2>1, PopType
  <2>3. e \in Entries /\ e.obj # NoObj
    BY <2>2, StackFieldType, NullIsFree DEF StackedField
  <2>4. rte' = PushEntry(q, e)
    BY <1>1, <1>4 DEF Repush
  <2> HIDE DEF p, q, e
  <2>5. s = Append(q.stack, e) /\ q.stack \in Seq(Entries)
    BY <2>2, <2>3, <2>4, PushType DEF RteTypeOK
  <2>6. QED
    BY <1>4, <2>3, <2>5
<1>5. CASE Node.fn # "nop"
  <2> DEFINE x == Ready(rte, Node)
             pushed == [i \in DOMAIN x.res |-> StackedField(x.res[i])]
  <2>1. ArgsTypeOK(x)
    BY <1>1, <1>2, <1>5, ReadyType
  <2>2. /\ Len(x.res) >= 1
        /\ Node.fn = "two" /\ Node.r = 2 => Len(x.res) = 2
    BY <1>1, <1>2, <1>5, ReadyResults
  <2>3. rte' = PushResults(x)
    BY <1>1, <1>5
  <2> HIDE DEF x
  <2> DEFINE old == x.r.stack
  <2>4. /\ s = old \o pushed /\ old \in Seq(Entries)
        /\ pushed \in Seq(Entries) /\ Len(pushed) = Len(x.res)
    BY <2>1, <2>3, PushResultsType DEF ArgsTypeOK, RteTypeOK
  <2>5. \A i \in 1 .. Len(x.res) : pushed[i].obj # NoObj
    <3>1. \A i \in 1 .. Len(x.res) : i \in DOMAIN x.res /\ x.res[i] \in Obj
      BY <2>1 DEF ArgsTypeOK
    <3>2. QED
      BY <3>1, NullIsFree DEF StackedField
  <2> HIDE DEF pushed, old, s
  <2>6. /\ Len(s) = Len(old) + Len(pushed)
        /\ \A i \in 1 .. Len(pushed) : s[Len(old) + i] = pushed[i]
        /\ Len(old) \in Nat /\ Len(pushed) \in Nat
    <3>1. old \in Seq(Entries) /\ pushed \in Seq(Entries)
      BY <2>4
    <3>2. /\ Len(old \o pushed) = Len(old) + Len(pushed)
          /\ \A i \in 1 .. Len(old) + Len(pushed) :
               (old \o pushed)[i] = IF i <= Len(old) THEN old[i] ELSE pushed[i - Len(old)]
          /\ Len(old) \in Nat /\ Len(pushed) \in Nat
      BY <3>1
    <3>3. ASSUME NEW i \in 1 .. Len(pushed)
          PROVE  /\ Len(old) + i \in 1 .. Len(old) + Len(pushed)
                 /\ ~(Len(old) + i <= Len(old)) /\ (Len(old) + i) - Len(old) = i
      BY <3>2
    <3>4. QED
      BY <2>4, <3>2, <3>3
  <2>7. \A i \in 1 .. Len(pushed) : s[Len(old) + i].obj # NoObj
    BY <2>4, <2>5, <2>6
  <2> DEFINE l == Len(old)
             m == Len(pushed)
  <2> HIDE DEF l, m, n
  <2>8. /\ n = l + m /\ l \in Nat /\ m \in Nat /\ m >= 1
        /\ \A i \in 1 .. m : s[l + i].obj # NoObj
        /\ Node.fn = "two" /\ Node.r = 2 => m = 2
    BY <2>2, <2>4, <2>6, <2>7 DEF l, m, n
  <2>9. n >= 1 /\ s[n].obj # NoObj
    BY <2>8
  <2>10. ASSUME m = 2 PROVE n >= 2 /\ s[n - 1].obj # NoObj
    <3>1. n - 1 = l + 1
      BY <2>8, <2>10
    <3>2. QED
      BY <2>8, <2>10, <3>1
  <2>11. QED
    BY <2>8, <2>9, <2>10
<1>6. QED
  BY <1>4, <1>5

\* At every node the top of the stack is what the nodes before it pushed.
LEMMA NextStackInv ==
  ASSUME TypeInv, StackInv, [Next]_vars
  PROVE  StackInv'
<1>1. CASE VisitPar
  BY <1>1, VisitParStackInv
<1>2. CASE VisitNumber
  BY <1>2, VisitNumberStackInv
<1>3. CASE VisitExpr
  BY <1>3, VisitExprStackInv
<1>4. CASE DeferTimeoutput
  BY <1>4, DeferStackInv
<1>5. CASE ThrowDomainError \/ Destroy
  BY <1>5 DEF ThrowDomainError, Destroy, StackInv
<1>6. CASE VisitAss \/ AssignOutTss \/ VisitStat \/ VisitNonAssExpr \/ VisitBlockEntrance
  <2>1. Visiting /\ Advance(FALSE) /\ prog' = prog /\ Node.op \notin {"par", "num", "expr"}
    BY <1>6 DEF VisitAss, AssignOutTss, VisitStat, VisitNonAssExpr, VisitBlockEntrance, run
  <2>2. QED
    BY <2>1, NoOperandStackInv
<1>7. CASE JumpOutDynamicSection
  <2>1. /\ Visiting /\ Advance(TakeBackBranch) /\ prog' = prog /\ Node.op = "jump"
        /\ TakeBackBranch \in BOOLEAN
    BY <1>7 DEF JumpOutDynamicSection, TakeBackBranch, run
  <2>2. QED
    BY <2>1, NoOperandStackInv
<1>8. CASE JumpOutRepeatUntil
  <2>1. PICK again \in RepeatAgain : Advance(again)
    BY <1>8 DEF JumpOutRepeatUntil
  <2>2. Visiting /\ prog' = prog /\ Node.op = "jump" /\ again \in BOOLEAN
    BY <1>8 DEF JumpOutRepeatUntil, run, RepeatAgain
  <2>3. QED
    BY <2>1, <2>2, NoOperandStackInv
<1>9. CASE JumpOutCode
  <2>1. Visiting /\ Advance(FALSE) /\ prog' = prog /\ Node.op = "jump"
    BY <1>9 DEF JumpOutCode, run
  <2>2. QED
    BY <2>1, NoOperandStackInv
<1>10. CASE UNCHANGED vars
  BY <1>10 DEF vars, run, StackInv, Code, Node
<1>11. QED
  BY <1>1, <1>2, <1>3, <1>4, <1>5, <1>6, <1>7, <1>8, <1>9, <1>10 DEF Next, Closed

-------------------------------------------------------------------------------
(***************************************************************************)
(* The executor.  A conversion to the type that the operand has pushes the *)
(* value it popped: here its operand is not a name that keeps its value.   *)
(***************************************************************************)
NoNamesConverted == \A p \in DOMAIN Script : NoNameConverted(Script[p])

OwnInv ==
  /\ TypeInv /\ StackInv
  /\ status = "running" => Owned(rte)
  /\ status # "running" => Nothing(rte)

\* A run starts with every value owned, as there is none.
LEMMA InitOwnInv == Init => OwnInv
  BY InitTypeInv, InitStackInv, EmptySound DEF Init, OwnInv, Owned

\* A visit leaves every value with its owner.
LEMMA VisitStackOwned ==
  ASSUME OwnInv, VisitPar \/ VisitNumber
  PROVE  Owned(rte')
<1>1. Visiting /\ Owned(rte) /\ TypeInv
  BY DEF VisitPar, VisitNumber, Visiting, OwnInv
<1>2. RteTypeOK(rte) /\ Free(rte) # {} /\ WellFormedNode(Code, cur) /\ Node = Code[cur]
      /\ Sound(rte) /\ Loose(rte) = {}
  BY <1>1, TypeOf DEF Owned
<1>3. CASE VisitPar
  <2> DEFINE e == StackedValue(Node.name, IsLast(0))
  <2>1. e \in Entries
    <3>1. Node.name \in Names /\ IsLast(0) \in BOOLEAN
      BY <1>2, <1>3 DEF VisitPar, WellFormedNode, IsLast
    <3>2. QED
      BY <3>1, StackValueType
  <2>2. rte' = PushEntry(rte, e)
    BY <1>3 DEF VisitPar
  <2>3. e.obj = NoObj
    BY DEF StackedValue
  <2> HIDE DEF e
  <2>4. QED
    BY <1>2, <2>1, <2>2, <2>3, PushSound DEF Owned
<1>4. CASE VisitNumber
  <2> DEFINE new == New(rte, <<"number", << >> >>, FALSE)
             q == new.r
             o == new.obj
             e == StackedField(o)
  <2>1. /\ Sound(q) /\ Tabled(q) = Tabled(rte) /\ Stacked(q) = Stacked(rte)
        /\ o \notin rte.live /\ q.live = rte.live \cup {o}
    BY <1>2, NewSound
  <2>2. o \in Obj
    BY <1>2, NewType
  <2>3. rte' = PushEntry(q, e)
    BY <1>4 DEF VisitNumber
  <2> HIDE DEF new, q, o
  <2>4. e \in Entries /\ e.obj = o
    BY <2>2, StackFieldType DEF StackedField
  <2>5. Loose(q) = {o}
    BY <1>2, <2>1 DEF Loose, Sound
  <2> HIDE DEF e
  <2>6. QED
    BY <2>1, <2>3, <2>4, <2>5, PushSound DEF Owned
<1>5. QED
  BY <1>3, <1>4

\* After an operation its results are on the stack and nothing is loose.
LEMMA VisitExprOwned ==
  ASSUME NoNamesConverted, OwnInv, VisitExpr
  PROVE  Owned(rte')
<1>1. /\ Visiting /\ Node.op = "expr" /\ Node.fn # "timeoutput"
      /\ rte' = IF Node.fn = "nop" THEN Repush(rte) ELSE PushResults(Ready(rte, Node))
      /\ Owned(rte) /\ TypeInv /\ status = "running" /\ cur # 0 /\ Node = Code[cur]
  BY DEF VisitExpr, Visiting, OwnInv, Node
<1>2. /\ Cardinality(Free(rte)) >= 4 /\ Free(rte) # {}
      /\ WellFormedExpr(Node) /\ Len(rte.stack) >= Node.k /\ Len(rte.stack) \in Nat
  BY <1>1, TypeOf DEF WellFormedNode, Pops
<1>3. CASE Node.fn = "nop"
  <2>1. prog \in DOMAIN Script /\ cur \in 1 .. Len(Code)
    BY <1>1, VisitingType DEF TypeInv, TypeOK, At
  <2>2. /\ cur > 1
        /\ \/ PushesField(Code[cur - 1])
           \/ Code[cur - 1].op = "par" /\ <<cur - 1, 0>> \in Script[prog].last
    BY <1>1, <1>2, <1>3, <2>1, TypeOf
       DEF NoNamesConverted, NoNameConverted, Code, WellFormedNode, WellFormedExpr,
           FollowsOperands, IsOperand
  <2>3. Before(Code, cur) = cur - 1
    BY <2>2 DEF Before, IsDeferred, PushesField
  <2>4. Len(rte.stack) > 0 /\ Shows(prog, cur - 1, Top(rte))
    BY <1>1, <1>2, <2>1, <2>2, <2>3 DEF OwnInv, StackInv, IsOperand, ShowsOperands, Top
  <2>5. Top(rte).obj # NoObj \/ Top(rte).last
    <3>1. CASE PushesField(Code[cur - 1])
      BY <2>4, <3>1 DEF Shows, Code
    <3>2. CASE Code[cur - 1].op = "par" /\ <<cur - 1, 0>> \in Script[prog].last
      <4>1. Top(rte) = StackedValue(Code[cur - 1].name, TRUE)
        <5>1. <<cur - 1, 0>> \in Script[prog].last <=> TRUE
          BY <3>2
        <5>2. Top(rte) = StackedValue(Code[cur - 1].name, <<cur - 1, 0>> \in Script[prog].last)
          BY <2>4, <3>2 DEF Shows, Code
        <5>3. (<<cur - 1, 0>> \in Script[prog].last) = TRUE
          BY <5>1
        <5>4. QED
          BY <5>2, <5>3
      <4>2. QED
        BY <4>1 DEF StackedValue
    <3>3. QED
      BY <2>2, <3>1, <3>2
  <2>6. QED
    BY <1>1, <1>2, <1>3, <2>4, <2>5, RepushOwned DEF Owned
<1>4. CASE Node.fn # "nop"
  <2> DEFINE x == Ready(rte, Node)
  <2>1. ArgsSound(x)
    BY <1>1, <1>2, <1>4, ReadySound
  <2>2. rte' = PushResults(x)
    BY <1>1, <1>4
  <2> HIDE DEF x
  <2>3. QED
    BY <2>1, <2>2, PushResultsSound DEF Owned
<1>5. QED
  BY <1>3, <1>4

\* A domain error leaves nothing on the heap.
LEMMA ThrowNothing ==
  ASSUME OwnInv, ThrowDomainError
  PROVE  Nothing(rte')
<1>1. /\ Visiting /\ Node.op = "expr" /\ Node.fn \notin {"nop", "timeoutput"}
      /\ rte' = CleanOnException(CleanArguments(Ready(rte, Node)))
      /\ Owned(rte) /\ TypeInv
  BY DEF ThrowDomainError, MayThrow, Visiting, OwnInv
<1>2. /\ Cardinality(Free(rte)) >= 4
      /\ WellFormedExpr(Node) /\ Len(rte.stack) >= Node.k
  BY <1>1, TypeOf DEF WellFormedNode, Pops
<1> DEFINE x == Ready(rte, Node)
           c == CleanArguments(x)
<1>3. ArgsSound(x)
  BY <1>1, <1>2, ReadySound
<1> HIDE DEF x
<1>4. Owned(c)
  BY <1>3, CleanArgumentsSound DEF Owned
<1> HIDE DEF c
<1>5. Nothing(CleanOnException(c))
  BY <1>4, CleanLeavesNothing
<1>6. QED
  BY <1>1, <1>5 DEF c, x

\* After an assignment the names own the values that were popped.
LEMMA VisitAssOwned ==
  ASSUME OwnInv, VisitAss
  PROVE  Owned(rte')
<1> DEFINE m == Node.lhs[1]
           n == Node.lhs[2]
           one == AssignStackTop(rte, m, IsLast(1))
<1>1. /\ Visiting /\ Node.op = "ass" /\ ~timeoutput
      /\ rte' = IF Len(Node.lhs) = 1 THEN one ELSE AssignStackTop(one, n, IsLast(2))
      /\ Owned(rte) /\ TypeInv
  BY DEF VisitAss, Visiting, OwnInv
<1>2. /\ RteTypeOK(rte) /\ Roomy(rte) /\ Cardinality(Free(rte)) >= 4
      /\ Len(Node.lhs) \in 1 .. 2 /\ Len(rte.stack) >= Len(Node.lhs)
      /\ Len(rte.stack) \in Nat
  BY <1>1, TypeOf DEF WellFormedNode, Pops
<1>3. \A k \in 1 .. Len(Node.lhs) : Node.lhs[k] \in Names
  BY <1>1 DEF TypeInv, Deferred, AssignsNoField, Visiting
<1>4. m \in Names /\ Len(rte.stack) > 0
  BY <1>2, <1>3
<1>5. IsLast(1) \in BOOLEAN /\ IsLast(2) \in BOOLEAN
  BY DEF IsLast
<1> HIDE DEF m, n
<1>6. Owned(one) /\ Len(one.stack) = Len(rte.stack) - 1 /\ Roomy(one)
  <2>1. Owned(one)
    BY <1>1, <1>2, <1>4, <1>5, AssignStackTopOwned
  <2>2. Len(one.stack) = Len(rte.stack) - 1 /\ Roomy(one)
    BY <1>2, <1>4, <1>5, AssignStackTopType
  <2>3. QED
    BY <2>1, <2>2
<1> HIDE DEF one
<1>7. CASE Len(Node.lhs) = 1
  BY <1>1, <1>6, <1>7
<1>8. CASE Len(Node.lhs) = 2
  <2>1. n \in Names
    BY <1>3, <1>8 DEF n
  <2>2. Len(one.stack) > 0
    BY <1>2, <1>6, <1>8
  <2>3. Owned(AssignStackTop(one, n, IsLast(2)))
    BY <1>5, <1>6, <2>1, <2>2, AssignStackTopOwned
  <2>4. QED
    BY <1>1, <1>8, <2>3
<1>9. QED
  BY <1>2, <1>7, <1>8

\* After a deferred assignment both operands are owned or gone.
LEMMA AssignOutTssOwned ==
  ASSUME OwnInv, AssignOutTss
  PROVE  Owned(rte')
<1> DEFINE x == Arguments(rte, 2)
           q == x.r
           a == x.f[1]
           b == x.f[2]
           d == DeleteFromPcrme(q, {a})
           t == DeleteFromPcrme(d, {b})
<1>1. /\ Visiting /\ Len(rte.stack) >= 2 /\ rte' = t
      /\ Owned(rte) /\ TypeInv
  BY DEF AssignOutTss, Visiting, OwnInv
<1>2. Roomy(rte) /\ 2 \in 0 .. 2
  BY <1>1, TypeOf
<1>3. ArgsSound(x) /\ Len(x.f) = 2 /\ x.res = << >> /\ x.at = 0
  BY <1>1, <1>2, ArgumentsSound DEF Owned
<1> HIDE DEF x
<1>4. DOMAIN x.f = {1, 2} /\ Results(x) = {}
  BY <1>3 DEF ArgsSound, ArgsTypeOK, Results
<1>5. Operands(x) = {a, b}
  BY <1>3, <1>4 DEF Operands
<1>6. /\ Sound(q) /\ Loose(q) \subseteq {a, b}
      /\ a \notin Stacked(q) /\ b \notin Stacked(q)
  <2>1. 1 \in DOMAIN x.f /\ 2 \in DOMAIN x.f
    BY <1>4
  <2>2. /\ Sound(x.r) /\ Loose(x.r) \subseteq {x.f[1], x.f[2]}
        /\ \A i \in DOMAIN x.f : x.f[i] \notin Stacked(x.r)
    BY <1>3, <1>4, <1>5 DEF ArgsSound
  <2>3. QED
    BY <2>1, <2>2
<1> HIDE DEF q, a, b
<1>7. /\ Sound(d) /\ Tabled(d) = Tabled(q) /\ Stacked(d) = Stacked(q)
      /\ d.live = q.live \ ({a} \ Tabled(q))
  <2>1. {a} \cap Stacked(q) = {}
    BY <1>6
  <2>2. QED
    BY <1>6, <2>1, DeleteSound
<1> HIDE DEF d
<1>8. /\ Sound(t) /\ Tabled(t) = Tabled(d) /\ Stacked(t) = Stacked(d)
      /\ t.live = d.live \ ({b} \ Tabled(d))
  <2>1. {b} \cap Stacked(d) = {}
    BY <1>6, <1>7
  <2>2. QED
    BY <1>7, <2>1, DeleteSound
<1> HIDE DEF t
<1>9. Loose(t) = {}
  BY <1>6, <1>7, <1>8 DEF Loose
<1>10. QED
  BY <1>1, <1>8, <1>9 DEF Owned

\* Leaving a block or repeating it, and popping its condition, leaves nothing loose.
LEMMA JumpOwned ==
  ASSUME OwnInv, JumpOutDynamicSection \/ JumpOutRepeatUntil \/ JumpOutCode
  PROVE  Owned(rte')
<1>1. Visiting /\ Owned(rte) /\ TypeInv
  BY DEF JumpOutDynamicSection, JumpOutRepeatUntil, JumpOutCode, Visiting, OwnInv
<1>2. CASE JumpOutDynamicSection
  <2>1. TakeBackBranch \in BOOLEAN /\ rte' = Leave(rte, TakeBackBranch)
    BY <1>2 DEF JumpOutDynamicSection, TakeBackBranch
  <2>2. QED
    BY <1>1, <2>1, LeaveOwned
<1>3. CASE JumpOutCode
  BY <1>1, <1>3, LeaveOwned DEF JumpOutCode
<1>4. CASE JumpOutRepeatUntil
  <2> DEFINE p == Pop(rte)
             q == p.r
             o == p.obj
             r == DeleteFromPcrme(q, {o})
  <2>1. PICK again \in RepeatAgain : Len(rte.stack) >= 1 /\ rte' = Leave(r, again)
    BY <1>4 DEF JumpOutRepeatUntil
  <2>2. again \in BOOLEAN
    BY DEF RepeatAgain
  <2>3. Len(rte.stack) > 0 /\ Free(rte) # {}
    BY <1>1, <2>1, TypeOf
  <2>4. Sound(q) /\ o \in q.live \ Stacked(q) /\ Loose(q) \subseteq {o}
    BY <1>1, <2>3, PopSound DEF Owned
  <2> HIDE DEF p, q, o
  <2>5. {o} \cap Stacked(q) = {}
    BY <2>4
  <2>6. /\ Sound(r) /\ Tabled(r) = Tabled(q) /\ Stacked(r) = Stacked(q)
        /\ r.live = q.live \ ({o} \ Tabled(q))
    BY <2>4, <2>5, DeleteSound
  <2> HIDE DEF r
  <2>7. Owned(r)
    BY <2>4, <2>6 DEF Owned, Loose
  <2>8. QED
    BY <2>1, <2>2, <2>7, LeaveOwned
<1>5. QED
  BY <1>2, <1>3, <1>4

\* The destructor leaves nothing on the heap, whenever it is called.
LEMMA DestroyNothing ==
  ASSUME OwnInv, Destroy
  PROVE  Nothing(rte')
<1>1. rte' = CleanOnException(rte)
  BY DEF Destroy, CleanOnException
<1>2. Owned(rte) \/ (RteTypeOK(rte) /\ Nothing(rte))
  BY DEF OwnInv, TypeInv, TypeOK
<1>3. QED
  BY <1>1, <1>2, CleanLeavesNothing

\* Every step keeps every value with one owner, or nothing when the run is over.
LEMMA NextOwnInv ==
  ASSUME NoNamesConverted, OwnInv, [Next]_vars
  PROVE  OwnInv'
<1>1. TypeInv' /\ StackInv'
  BY NextType, NextStackInv DEF OwnInv
<1>2. SUFFICES (status' = "running" /\ Owned(rte')) \/ (status' # "running" /\ Nothing(rte'))
  BY <1>1 DEF OwnInv
<1>3. CASE VisitPar \/ VisitNumber
  <2>1. status' = "running"
    BY <1>3 DEF VisitPar, VisitNumber, Visiting
  <2>2. QED
    BY <1>3, <2>1, VisitStackOwned
<1>4. CASE VisitExpr
  BY <1>4, VisitExprOwned DEF VisitExpr, Visiting
<1>5. CASE ThrowDomainError
  BY <1>5, ThrowNothing DEF ThrowDomainError
<1>6. CASE DeferTimeoutput \/ VisitStat \/ VisitNonAssExpr \/ VisitBlockEntrance
  BY <1>6 DEF DeferTimeoutput, VisitStat, VisitNonAssExpr, VisitBlockEntrance,
     Visiting, OwnInv
<1>7. CASE VisitAss
  BY <1>7, VisitAssOwned DEF VisitAss, Visiting
<1>8. CASE AssignOutTss
  BY <1>8, AssignOutTssOwned DEF AssignOutTss, Visiting
<1>9. CASE JumpOutDynamicSection \/ JumpOutRepeatUntil \/ JumpOutCode
  <2>1. status' = "running"
    BY <1>9 DEF JumpOutDynamicSection, JumpOutRepeatUntil, JumpOutCode, Visiting
  <2>2. QED
    BY <1>9, <2>1, JumpOwned
<1>10. CASE Destroy
  BY <1>10, DestroyNothing DEF Destroy
<1>11. CASE UNCHANGED vars
  BY <1>11 DEF vars, OwnInv
<1>12. QED
  BY <1>3, <1>4, <1>5, <1>6, <1>7, <1>8, <1>9, <1>10, <1>11 DEF Next, Closed

\* The invariant is stronger than the property that the runs check.
LEMMA OwnedIsOwnership == OwnInv => Ownership
<1> SUFFICES ASSUME OwnInv PROVE Ownership
  OBVIOUS
<1>1. RteTypeOK(rte)
  BY DEF OwnInv, TypeInv, TypeOK
<1>2. DOMAIN rte.stack = 1 .. Len(rte.stack)
  BY <1>1 DEF RteTypeOK
<1>3. CASE Owned(rte)
  <2>1. Sound(rte) /\ Loose(rte) = {}
    BY <1>3 DEF Owned
  <2>2. \A n \in Names : rte.table[n] # NoObj => rte.ro[rte.table[n]]
    BY <1>1, <2>1, TabledType DEF Sound
  <2>3. \A m, n \in Names : m # n /\ rte.table[m] = rte.table[n] => rte.table[m] = NoObj
    BY <2>1 DEF Sound, OneName
  <2>4. ASSUME NEW i \in DOMAIN rte.stack, rte.stack[i].obj # NoObj
        PROVE  /\ ~rte.ro[rte.stack[i].obj] /\ rte.stack[i].obj \notin Tabled(rte)
               /\ \A j \in DOMAIN rte.stack : j # i => rte.stack[j].obj # rte.stack[i].obj
    <3>1. rte.stack[i].obj \in Stacked(rte)
      BY <2>4 DEF Stacked
    <3>2. QED
      BY <1>2, <2>1, <2>4, <3>1 DEF Sound, OneEntry
  <2>5. rte.live = Tabled(rte) \cup Stacked(rte)
    BY <2>1 DEF Sound, Loose
  <2>6. QED
    BY <2>2, <2>3, <2>4, <2>5 DEF Ownership
<1>4. CASE Nothing(rte)
  <2>1. Tabled(rte) = {} /\ rte.stack = << >> /\ rte.live = {}
    BY <1>4 DEF Nothing, IsEmpty
  <2>2. \A n \in Names : rte.table[n] = NoObj
    BY <2>1 DEF Tabled
  <2>3. Stacked(rte) = {} /\ DOMAIN rte.stack = {}
    BY <2>1 DEF Stacked
  <2>4. QED
    BY <2>1, <2>2, <2>3 DEF Ownership
<1>5. QED
  BY <1>3, <1>4 DEF OwnInv

(***************************************************************************)
(* Whatever is executed, and wherever an operation fails, every value on   *)
(* the heap has one owner, a name in the table or an entry of the stack:   *)
(* what the flag readOnlyReference and the pointers of ExecArguments do    *)
(* between them.                                                           *)
(***************************************************************************)
THEOREM OwnershipCorrect ==
  ASSUME NoNamesConverted
  PROVE  Spec => []Ownership
<1>1. Spec => Init /\ [][Next]_vars
  BY DEF Spec
<1>2. OwnInv /\ [Next]_vars => OwnInv'
  BY NextOwnInv
<1>3. QED
  BY <1>1, <1>2, InitOwnInv, OwnedIsOwnership, PTL

(***************************************************************************)
(* After a run, however it ended, no value and no cache entry is left.     *)
(***************************************************************************)
THEOREM NothingLeftCorrect ==
  ASSUME NoNamesConverted
  PROVE  Spec => []NothingLeft
<1>1. Spec => Init /\ [][Next]_vars
  BY DEF Spec
<1>2. OwnInv /\ [Next]_vars => OwnInv'
  BY NextOwnInv
<1>3. OwnInv => NothingLeft
  BY DEF OwnInv, NothingLeft, Nothing
<1>4. QED
  BY <1>1, <1>2, <1>3, InitOwnInv, PTL

-------------------------------------------------------------------------------
(***************************************************************************)
(* What an operation does to the values that were there.  One that only    *)
(* adds leaves the heap, its cells, the cache and the faults; one that     *)
(* only trims deletes or gives to an owner, and writes no cells.           *)
(***************************************************************************)
NoCache(r) == \A o \in Obj : r.cache[o] = NoValue

Adds(r, s) ==
  /\ r.live \subseteq s.live
  /\ \A o \in r.live : s.val[o] = r.val[o]
  /\ s.cache = r.cache /\ s.faults = r.faults

Trims(r, s) ==
  /\ s.val = r.val
  /\ NoCache(r) => NoCache(s)
  /\ s.faults = r.faults

\* One addition after the other is one.
LEMMA AddsTwice ==
  ASSUME NEW r, NEW s, NEW t, Adds(r, s), Adds(s, t)
  PROVE  Adds(r, t)
  BY DEF Adds

\* A new value has no address of another.
LEMMA NewAdds ==
  ASSUME NEW r, RteTypeOK(r), Free(r) # {}, NEW v, NEW b
  PROVE  Adds(r, New(r, v, b).r)
<1> DEFINE o == Alloc(r)
           s == [r EXCEPT !.live = @ \cup {o}, !.ro[o] = b, !.val[o] = v]
<1>1. o \notin r.live
  BY AllocType
<1>2. New(r, v, b).r = s
  BY DEF New
<1> HIDE DEF o
<1>3. s.live = r.live \cup {o} /\ s.val = [r.val EXCEPT ![o] = v]
      /\ s.cache = r.cache /\ s.faults = r.faults
  BY DEF RteTypeOK
<1>4. \A x \in r.live : s.val[x] = r.val[x]
  BY <1>1, <1>3 DEF RteTypeOK
<1>5. QED
  BY <1>2, <1>3, <1>4 DEF Adds

\* Loading a name reads its file, or changes owners.
LEMMA LoadAdds ==
  ASSUME NEW r, RteTypeOK(r), Free(r) # {}, NEW n \in Names, NEW lastUse \in BOOLEAN
  PROVE  LET p == Load(r, n, lastUse) IN
         /\ Adds(r, p.r)
         /\ p.obj \in r.live => r.table[n] = p.obj
<1> DEFINE p == Load(r, n, lastUse)
           o == r.table[n]
           new == New(r, FileValue(n), ~lastUse)
           q == new.r
<1>1. CASE o # NoObj
  <2>1. p.obj = o
    BY <1>1 DEF Load
  <2>2. p.r = IF lastUse THEN SetTable(SetReadOnly(r, o, FALSE), n, NoObj) ELSE r
    BY <1>1 DEF Load
  <2>3. p.r.live = r.live /\ p.r.val = r.val /\ p.r.cache = r.cache /\ p.r.faults = r.faults
    BY <2>2 DEF SetTable, SetReadOnly, RteTypeOK
  <2>4. QED
    BY <2>1, <2>3 DEF Adds
<1>2. CASE o = NoObj
  <2>1. p.obj = new.obj /\ p.r = IF lastUse THEN q ELSE SetTable(q, n, new.obj)
    BY <1>2 DEF Load
  <2>2. Adds(r, q) /\ RteTypeOK(q) /\ new.obj \notin r.live
    BY NewAdds, NewType
  <2> HIDE DEF new
  <2>3. p.r.live = q.live /\ p.r.val = q.val /\ p.r.cache = q.cache /\ p.r.faults = q.faults
    BY <2>1, <2>2 DEF SetTable, RteTypeOK
  <2>4. QED
    BY <2>1, <2>2, <2>3 DEF Adds
<1>3. QED
  BY <1>1, <1>2

\* Neither a drop nor a push touches heap or cache.
LEMMA DropAdds ==
  ASSUME NEW r, RteTypeOK(r)
  PROVE  Adds(r, Drop(r)) /\ Drop(r).val = r.val
  BY DEF Drop, Adds, RteTypeOK

\* Popping reads a file at most; the value on the stack was not deleted.
LEMMA PopAdds ==
  ASSUME NEW r, Sound(r), Free(r) # {}, Len(r.stack) > 0
  PROVE  LET p == Pop(r) IN
         /\ Adds(r, p.r)
         /\ Top(r).obj # NoObj => p.r = Drop(r) /\ p.obj = Top(r).obj
<1> DEFINE p == Pop(r)
           d == Drop(r)
           e == Top(r)
<1>1. RteTypeOK(r) /\ RteTypeOK(d) /\ e \in Entries /\ d.live = r.live
      /\ Stacked(r) \subseteq r.live
  BY TopType, DropType DEF Sound
<1>2. Adds(r, d)
  BY <1>1, DropAdds
<1>3. e.obj # NoObj => e.obj \in Stacked(r)
  BY <1>1, TopType, StackedType
<1>4. CASE e.obj # NoObj
  <2>1. p.obj = e.obj /\ p.r = d
    BY <1>1, <1>3, <1>4 DEF Pop
  <2>2. QED
    BY <1>2, <2>1
<1>5. CASE e.obj = NoObj
  <2>1. e.name \in Names /\ e.last \in BOOLEAN
    BY <1>1, <1>5, NullIsFree DEF Entries
  <2>2. Free(d) # {}
    BY <1>1 DEF Free
  <2>3. p = Load(d, e.name, e.last)
    BY <1>5 DEF Pop
  <2> HIDE DEF p, d, e
  <2>4. Adds(d, p.r)
    BY <1>1, <2>1, <2>2, <2>3, LoadAdds
  <2>5. QED
    BY <1>2, <1>5, <2>4, AddsTwice DEF p, d, e
<1>6. QED
  BY <1>4, <1>5

\* A copy is a new value, and only of what is marked read-only.
LEMMA OwnCopyAdds ==
  ASSUME NEW r, RteTypeOK(r), Free(r) # {}, NEW o
  PROVE  LET own == OwnCopy(r, o) IN
         /\ Adds(r, own.r)
         /\ ~r.ro[o] => own.r = r /\ own.obj = o
<1>1. CASE r.ro[o]
  BY <1>1, NewAdds DEF OwnCopy
<1>2. CASE ~r.ro[o]
  BY <1>2 DEF OwnCopy, Adds
<1>3. QED
  BY <1>1, <1>2

\* An operation that pops its operands adds what it loads.
LEMMA ArgumentsAdds ==
  ASSUME NEW r, Sound(r), Roomy(r), NEW k \in 0 .. 2, Len(r.stack) >= k
  PROVE  Adds(r, Arguments(r, k).r)
<1> DEFINE a == Arguments(r, k)
<1>1. CASE k = 0
  BY <1>1 DEF Arguments, Adds
<1>2. CASE k = 1
  <2>1. a.r = Pop(r).r
    BY <1>2 DEF Arguments
  <2>2. Adds(r, Pop(r).r)
    BY <1>2, RoomyIsFree, PopAdds
  <2>3. QED
    BY <2>1, <2>2
<1>3. CASE k = 2
  <2> DEFINE q == Pop(r)
             qr == q.r
             p == Pop(qr)
  <2>1. a.r = p.r
    BY <1>3 DEF Arguments
  <2>2. RteTypeOK(r) /\ Free(r) # {} /\ Len(r.stack) > 0
    BY <1>3, RoomyIsFree DEF Sound
  <2>3. Adds(r, qr) /\ Sound(qr)
    BY <2>2, PopAdds, PopSound
  <2>4. Len(qr.stack) = Len(r.stack) - 1 /\ qr.live \subseteq r.live \cup {q.obj}
    BY <2>2, PopType
  <2>5. Free(qr) # {}
    BY <2>4, FreeAfter
  <2>6. Len(r.stack) \in Nat
    BY <2>2 DEF RteTypeOK
  <2> HIDE DEF q, qr
  <2> DEFINE n == Len(r.stack)
             m == Len(qr.stack)
  <2>7. m > 0
    <3>1. n \in Nat /\ n >= 2 /\ m = n - 1
      BY <1>3, <2>4, <2>6
    <3> HIDE DEF n, m
    <3>2. QED
      BY <3>1
  <2>8. Adds(qr, p.r)
    BY <2>3, <2>5, <2>7, PopAdds
  <2>9. QED
    BY <2>1, <2>3, <2>8, AddsTwice
<1>4. QED
  BY <1>1, <1>2, <1>3

\* createResults adds the results.
LEMMA CreateResultsAdds ==
  ASSUME NEW x, ArgsTypeOK(x), Roomy(x.r), NEW k \in 1 .. 2
  PROVE  Adds(x.r, CreateResults(x, k).r)
<1> DEFINE r == x.r
           a == New(r, NoValue, FALSE)
           ar == a.r
           b == New(ar, NoValue, FALSE)
           y == CreateResults(x, k)
<1>1. RteTypeOK(r) /\ Free(r) # {} /\ DOMAIN x = {"r", "f", "res", "at"}
  BY RoomyIsFree DEF ArgsTypeOK
<1>2. RteTypeOK(ar) /\ ar.live = r.live \cup {a.obj} /\ Adds(r, ar)
  BY <1>1, NewType, NewAdds
<1>3. Free(ar) # {}
  BY <1>2, FreeAfter
<1>4. Adds(ar, b.r)
  BY <1>2, <1>3, NewAdds
<1>5. Adds(r, b.r)
  BY <1>2, <1>4, AddsTwice
<1>6. y = IF k = 1 THEN [x EXCEPT !.r = ar, !.res = <<a.obj>>]
          ELSE [x EXCEPT !.r = b.r, !.res = <<a.obj, b.obj>>]
  BY DEF CreateResults
<1> HIDE DEF y, a, ar, b
<1>7. y.r = ar \/ y.r = b.r
  BY <1>1, <1>6
<1>8. QED
  BY <1>2, <1>5, <1>7 DEF y

\* srcDest adds a copy at most.
LEMMA SrcDestAdds ==
  ASSUME NEW x, ArgsTypeOK(x), Free(x.r) # {}, NEW i \in 1 .. Len(x.f)
  PROVE  Adds(x.r, SrcDest(x, i).r)
<1> DEFINE d == OwnCopy(x.r, x.f[i])
<1>1. SrcDest(x, i).r = d.r
  BY DEF SrcDest, ArgsTypeOK
<1>2. Adds(x.r, d.r)
  BY OwnCopyAdds DEF ArgsTypeOK
<1>3. QED
  BY <1>1, <1>2

\* Wherever the result goes, nothing is written before the operation computes.
LEMMA PreparedAdds ==
  ASSUME NEW a, ArgsTypeOK(a), Roomy(a.r),
         NEW node, WellFormedExpr(node), node.fn \notin {"nop", "timeoutput"},
         Len(a.f) = node.k
  PROVE  Adds(a.r, Prepared(a, node.fn, node.r).r)
<1> DEFINE fn == node.fn
           x == Prepared(a, fn, node.r)
<1>1. Free(a.r) # {} /\ node.r \in 1 .. 2 /\ node.k \in 0 .. 2
  BY RoomyIsFree DEF WellFormedExpr
<1>2. ASSUME NEW i \in 1 .. node.k PROVE Adds(a.r, SrcDest(a, i).r)
  BY <1>1, SrcDestAdds
<1>3. CASE fn \in {"same1", "left"}
  <2>1. x = SrcDest(a, 1)
    BY <1>3 DEF Prepared
  <2>2. 1 \in 1 .. node.k
    BY <1>1, <1>3 DEF WellFormedExpr
  <2>3. QED
    BY <1>2, <2>1, <2>2
<1>4. CASE fn = "right"
  <2>1. x = SrcDest(a, 2)
    BY <1>4 DEF Prepared
  <2>2. 2 \in 1 .. node.k
    BY <1>1, <1>4 DEF WellFormedExpr
  <2>3. QED
    BY <1>2, <2>1, <2>2
<1>5. CASE fn = "comm"
  <2>1. x = SrcDest(a, IF a.r.ro[a.f[1]] THEN 2 ELSE 1)
    BY <1>5 DEF Prepared
  <2>2. 1 \in 1 .. node.k /\ 2 \in 1 .. node.k
    BY <1>1, <1>5 DEF WellFormedExpr
  <2>3. QED
    BY <1>2, <2>1, <2>2
<1>6. CASE fn \in {"diff", "two", "accu"}
  <2>1. x = CreateResults(a, node.r)
    BY <1>6 DEF Prepared
  <2>2. QED
    BY <1>1, <2>1, CreateResultsAdds
<1>7. QED
  BY <1>3, <1>4, <1>5, <1>6 DEF WellFormedExpr, Operators

-------------------------------------------------------------------------------
Quiet(r, s) == s.faults = r.faults /\ (NoCache(r) => NoCache(s))

KeepsCells(r, s) == \A o \in r.live : s.val[o] = r.val[o]

\* Adding and then trimming is quiet and keeps the cells of what was there.
LEMMA AddsThenTrims ==
  ASSUME NEW r, NEW s, NEW t, Adds(r, s), Trims(s, t)
  PROVE  Quiet(r, t) /\ KeepsCells(r, t)
  BY DEF Adds, Trims, Quiet, KeepsCells, NoCache

\* Trimming twice is trimming.
LEMMA TrimsTwice ==
  ASSUME NEW r, NEW s, NEW t, Trims(r, s), Trims(s, t)
  PROVE  Trims(r, t)
  BY DEF Trims

\* Deleting writes no cells, and is no fault where all values are there.
LEMMA DeleteTrims ==
  ASSUME NEW r, RteTypeOK(r), NEW S
  PROVE  LET d == DeleteFromPcrme(r, S) IN
         /\ d.val = r.val /\ d.cache = r.cache
         /\ S \subseteq r.live => Trims(r, d)
<1> DEFINE T == {o \in S : o \notin r.live \/ ~r.ro[o]}
           d == DeleteAlways(r, T)
<1>1. DeleteFromPcrme(r, S) = d
  BY DEF DeleteFromPcrme
<1>2. T \subseteq S
  OBVIOUS
<1> HIDE DEF T
<1>3. d.val = r.val /\ d.cache = r.cache
      /\ d.faults = IF T \subseteq r.live THEN r.faults ELSE r.faults \cup {"deleted twice"}
  BY DEF DeleteAlways, RteTypeOK
<1> HIDE DEF d
<1>4. QED
  BY <1>1, <1>2, <1>3 DEF Trims, NoCache

\* deleteValue deletes what the table has, which has not been deleted.
LEMMA DeleteValueTrims ==
  ASSUME NEW r, Sound(r), NEW n \in Names
  PROVE  /\ Trims(r, DeleteValue(r, n))
         /\ \A v \in r.live : v # r.table[n] => v \in DeleteValue(r, n).live
<1> DEFINE o == r.table[n]
           c == DeleteCacheEntry(r, o)
           d == DeleteAlways(c, {o})
           t == SetTable(d, n, NoObj)
<1>1. RteTypeOK(r) /\ Tabled(r) \subseteq r.live
  BY DEF Sound
<1>2. CASE o = NoObj
  BY <1>2 DEF DeleteValue, Trims
<1>3. CASE o # NoObj
  <2>1. {o} \subseteq r.live
    BY <1>1, <1>3, TabledType
  <2>2. c.live = r.live /\ c.val = r.val /\ c.faults = r.faults
        /\ c.cache = [r.cache EXCEPT ![o] = NoValue]
        /\ DOMAIN c = DOMAIN r
    BY <1>1 DEF DeleteCacheEntry, RteTypeOK
  <2>3. NoCache(r) => NoCache(c)
    BY <1>1, <2>2 DEF NoCache, RteTypeOK
  <2> HIDE DEF c
  <2>4. d.val = c.val /\ d.faults = c.faults /\ d.cache = c.cache /\ DOMAIN d = DOMAIN c
        /\ d.live = c.live \ {o}
    BY <1>1, <2>1, <2>2 DEF DeleteAlways, RteTypeOK
  <2> HIDE DEF d
  <2>5. t.val = d.val /\ t.faults = d.faults /\ t.cache = d.cache
        /\ t.live = d.live
    BY <1>1, <2>2, <2>4 DEF SetTable, RteTypeOK
  <2>6. DeleteValue(r, n) = t
    BY <1>3 DEF DeleteValue, d, c
  <2> HIDE DEF t
  <2>7. QED
    BY <2>2, <2>3, <2>4, <2>5, <2>6, ZenonT(60) DEF Trims, NoCache
<1>4. QED
  BY <1>2, <1>3

\* resetValue writes the cells of a copy at most, and deletes what the table had.
LEMMA ResetValueQuiet ==
  ASSUME NEW r, Sound(r), Free(r) # {}, NEW n \in Names, NEW o \in r.live \ Stacked(r)
  PROVE  LET t == ResetValue(r, n, o) IN
         /\ Quiet(r, t) /\ KeepsCells(r, t)
         /\ ~r.ro[o] => t.val = r.val
<1> DEFINE own == OwnCopy(r, o)
           s   == own.r
           u   == own.obj
           old == r.table[n]
           marked == SetReadOnly(s, u, TRUE)
           freed  == IF old = NoObj THEN marked ELSE DeleteAlways(marked, {old})
           t   == ResetValue(r, n, o)
<1>1. RteTypeOK(r) /\ Tabled(r) \subseteq r.live
  BY DEF Sound
<1>2. Sound(s) /\ RteTypeOK(s)
  BY OwnCopySound DEF Sound
<1>3. Adds(r, s) /\ (~r.ro[o] => s = r)
  BY <1>1, OwnCopyAdds
<1>4. t = IF u = old THEN s ELSE SetTable(freed, n, u)
  BY DEF ResetValue
<1> HIDE DEF s, u
<1>5. old # NoObj => old \in s.live
  BY <1>1, <1>3, TabledType DEF Adds
<1>6. marked.val = s.val /\ marked.cache = s.cache /\ marked.faults = s.faults
      /\ marked.live = s.live /\ DOMAIN marked = DOMAIN s
  BY <1>2 DEF SetReadOnly, RteTypeOK
<1> HIDE DEF marked
<1>7. freed.val = s.val /\ freed.cache = s.cache /\ freed.faults = s.faults
      /\ DOMAIN freed = DOMAIN s
  BY <1>2, <1>5, <1>6 DEF DeleteAlways, RteTypeOK
<1> HIDE DEF freed
<1>8. t.val = s.val /\ t.cache = s.cache /\ t.faults = s.faults
  <2>1. LET v == SetTable(freed, n, u) IN
        v.val = s.val /\ v.cache = s.cache /\ v.faults = s.faults
    BY <1>2, <1>7 DEF SetTable, RteTypeOK
  <2>2. QED
    BY <1>4, <2>1
<1> HIDE DEF t
<1>9. Quiet(r, t) /\ KeepsCells(r, t)
  BY <1>3, <1>8 DEF Quiet, KeepsCells, Adds, NoCache
<1>10. QED
  BY <1>3, <1>8, <1>9 DEF t

(***************************************************************************)
(* An assignment writes no cells but those of a copy or of a file that it  *)
(* reads.  It deletes a value twice only where a name in use is assigned   *)
(* to itself and then never used.                                          *)
(***************************************************************************)
LEMMA AssignStackTopQuiet ==
  ASSUME NEW r, Owned(r), Roomy(r), Len(r.stack) > 0,
         NEW n \in Names, NEW lastUse \in BOOLEAN
  PROVE  LET t == AssignStackTop(r, n, lastUse) IN
         /\ KeepsCells(r, t)
         /\ Top(r).obj # NoObj => t.val = r.val
         /\ ~lastUse \/ Top(r).obj # NoObj \/ Top(r).last \/ Top(r).name # n
              => Quiet(r, t)
<1> DEFINE p == Pop(r)
           q == p.r
           o == p.obj
           t == AssignStackTop(r, n, lastUse)
<1>1. Sound(r) /\ RteTypeOK(r) /\ Free(r) # {}
  BY RoomyIsFree DEF Owned, Sound
<1>2. /\ Sound(q) /\ o \in q.live \ Stacked(q)
      /\ q.live \subseteq r.live \cup {o}
  BY <1>1, PopSound, PopType
<1>3. /\ Adds(r, q)
      /\ Top(r).obj # NoObj => q = Drop(r) /\ o = Top(r).obj
  BY <1>1, PopAdds
<1>4. /\ Top(r).obj # NoObj \/ Top(r).last => o \notin Tabled(q)
      /\ Top(r).obj = NoObj /\ ~Top(r).last => q.table[Top(r).name] = o
  BY <1>1, PopOwner
<1>5. Top(r).obj # NoObj => q.val = r.val
  BY <1>1, <1>3, DropAdds
<1>6. Free(q) # {} /\ RteTypeOK(q) /\ o \in Obj
  BY <1>2, FreeAfter DEF Sound, RteTypeOK
<1> HIDE DEF p, q, o
<1>7. CASE lastUse
  <2> DEFINE d == DeleteValue(q, n)
             e == DeleteFromPcrme(d, {o})
  <2>1. t = e
    BY <1>7 DEF AssignStackTop, p, q, o
  <2>2. Trims(q, d)
    BY <1>2, DeleteValueTrims
  <2>3. RteTypeOK(d) /\ \A v \in q.live : v # q.table[n] => v \in d.live
    <3>1. RteTypeOK(d)
      BY <1>6, DeleteValueType
    <3>2. QED
      BY <1>2, <3>1, DeleteValueTrims
  <2> HIDE DEF d
  <2>4. e.val = d.val /\ ({o} \subseteq d.live => Trims(d, e))
    BY <2>3, DeleteTrims
  <2> HIDE DEF e, t
  <2>5. t.val = q.val
    BY <2>1, <2>2, <2>4 DEF Trims
  <2>6. KeepsCells(r, t)
    BY <1>3, <2>5 DEF KeepsCells, Adds
  <2>7. ASSUME Top(r).obj # NoObj \/ Top(r).last \/ Top(r).name # n
        PROVE  Quiet(r, t)
    <3>1. q.table[n] # o
      <4>1. SUFFICES ASSUME q.table[n] = o PROVE FALSE
        OBVIOUS
      <4>2. o \in Tabled(q)
        BY <1>6, <4>1, NullIsFree, TabledType
      <4>3. Top(r).obj = NoObj /\ ~Top(r).last /\ q.table[Top(r).name] = o
        BY <1>4, <4>2
      <4>4. Top(r).name \in Names
        <5>1. Top(r) \in Entries
          BY <1>1, TopType
        <5>2. QED
          BY <4>3, <5>1, NullIsFree DEF Entries
      <4>5. Top(r).name = n
        BY <1>2, <1>6, <4>1, <4>3, <4>4, NullIsFree DEF Sound, OneName
      <4>6. QED
        BY <2>7, <4>3, <4>5
    <3>2. {o} \subseteq d.live
      BY <1>2, <2>3, <3>1
    <3>3. Trims(q, t)
      BY <2>1, <2>2, <2>4, <3>2, TrimsTwice
    <3>4. QED
      BY <1>3, <3>3, AddsThenTrims
  <2>8. QED
    BY <1>5, <1>7, <2>5, <2>6, <2>7 DEF t
<1>8. CASE ~lastUse
  <2> DEFINE s == ResetValue(q, n, o)
  <2>1. t = s
    BY <1>8 DEF AssignStackTop, p, q, o
  <2>2. Quiet(q, s) /\ KeepsCells(q, s) /\ (~q.ro[o] => s.val = q.val)
    BY <1>2, <1>6, ResetValueQuiet
  <2> HIDE DEF s
  <2>3. Top(r).obj # NoObj => ~q.ro[o]
    BY <1>2, <1>4 DEF Sound
  <2>4. Quiet(r, s) /\ KeepsCells(r, s)
    BY <1>3, <2>2 DEF Adds, Quiet, KeepsCells, NoCache
  <2>5. QED
    BY <1>5, <2>1, <2>2, <2>3, <2>4
<1>9. QED
  BY <1>7, <1>8

\* deleteForwards deletes what the table has.
LEMMA LeaveTrims ==
  ASSUME NEW r, Sound(r), NEW b \in BOOLEAN
  PROVE  Trims(r, Leave(r, b))
<1>1. CASE b
  BY <1>1 DEF Leave, Trims
<1>2. CASE ~b
  <2> DEFINE names == {n \in Names : <<Node.blk, n>> \in Script[prog].deletes}
             objs == {r.table[n] : n \in names} \ {NoObj}
             d == DeleteAlways(r, objs)
             t == DeleteForwards(r, names)
  <2>1. Leave(r, b) = t
    BY <1>2 DEF Leave
  <2>2. RteTypeOK(r) /\ Tabled(r) \subseteq r.live
    BY DEF Sound
  <2>3. objs \subseteq r.live
    BY <2>2 DEF Tabled
  <2>4. t = [d EXCEPT
               !.table = [n \in Names |-> IF n \in names THEN NoObj ELSE r.table[n]],
               !.cache = [o \in Obj |-> IF o \in objs THEN NoValue ELSE r.cache[o]]]
    BY DEF DeleteForwards
  <2> HIDE DEF names, objs
  <2>5. d.val = r.val /\ d.faults = r.faults /\ DOMAIN d = DOMAIN r
    BY <2>2, <2>3 DEF DeleteAlways, RteTypeOK
  <2> HIDE DEF d
  <2>6. t.val = r.val /\ t.faults = r.faults
        /\ t.cache = [o \in Obj |-> IF o \in objs THEN NoValue ELSE r.cache[o]]
    BY <2>2, <2>4, <2>5 DEF RteTypeOK
  <2> HIDE DEF t
  <2>7. NoCache(r) => NoCache(t)
    BY <2>6 DEF NoCache
  <2>8. QED
    BY <2>1, <2>6, <2>7 DEF Trims
<1>3. QED
  BY <1>1, <1>2

\* The end of a run deletes each value once, and empties the cache.
LEMMA CleanQuiet ==
  ASSUME NEW r, RteTypeOK(r), Sound(r) \/ Nothing(r)
  PROVE  /\ CleanOnException(r).faults = r.faults
         /\ NoCache(CleanOnException(r))
<1> DEFINE S == Stacked(r)
           d == DeleteFromPcrme(r, S)
           e == [d EXCEPT !.stack = << >>]
           c == CleanStack(r)
           a == DeleteAlways(c, Tabled(c))
           t == Clean(c)
<1>1. S \subseteq r.live /\ Tabled(r) \subseteq r.live /\ Tabled(r) \cap S = {}
  <2>1. CASE Sound(r)
    BY <2>1 DEF Sound
  <2>2. CASE Nothing(r)
    BY <2>2 DEF Nothing, IsEmpty, Stacked
  <2>3. QED
    BY <2>1, <2>2
<1>2. ~StackedTwice(r)
  <2>1. DOMAIN r.stack = 1 .. Len(r.stack)
    BY DEF RteTypeOK
  <2>2. CASE Sound(r)
    BY <2>1, <2>2 DEF Sound, OneEntry, StackedTwice
  <2>3. CASE Nothing(r)
    BY <2>3 DEF Nothing, StackedTwice
  <2>4. QED
    BY <2>2, <2>3
<1>3. RteTypeOK(d) /\ Trims(r, d)
  BY <1>1, DeleteTrims, DeleteFromPcrmeType
<1> HIDE DEF d
<1>4. e.faults = d.faults
  BY <1>3 DEF RteTypeOK
<1>5. c = e
  BY <1>2 DEF CleanStack, d
<1>6. RteTypeOK(c) /\ c.table = r.table
      /\ c.live = {o \in r.live : o \notin S \/ r.ro[o]}
  BY CleanStackType
<1> HIDE DEF c, e, S
<1>7. Tabled(c) = Tabled(r)
  BY <1>6 DEF Tabled
<1>8. Tabled(c) \subseteq c.live
  BY <1>1, <1>6, <1>7
<1>9. a.faults = c.faults /\ DOMAIN a = DOMAIN c
  BY <1>6, <1>8 DEF DeleteAlways, RteTypeOK
<1> HIDE DEF a
<1>10. t = [a EXCEPT !.table = [n \in Names |-> NoObj], !.cache = [o \in Obj |-> NoValue]]
  BY DEF Clean, a
<1>11. t.faults = c.faults /\ t.cache = [o \in Obj |-> NoValue]
  BY <1>6, <1>9, <1>10 DEF RteTypeOK
<1> HIDE DEF t
<1>12. CleanOnException(r) = t
  BY DEF CleanOnException, t, c
<1>13. QED
  BY <1>3, <1>4, <1>5, <1>11, <1>12 DEF Trims, NoCache

(***************************************************************************)
(* Up to the point where it may fail an operation writes its results only, *)
(* and nothing goes wrong but with a cached graph.                         *)
(***************************************************************************)
GraphFaults == {"graph deleted twice"}

\* Computing writes the cells of the results.
LEMMA ComputedCells ==
  ASSUME NEW x, ArgsTypeOK(x), NEW vals
  PROVE  LET y == Computed(x, vals) IN
         /\ \A o \in Obj \ Results(x) : y.r.val[o] = x.r.val[o]
         /\ y.r.faults = x.r.faults /\ y.r.cache = x.r.cache
         /\ y.res = x.res /\ y.f = x.f /\ y.at = x.at
<1> DEFINE w == [o \in Obj |-> IF \E i \in DOMAIN x.res : x.res[i] = o
                    THEN vals[CHOOSE i \in DOMAIN x.res : x.res[i] = o]
                    ELSE x.r.val[o]]
           y == Computed(x, vals)
<1>1. y = [x EXCEPT !.r.val = w]
  BY DEF Computed
<1>2. \A o \in Obj \ Results(x) : w[o] = x.r.val[o]
  BY DEF Results
<1> HIDE DEF w
<1>3. y.r.val = w /\ y.r.faults = x.r.faults /\ y.r.cache = x.r.cache
      /\ y.res = x.res /\ y.f = x.f /\ y.at = x.at
  BY <1>1 DEF ArgsTypeOK, RteTypeOK
<1>4. QED
  BY <1>2, <1>3

\* A graph that is left concerns the cache, and an ldd with one may be the fault.
LEMMA LeaveGraphFaults ==
  ASSUME NEW r, RteTypeOK(r), NEW o \in Obj
  PROVE  LET t == LeaveGraph(r, o) IN
         /\ t.val = r.val
         /\ t.faults \subseteq r.faults \cup GraphFaults
         /\ ~EnableCache /\ NoCache(r) => Quiet(r, t)
<1>1. CASE r.ro[o]
  BY <1>1 DEF LeaveGraph, RteTypeOK, Quiet
<1>2. CASE ~r.ro[o]
  <2>1. CASE r.cache[o] = NoValue
    BY <1>2, <2>1 DEF LeaveGraph, Quiet
  <2>2. CASE r.cache[o] # NoValue
    <3> DEFINE c == DeleteCacheEntry(r, o)
    <3>1. LeaveGraph(r, o) = Fault(c, "graph deleted twice")
      BY <1>2, <2>2 DEF LeaveGraph
    <3>2. c.val = r.val /\ c.faults = r.faults /\ DOMAIN c = DOMAIN r
      BY DEF DeleteCacheEntry, RteTypeOK
    <3> HIDE DEF c
    <3>3. QED
      BY <2>2, <3>1, <3>2 DEF Fault, RteTypeOK, GraphFaults, NoCache
  <2>3. QED
    BY <2>1, <2>2
<1>3. QED
  BY <1>1, <1>2

\* What an operation has done when it may fail.
LEMMA ReadyCells ==
  ASSUME NEW r, Owned(r), Cardinality(Free(r)) >= 4,
         NEW node, WellFormedExpr(node), node.fn \notin {"nop", "timeoutput"},
         Len(r.stack) >= node.k
  PROVE  LET y == Ready(r, node) IN
         /\ \A o \in r.live \ Results(y) : y.r.val[o] = r.val[o]
         /\ y.r.faults \subseteq r.faults \cup GraphFaults
         /\ node.fn # "accu" => Quiet(r, y.r)
         /\ ~EnableCache /\ NoCache(r) => Quiet(r, y.r)
<1> DEFINE k == node.k
           a == Arguments(r, k)
<1>1. /\ k \in 0 .. 2 /\ Roomy(r) /\ Len(r.stack) >= k
      /\ RteTypeOK(r) /\ Sound(r)
  BY RoomyAtFirst DEF WellFormedExpr, Owned, Sound
<1> HIDE DEF k
<1>2. ArgsTypeOK(a) /\ Len(a.f) = k /\ a.res = << >> /\ Roomy(a.r)
  BY <1>1, ArgumentsType
<1>3. Adds(r, a.r)
  BY <1>1, ArgumentsAdds
<1> HIDE DEF a
<1> DEFINE x == Prepared(a, node.fn, node.r)
<1>4. ArgsTypeOK(x) /\ Len(x.f) = node.k
  BY <1>2, PreparedType DEF k
<1>5. Adds(a.r, x.r)
  BY <1>2, PreparedAdds DEF k
<1> HIDE DEF x
<1>6. Adds(r, x.r)
  BY <1>3, <1>5, AddsTwice
<1> DEFINE vals == [i \in 1 .. node.r |-> Semantics!Result(node.fn, Inputs(a, node.fn), i)]
           y == Computed(x, vals)
           g == LeaveGraph(y.r, y.f[1])
           z == [y EXCEPT !.r = g]
           ready == Ready(r, node)
<1>7. ready = IF node.fn = "accu" THEN z ELSE y
  BY DEF Ready, x, a, k
<1> HIDE DEF vals
<1>8. /\ \A o \in Obj \ Results(x) : y.r.val[o] = x.r.val[o]
      /\ y.r.faults = x.r.faults /\ y.r.cache = x.r.cache
      /\ y.res = x.res /\ y.f = x.f /\ ArgsTypeOK(y)
  BY <1>4, ComputedType, ComputedCells
<1> HIDE DEF y
<1>9. Results(y) = Results(x) /\ Quiet(r, y.r)
  BY <1>6, <1>8 DEF Results, Quiet, Adds, NoCache
<1>10. \A o \in r.live \ Results(x) : y.r.val[o] = r.val[o]
  BY <1>1, <1>6, <1>8 DEF Adds, RteTypeOK
<1>11. CASE node.fn = "accu"
  <2>1. y.f[1] \in Obj /\ RteTypeOK(y.r)
    BY <1>4, <1>8, <1>11 DEF ArgsTypeOK, WellFormedExpr
  <2>2. /\ g.val = y.r.val
        /\ g.faults \subseteq y.r.faults \cup GraphFaults
        /\ ~EnableCache /\ NoCache(y.r) => Quiet(y.r, g)
    BY <2>1, LeaveGraphFaults
  <2> HIDE DEF g
  <2>3. z.r = g /\ z.res = y.res
    BY <1>8 DEF ArgsTypeOK
  <2>4. ready = z
    BY <1>7, <1>11
  <2> HIDE DEF z, ready
  <2>5. ready.r = g /\ Results(ready) = Results(x)
    BY <1>9, <2>3, <2>4 DEF Results
  <2>6. ~EnableCache /\ NoCache(r) => Quiet(r, g)
    BY <1>9, <2>2 DEF Quiet
  <2>7. QED
    BY <1>9, <1>10, <1>11, <2>2, <2>5, <2>6 DEF Quiet, ready
<1>12. CASE node.fn # "accu"
  <2>1. ready = y
    BY <1>7, <1>12
  <2> HIDE DEF ready
  <2>2. QED
    BY <1>9, <1>10, <2>1 DEF Quiet, ready
<1>13. QED
  BY <1>11, <1>12

\* pushResults and the destructor write no cells, and delete what is there.
LEMMA PushResultsTrims ==
  ASSUME NEW x, ArgsSound(x)
  PROVE  Trims(x.r, PushResults(x))
<1> DEFINE pushed == [i \in DOMAIN x.res |-> StackedField(x.res[i])]
           q == [x.r EXCEPT !.stack = @ \o pushed]
           S == Operands(x) \ Results(x)
<1>1. ArgsTypeOK(x) /\ RteTypeOK(x.r)
  BY DEF ArgsSound, ArgsTypeOK
<1>2. x.r.stack \o pushed \in Seq(Entries)
  BY <1>1, PushResultsType DEF RteTypeOK
<1>3. PushResults(x) = DeleteFromPcrme(q, S)
  BY DEF PushResults
<1>4. S \subseteq x.r.live
  BY DEF ArgsSound, Operands
<1> HIDE DEF pushed, S
<1>5. RteTypeOK(q) /\ q.live = x.r.live
  BY <1>1, <1>2, StackType
<1>6. q.val = x.r.val /\ q.cache = x.r.cache /\ q.faults = x.r.faults
  BY <1>1 DEF RteTypeOK
<1> HIDE DEF q
<1>7. Trims(q, DeleteFromPcrme(q, S))
  BY <1>4, <1>5, DeleteTrims
<1>8. QED
  BY <1>3, <1>6, <1>7 DEF Trims, NoCache

\* When a DomainError passes, what is both an operand and the result is
\* deleted twice, and nothing else is.
LEMMA CleanArgumentsTrims ==
  ASSUME NEW x, ArgsSound(x), Operands(x) \cap Results(x) = {}
  PROVE  Trims(x.r, CleanArguments(x))
<1> DEFINE d == DeleteFromPcrme(x.r, Operands(x))
           e == DeleteFromPcrme(d, Results(x))
<1>1. RteTypeOK(x.r) /\ Operands(x) \subseteq x.r.live /\ Results(x) \subseteq x.r.live
  BY DEF ArgsSound, ArgsTypeOK, Operands, Results, Loose
<1>2. /\ RteTypeOK(d) /\ Trims(x.r, d)
      /\ d.live = {o \in x.r.live : o \notin Operands(x) \/ x.r.ro[o]}
  BY <1>1, DeleteTrims, DeleteFromPcrmeType
<1> HIDE DEF d
<1>3. Results(x) \subseteq d.live
  BY <1>1, <1>2
<1>4. Trims(d, e)
  BY <1>2, <1>3, DeleteTrims
<1>5. CleanArguments(x) = e
  BY DEF CleanArguments, d
<1>6. QED
  BY <1>2, <1>4, <1>5, TrimsTwice

-------------------------------------------------------------------------------
\* The right operand is popped first; both are one value only where both are one
\* name, and the left one may take the value out of the table.
LEMMA PopTwice ==
  ASSUME NEW r, Sound(r), Roomy(r), Len(r.stack) >= 2
  PROVE  LET a == Arguments(r, 2)
             right == Top(r)
             left  == r.stack[Len(r.stack) - 1]
         IN a.f[1] = a.f[2] =>
              /\ right.obj = NoObj /\ left.obj = NoObj
              /\ right.name = left.name
              /\ ~left.last => a.f[1] \in Tabled(a.r)
<1> DEFINE a == Arguments(r, 2)
           right == Top(r)
           left  == r.stack[Len(r.stack) - 1]
           q == Pop(r)
           qr == q.r
           o == q.obj
           p == Pop(qr)
           n == Len(r.stack)
           m == Len(qr.stack)
<1>1. a.f = <<p.obj, o>> /\ a.r = p.r
  BY DEF Arguments
<1>2. RteTypeOK(r) /\ Free(r) # {} /\ n > 0 /\ n \in Nat
  BY RoomyIsFree DEF Sound, RteTypeOK
<1>3. Sound(qr) /\ o \in qr.live \ Stacked(qr) /\ RteTypeOK(qr)
  BY <1>2, PopSound DEF Sound
<1>4. m = n - 1 /\ qr.live \subseteq r.live \cup {o}
      /\ \A i \in 1 .. m : qr.stack[i] = r.stack[i]
  BY <1>2, PopType
<1>5. Free(qr) # {}
  BY <1>4, FreeAfter
<1>6. /\ right.obj # NoObj \/ right.last => o \notin Tabled(qr)
      /\ right.obj = NoObj /\ ~right.last => qr.table[right.name] = o
  BY <1>2, PopOwner
<1>7. Len(qr.stack) > 0 /\ Top(qr) = left
  <2>1. n >= 2 /\ Top(qr) = qr.stack[m] /\ left = r.stack[n - 1]
    BY DEF Top
  <2> DEFINE len == Len(qr.stack)
  <2>9. m = len
    OBVIOUS
  <2> HIDE DEF n, m, left, len
  <2>2. m > 0 /\ m \in 1 .. m /\ n - 1 = m
    BY <1>2, <1>4, <2>1
  <2>3. QED
    BY <1>4, <2>1, <2>2, <2>9 DEF len
<1>8. right \in Entries /\ left \in Entries
  <2>1. Top(qr) \in Entries /\ Top(r) \in Entries
    BY <1>2, <1>3, <1>7, TopType
  <2>2. QED
    BY <1>7, <2>1
<1> HIDE DEF qr, o, n, m, left, right
<1>9. SUFFICES ASSUME p.obj = o
      PROVE /\ right.obj = NoObj /\ left.obj = NoObj
            /\ right.name = left.name
            /\ ~left.last => p.obj \in Tabled(p.r)
  BY <1>1 DEF left, right
<1>10. left.obj = NoObj
  <2>1. SUFFICES ASSUME left.obj # NoObj PROVE FALSE
    OBVIOUS
  <2>2. p.obj = left.obj
    BY <1>3, <1>5, <1>7, <2>1, PopAdds
  <2>3. left.obj \in Stacked(qr)
    BY <1>3, <1>7, <2>1, TopType, StackedType
  <2>4. QED
    BY <1>3, <1>9, <2>2, <2>3
<1>11. left.name \in Names /\ left.last \in BOOLEAN
  BY <1>8, <1>10, NullIsFree DEF Entries
<1>12. qr.table[left.name] = o
  <2> DEFINE d == Drop(qr)
  <2>1. p = Load(d, left.name, left.last)
    BY <1>7, <1>10 DEF Pop
  <2>2. RteTypeOK(d) /\ d.live = qr.live /\ d.table = qr.table
    BY <1>3, <1>7, DropType
  <2>3. Free(d) # {}
    BY <1>5, <2>2 DEF Free
  <2> HIDE DEF d, p
  <2>4. p.obj \in d.live => d.table[left.name] = p.obj
    BY <1>11, <2>1, <2>2, <2>3, LoadAdds
  <2>5. QED
    BY <1>3, <1>9, <2>2, <2>4
<1>13. o # NoObj /\ o \in Tabled(qr)
  <2>1. o \in Obj
    BY <1>3 DEF RteTypeOK
  <2>2. QED
    BY <1>3, <1>11, <1>12, <2>1, NullIsFree, TabledType
<1>14. right.obj = NoObj /\ qr.table[right.name] = o
  BY <1>6, <1>13
<1>15. right.name \in Names
  BY <1>8, <1>14, NullIsFree DEF Entries
<1>16. right.name = left.name
  BY <1>3, <1>11, <1>12, <1>13, <1>14, <1>15 DEF Sound, OneName
<1>17. ASSUME ~left.last PROVE p.obj \in Tabled(p.r)
  <2>1. p.r.table[left.name] = p.obj
    BY <1>3, <1>5, <1>7, <1>10, <1>17, PopOwner
  <2>2. QED
    BY <1>9, <1>11, <1>13, <2>1 DEF Tabled
<1>18. QED
  BY <1>10, <1>14, <1>16, <1>17

\* The results that are created have addresses of their own.
LEMMA CreateResultsNew ==
  ASSUME NEW x, ArgsTypeOK(x), Roomy(x.r), NEW k \in 1 .. 2
  PROVE  LET y == CreateResults(x, k) IN
         y.f = x.f /\ \A i \in DOMAIN y.res : y.res[i] \notin x.r.live
<1> DEFINE r == x.r
           a == New(r, NoValue, FALSE)
           ar == a.r
           u == a.obj
           b == New(ar, NoValue, FALSE)
           v == b.obj
           y == CreateResults(x, k)
<1>1. RteTypeOK(r) /\ Free(r) # {} /\ DOMAIN x = {"r", "f", "res", "at"}
  BY RoomyIsFree DEF ArgsTypeOK
<1>2. RteTypeOK(ar) /\ ar.live = r.live \cup {u} /\ u \notin r.live
  BY <1>1, NewType
<1>3. Free(ar) # {}
  BY <1>2, FreeAfter
<1>4. v \notin ar.live
  BY <1>2, <1>3, NewType
<1>5. y = IF k = 1 THEN [x EXCEPT !.r = ar, !.res = <<u>>]
          ELSE [x EXCEPT !.r = b.r, !.res = <<u, v>>]
  BY DEF CreateResults
<1> HIDE DEF y, a, ar, b, u, v
<1>6. y.f = x.f /\ (y.res = <<u>> \/ y.res = <<u, v>>)
  BY <1>1, <1>5
<1>7. QED
  BY <1>2, <1>4, <1>6 DEF y

\* No result is an operand that is left, unless both operands were one value
\* that nobody else owns.
LEMMA PreparedApart ==
  ASSUME NEW a, ArgsSound(a), Roomy(a.r), a.res = << >>, a.at = 0,
         NEW node, WellFormedExpr(node), node.fn \notin {"nop", "timeoutput"},
         Len(a.f) = node.k,
         node.fn \in {"same1", "left", "right", "comm"} /\ node.k = 2 /\ a.f[1] = a.f[2]
           => a.f[1] \in Tabled(a.r)
  PROVE  LET x == Prepared(a, node.fn, node.r) IN Operands(x) \cap Results(x) = {}
<1> DEFINE x == Prepared(a, node.fn, node.r)
<1>1. ArgsTypeOK(a) /\ Sound(a.r) /\ RteTypeOK(a.r) /\ Free(a.r) # {}
      /\ \A i \in DOMAIN a.f : a.f[i] \in a.r.live
      /\ DOMAIN a.f = 1 .. node.k
  BY RoomyIsFree DEF ArgsSound, ArgsTypeOK
<1>2. ASSUME NEW i \in 1 .. node.k,
             \A j \in 1 .. node.k : j # i /\ a.f[j] = a.f[i] => a.f[i] \in Tabled(a.r)
      PROVE  LET y == SrcDest(a, i) IN Operands(y) \cap Results(y) = {}
  <2> DEFINE o == a.f[i]
             d == OwnCopy(a.r, o)
             u == d.obj
             y == SrcDest(a, i)
  <2>1. y = [a EXCEPT !.r = d.r, !.f[i] = u, !.res = <<u>>, !.at = i]
    BY DEF SrcDest
  <2>2. \A j \in 1 .. node.k : j # i => a.f[j] # u
    <3>1. CASE a.r.ro[o]
      <4>1. u \notin a.r.live
        BY <1>1, <3>1, NewType DEF OwnCopy
      <4>2. QED
        BY <1>1, <4>1
    <3>2. CASE ~a.r.ro[o]
      <4>1. u = o
        BY <3>2 DEF OwnCopy
      <4>2. o \notin Tabled(a.r)
        BY <1>1, <3>2 DEF Sound
      <4>3. QED
        BY <1>2, <4>1, <4>2
    <3>3. QED
      BY <3>1, <3>2
  <2> HIDE DEF d, u
  <2>3. y.f = [a.f EXCEPT ![i] = u] /\ y.res = <<u>> /\ y.at = i
    BY <1>1, <2>1 DEF ArgsTypeOK
  <2> HIDE DEF y
  <2>4. Results(y) = {u}
    BY <2>3 DEF Results
  <2>5. \A j \in DOMAIN y.f \ {i} : y.f[j] # u
    BY <1>1, <2>2, <2>3
  <2>6. QED
    BY <2>3, <2>4, <2>5 DEF Operands, y
<1>3. node.k \in 0 .. 2 /\ node.r \in 1 .. 2
  BY DEF WellFormedExpr
<1>4. CASE node.fn \in {"same1", "left"}
  <2>1. x = SrcDest(a, 1) /\ 1 \in 1 .. node.k
    BY <1>3, <1>4 DEF Prepared, WellFormedExpr
  <2>2. QED
    BY <1>2, <1>3, <1>4, <2>1
<1>5. CASE node.fn = "right"
  <2>1. x = SrcDest(a, 2) /\ node.k = 2
    BY <1>5 DEF Prepared, WellFormedExpr
  <2>2. QED
    BY <1>2, <1>5, <2>1
<1>6. CASE node.fn = "comm"
  <2>1. x = SrcDest(a, IF a.r.ro[a.f[1]] THEN 2 ELSE 1) /\ node.k = 2
    BY <1>6 DEF Prepared, WellFormedExpr
  <2>2. QED
    BY <1>2, <1>6, <2>1
<1>7. CASE node.fn \in {"diff", "two", "accu"}
  <2>1. x = CreateResults(a, node.r)
    BY <1>7 DEF Prepared
  <2> HIDE DEF x
  <2>2. x.f = a.f /\ \A i \in DOMAIN x.res : x.res[i] \notin a.r.live
    BY <1>1, <1>3, <2>1, CreateResultsNew
  <2>3. QED
    BY <1>1, <2>2 DEF Operands, Results, x
<1>8. QED
  BY <1>4, <1>5, <1>6, <1>7 DEF WellFormedExpr, Operators

-------------------------------------------------------------------------------
(* What the stack holds where a node takes more than one value from it *)

\* An assignment leaves the entries below the one it pops.
LEMMA AssignStackTopRest ==
  ASSUME NEW r, RteTypeOK(r), Roomy(r), Len(r.stack) > 0,
         NEW n \in Names, NEW lastUse \in BOOLEAN
  PROVE  LET t == AssignStackTop(r, n, lastUse) IN
         \A i \in 1 .. Len(t.stack) : t.stack[i] = r.stack[i]
<1> DEFINE p == Pop(r)
           q == p.r
           o == p.obj
           t == AssignStackTop(r, n, lastUse)
<1>1. Free(r) # {}
  BY RoomyIsFree
<1>2. /\ RteTypeOK(q) /\ o \in Obj
      /\ \A i \in 1 .. Len(q.stack) : q.stack[i] = r.stack[i]
      /\ q.live \subseteq r.live \cup {o}
  BY <1>1, PopType
<1>3. Free(q) # {}
  BY <1>2, FreeAfter
<1> HIDE DEF p, q, o
<1>4. CASE lastUse
  <2> DEFINE d == DeleteValue(q, n)
             e == DeleteFromPcrme(d, {o})
  <2>1. t = e
    BY <1>4 DEF AssignStackTop, p, q, o
  <2>2. RteTypeOK(d) /\ d.stack = q.stack
    BY <1>2, DeleteValueType
  <2> HIDE DEF d
  <2>3. e.stack = d.stack
    BY <2>2, DeleteFromPcrmeType
  <2> HIDE DEF t, e
  <2>4. t.stack = q.stack
    BY <2>1, <2>2, <2>3
  <2>5. QED
    BY <1>2, <2>4 DEF t
<1>5. CASE ~lastUse
  <2>1. t = ResetValue(q, n, o)
    BY <1>5 DEF AssignStackTop, p, q, o
  <2>2. ResetValue(q, n, o).stack = q.stack
    BY <1>2, <1>3, ResetValueType, ZenonT(60)
  <2> HIDE DEF t
  <2>3. t.stack = q.stack
    BY <2>1, <2>2
  <2>4. QED
    BY <1>2, <2>3 DEF t
<1>6. QED
  BY <1>4, <1>5

\* A deferred operator is pending where the node before is one.
Deferral ==
  status = "running" /\ cur # 0 =>
    (timeoutput <=> cur > 1 /\ IsDeferred(Code[cur - 1]))

\* What is pending is assigned next.
LEMMA PendingIsAssigned ==
  ASSUME TypeInv, Deferral, Visiting, timeoutput
  PROVE  /\ cur - 1 \in 1 .. Len(Code) /\ IsDeferred(Code[cur - 1])
         /\ WellFormedNode(Code, cur - 1)
         /\ Node.op = "ass"
<1>1. cur > 1 /\ IsDeferred(Code[cur - 1])
  BY DEF Deferral, Visiting
<1>2. cur \in 1 .. Len(Code) /\ Len(Code) \in Nat /\ prog \in DOMAIN Script
  BY CodeType DEF TypeInv, TypeOK, Visiting, At
<1>3. cur - 1 \in 1 .. Len(Code)
  BY <1>1, <1>2
<1>4. WellFormedNode(Code, cur - 1)
  BY <1>2, <1>3, ProgramsAssumption DEF Code
<1>5. Code[(cur - 1) + 1].op = "ass"
  BY <1>1, <1>4 DEF WellFormedNode
<1>6. QED
  BY <1>1, <1>2, <1>3, <1>4, <1>5 DEF Node

\* A visit to the next node, or back to an entrance.
LEMMA StepDeferral ==
  ASSUME TypeInv, Visiting, NEW b \in BOOLEAN, b => Node.op = "jump", Advance(b),
         UNCHANGED prog, timeoutput' <=> IsDeferred(Node)
  PROVE  Deferral'
<1>1. Code' = Code
  BY DEF Code
<1>2. SUFFICES ASSUME cur' # 0
               PROVE  timeoutput' <=> cur' > 1 /\ IsDeferred(Code[cur' - 1])
  BY <1>1 DEF Deferral
<1>3. /\ cur \in 1 .. Len(Code) /\ Len(Code) \in Nat /\ prog \in DOMAIN Script
      /\ cur' \in 0 .. Len(Code)
      /\ cur' = cur + 1 \/ Code[cur'].op = "enter"
      /\ Node = Code[cur]
  BY <1>2, CodeType, SuccType DEF TypeInv, TypeOK, Visiting, At, Node
<1>4. CASE cur' = cur + 1
  <2>1. cur' > 1 /\ cur' - 1 = cur
    BY <1>3, <1>4
  <2>2. QED
    BY <1>3, <2>1
<1>5. CASE cur' # cur + 1
  <2>1. Code[cur'].op = "enter"
    BY <1>3, <1>5
  <2>2. ASSUME cur' > 1, IsDeferred(Code[cur' - 1]) PROVE FALSE
    <3> DEFINE len == Len(Code)
               next == cur'
    <3>1. next - 1 \in 1 .. len /\ (next - 1) + 1 = next
      <4>1. next \in 0 .. len /\ len \in Nat /\ next > 1
        BY <1>3, <2>2
      <4> HIDE DEF len, next
      <4>2. QED
        BY <4>1
    <3>2. WellFormedNode(Code, cur' - 1)
      BY <1>3, <3>1, ProgramsAssumption DEF Code
    <3>3. Code[(cur' - 1) + 1].op = "ass"
      BY <2>2, <3>2 DEF WellFormedNode
    <3>4. QED
      BY <2>1, <3>1, <3>3
  <2>3. Node.op # "expr"
    <3>1. cur' = Succ(Code, cur, b)
      BY DEF Advance
    <3>2. CASE b
      BY <3>2
    <3>3. CASE ~b
      BY <1>2, <1>3, <1>5, <3>1, <3>3 DEF Succ
    <3>4. QED
      BY <3>2, <3>3
  <2>4. ~timeoutput'
    BY <2>3 DEF IsDeferred
  <2>5. QED
    BY <2>2, <2>4
<1>6. QED
  BY <1>4, <1>5

\* A run starts with nothing pending.
LEMMA InitDeferral == Init => Deferral
  BY DEF Init, Deferral

\* The flag is set and reset with the nodes.
LEMMA NextDeferral ==
  ASSUME TypeInv, Deferral, [Next]_vars
  PROVE  Deferral'
<1>1. ASSUME Visiting, Node.op # "ass" PROVE ~timeoutput
  BY <1>1, PendingIsAssigned
<1>2. CASE VisitPar \/ VisitNumber \/ VisitNonAssExpr \/ VisitBlockEntrance \/ VisitStat
  <2>1. /\ Visiting /\ Advance(FALSE) /\ UNCHANGED prog
        /\ Node.op \notin {"expr", "ass"} /\ (timeoutput' = timeoutput \/ timeoutput' = FALSE)
    BY <1>2 DEF VisitPar, VisitNumber, VisitNonAssExpr, VisitBlockEntrance, VisitStat, run
  <2>2. ~timeoutput' /\ ~IsDeferred(Node)
    BY <1>1, <2>1 DEF IsDeferred
  <2>3. QED
    BY <2>1, <2>2, StepDeferral
<1>3. CASE VisitExpr
  <2>1. /\ Visiting /\ Advance(FALSE) /\ UNCHANGED prog
        /\ Node.op = "expr" /\ Node.fn # "timeoutput" /\ timeoutput' = timeoutput
    BY <1>3 DEF VisitExpr, run
  <2>2. ~timeoutput' /\ ~IsDeferred(Node)
    BY <1>1, <2>1 DEF IsDeferred
  <2>3. QED
    BY <2>1, <2>2, StepDeferral
<1>4. CASE ThrowDomainError \/ Destroy
  BY <1>4 DEF ThrowDomainError, Destroy, Deferral
<1>5. CASE DeferTimeoutput
  <2>1. /\ Visiting /\ Advance(FALSE) /\ UNCHANGED prog
        /\ timeoutput' = TRUE /\ IsDeferred(Node)
    BY <1>5 DEF DeferTimeoutput, run, IsDeferred
  <2>2. QED
    BY <2>1, StepDeferral
<1>6. CASE VisitAss \/ AssignOutTss
  <2>1. /\ Visiting /\ Advance(FALSE) /\ UNCHANGED prog /\ Node.op = "ass"
    BY <1>6 DEF VisitAss, AssignOutTss, run
  <2>2. ~timeoutput'
    BY <1>6 DEF VisitAss, AssignOutTss
  <2>3. QED
    BY <2>1, <2>2, StepDeferral DEF IsDeferred
<1>7. CASE JumpOutDynamicSection \/ JumpOutRepeatUntil \/ JumpOutCode
  <2>1. PICK b \in BOOLEAN : Advance(b)
    <3>1. CASE JumpOutDynamicSection
      <4>1. Advance(TakeBackBranch)
        BY <3>1 DEF JumpOutDynamicSection
      <4>2. TakeBackBranch \in BOOLEAN
        BY DEF TakeBackBranch
      <4>3. QED
        BY <4>1, <4>2
    <3>2. CASE JumpOutRepeatUntil
      <4>1. PICK again \in RepeatAgain : Advance(again)
        BY <3>2 DEF JumpOutRepeatUntil
      <4>2. again \in BOOLEAN
        BY DEF RepeatAgain
      <4>3. QED
        BY <4>1, <4>2
    <3>3. CASE JumpOutCode
      BY <3>3 DEF JumpOutCode
    <3>4. QED
      BY <1>7, <3>1, <3>2, <3>3
  <2>2. /\ Visiting /\ UNCHANGED prog /\ Node.op = "jump" /\ timeoutput' = timeoutput
    BY <1>7 DEF JumpOutDynamicSection, JumpOutRepeatUntil, JumpOutCode, run
  <2>3. ~timeoutput' /\ ~IsDeferred(Node)
    BY <1>1, <2>2 DEF IsDeferred
  <2>4. QED
    BY <2>1, <2>2, <2>3, StepDeferral
<1>8. CASE UNCHANGED vars
  BY <1>8 DEF vars, run, Deferral, Code
<1>9. QED
  BY <1>2, <1>3, <1>4, <1>5, <1>6, <1>7, <1>8 DEF Next, Closed

\* What an assignment finds on the stack.
LEMMA AssignedValue ==
  ASSUME TypeInv, StackInv, Deferral, Visiting, Node.op = "ass", ~timeoutput
  PROVE  /\ cur > 1 /\ IsOperand(Code[cur - 1])
         /\ ShowsOperands(prog, rte.stack, cur - 1)
         /\ Len(Node.lhs) = 2 =>
              Code[cur - 1].op = "expr" /\ Code[cur - 1].fn = "two" /\ Code[cur - 1].r = 2
<1>1. Node = Code[cur] /\ WellFormedNode(Code, cur) /\ cur \in Nat
  BY CodeType DEF TypeInv, TypeOK, Visiting, At, Node
<1>2. /\ cur > 1 /\ Code[cur - 1].op \in {"par", "num", "expr"}
      /\ Len(Node.lhs) = 2 =>
           Code[cur - 1].op = "expr" /\ Code[cur - 1].fn = "two" /\ Code[cur - 1].r = 2
  BY <1>1 DEF WellFormedNode
<1>3. ~IsDeferred(Code[cur - 1])
  BY <1>2 DEF Deferral, Visiting
<1>4. IsOperand(Code[cur - 1])
  BY <1>2, <1>3 DEF IsOperand, PushesField, IsDeferred
<1>5. Before(Code, cur) = cur - 1
  BY <1>3 DEF Before
<1>6. ShowsOperands(prog, rte.stack, cur - 1)
  BY <1>1, <1>2, <1>4, <1>5 DEF StackInv, Visiting
<1>7. QED
  BY <1>2, <1>4, <1>6

(***************************************************************************)
(* Where both operands of a node are one value, both are one name; without *)
(* the last use of the left one, the table has it.                         *)
(***************************************************************************)
LEMMA SharedOperand ==
  ASSUME NEW r, Sound(r), Roomy(r), Len(r.stack) >= 2,
         NEW p \in DOMAIN Script, NEW i \in 1 .. Len(Script[p].code),
         Script[p].code[i].k = 2, FollowsOperands(Script[p].code, i),
         ShowsOperands(p, r.stack, i - 1)
  PROVE  LET a == Arguments(r, 2)
             c == Script[p].code
         IN a.f[1] = a.f[2] =>
              /\ c[i - 1].op = "par" /\ c[i - 2].op = "par"
              /\ c[i - 1].name = c[i - 2].name
              /\ <<i - 2, 0>> \notin Script[p].last => a.f[1] \in Tabled(a.r)
<1> DEFINE a == Arguments(r, 2)
           c == Script[p].code
           n == Len(r.stack)
           right == Top(r)
           left == r.stack[n - 1]
<1> SUFFICES ASSUME a.f[1] = a.f[2]
             PROVE  /\ c[i - 1].op = "par" /\ c[i - 2].op = "par"
                    /\ c[i - 1].name = c[i - 2].name
                    /\ <<i - 2, 0>> \notin Script[p].last => a.f[1] \in Tabled(a.r)
  OBVIOUS
<1>1. /\ right.obj = NoObj /\ left.obj = NoObj
      /\ right.name = left.name
      /\ ~left.last => a.f[1] \in Tabled(a.r)
  BY PopTwice
<1>2. i > 1 /\ IsOperand(c[i - 1]) /\ (c[i - 1].op = "par" => i > 2 /\ IsOperand(c[i - 2]))
  BY DEF FollowsOperands
<1>3. Shows(p, i - 1, right)
  BY DEF ShowsOperands, Top
<1>4. c[i - 1].op = "par" /\ right = StackedValue(c[i - 1].name, <<i - 1, 0>> \in Script[p].last)
  BY <1>1, <1>2, <1>3 DEF Shows, IsOperand
<1>5. Shows(p, (i - 1) - 1, left) /\ (i - 1) - 1 = i - 2 /\ IsOperand(c[i - 2])
  BY <1>2, <1>4 DEF ShowsOperands
<1>6. c[i - 2].op = "par" /\ left = StackedValue(c[i - 2].name, <<i - 2, 0>> \in Script[p].last)
  BY <1>1, <1>5 DEF Shows, IsOperand
<1>7. right.name = c[i - 1].name /\ left.name = c[i - 2].name
      /\ left.last = (<<i - 2, 0>> \in Script[p].last)
  BY <1>4, <1>6 DEF StackedValue
<1>8. <<i - 2, 0>> \notin Script[p].last => ~left.last
  <2> HIDE DEF left
  <2>1. QED
    BY <1>7
<1>9. QED
  BY <1>1, <1>4, <1>6, <1>7, <1>8

-------------------------------------------------------------------------------
(***************************************************************************)
(* What goes wrong is a matter of three kinds of scripts.  The analysis    *)
(* marks the left operand as the last use where both operands are one      *)
(* name: an operator that overwrites an operand and fails, and a           *)
(* timeoutput, then delete the value for the one operand and for the       *)
(* other.  A name that is assigned to itself must be in its last use when  *)
(* the assignment is never used.  And with option m an ldd that is routed  *)
(* over has a graph, which its last use may delete twice.                  *)
(***************************************************************************)
NoOperandTwice == \A p \in DOMAIN Script : NoNameTwice(Script[p])

NoSelfAssignment == \A p \in DOMAIN Script : NoSelfAssigned(Script[p])

NoGraphs ==
  \/ ~EnableCache
  \/ \A p \in DOMAIN Script : \A i \in 1 .. Len(Script[p].code) :
       Script[p].code[i].op = "expr" => Script[p].code[i].fn # "accu"

\* A visit that pushes an entry.
LEMMA PushAdds ==
  ASSUME NEW r, RteTypeOK(r), NEW e
  PROVE  Adds(r, PushEntry(r, e))
  BY DEF PushEntry, Adds, RteTypeOK

\* An addition is quiet and keeps the cells.
LEMMA AddsIsQuiet ==
  ASSUME NEW r, NEW s, Adds(r, s)
  PROVE  Quiet(r, s) /\ KeepsCells(r, s)
  BY DEF Adds, Quiet, KeepsCells, NoCache

\* What a visit to a name or a number adds.
LEMMA VisitStackQuiet ==
  ASSUME OwnInv, VisitPar \/ VisitNumber
  PROVE  Quiet(rte, rte') /\ KeepsCells(rte, rte')
<1>1. RteTypeOK(rte) /\ Free(rte) # {}
  BY TypeOf DEF OwnInv, VisitPar, VisitNumber
<1>2. CASE VisitPar
  BY <1>1, <1>2, PushAdds, AddsIsQuiet DEF VisitPar
<1>3. CASE VisitNumber
  <2> DEFINE new == New(rte, <<"number", << >> >>, FALSE)
             q == new.r
  <2>1. Adds(rte, q) /\ RteTypeOK(q)
    BY <1>1, NewAdds, NewType
  <2>2. rte' = PushEntry(q, StackedField(new.obj))
    BY <1>3 DEF VisitNumber
  <2> HIDE DEF new
  <2>3. Adds(rte, rte')
    BY <2>1, <2>2, PushAdds, AddsTwice
  <2>4. QED
    BY <2>3, AddsIsQuiet
<1>4. QED
  BY <1>2, <1>3

\* An operation writes its results, which no name has, and fails with a graph only.
LEMMA VisitExprQuiet ==
  ASSUME OwnInv, VisitExpr
  PROVE  /\ \A o \in rte.live \cap Tabled(rte') : rte'.val[o] = rte.val[o]
         /\ rte'.faults \subseteq rte.faults \cup GraphFaults
         /\ NoGraphs /\ NoCache(rte) => Quiet(rte, rte')
<1>1. /\ Visiting /\ Node.op = "expr" /\ Node.fn # "timeoutput"
      /\ rte' = IF Node.fn = "nop" THEN Repush(rte) ELSE PushResults(Ready(rte, Node))
      /\ Owned(rte) /\ TypeInv /\ Node = Code[cur]
  BY DEF VisitExpr, Visiting, OwnInv, Node
<1>2. /\ Cardinality(Free(rte)) >= 4 /\ Free(rte) # {} /\ RteTypeOK(rte)
      /\ WellFormedExpr(Node) /\ Len(rte.stack) >= Node.k /\ Len(rte.stack) \in Nat
  BY <1>1, TypeOf DEF WellFormedNode, Pops
<1>3. CASE Node.fn = "nop"
  <2> DEFINE p == Pop(rte)
             q == p.r
  <2>1. Len(rte.stack) > 0
    BY <1>2, <1>3 DEF WellFormedExpr
  <2>2. Adds(rte, q) /\ RteTypeOK(q)
    BY <1>1, <1>2, <2>1, PopAdds, PopType DEF Owned
  <2>3. rte' = PushEntry(q, StackedField(p.obj))
    BY <1>1, <1>3 DEF Repush
  <2> HIDE DEF p
  <2>4. Adds(rte, rte')
    BY <2>2, <2>3, PushAdds, AddsTwice
  <2>5. QED
    BY <2>4 DEF Adds, Quiet, NoCache
<1>4. CASE Node.fn # "nop"
  <2> DEFINE y == Ready(rte, Node)
             t == PushResults(y)
  <2>1. ArgsSound(y)
    BY <1>1, <1>2, <1>4, ReadySound
  <2>2. /\ \A o \in rte.live \ Results(y) : y.r.val[o] = rte.val[o]
        /\ y.r.faults \subseteq rte.faults \cup GraphFaults
        /\ Node.fn # "accu" => Quiet(rte, y.r)
        /\ ~EnableCache /\ NoCache(rte) => Quiet(rte, y.r)
    BY <1>1, <1>2, <1>4, ReadyCells
  <2>3. rte' = t
    BY <1>1, <1>4
  <2> HIDE DEF y
  <2>4. Trims(y.r, t)
    BY <2>1, PushResultsTrims
  <2>5. Tabled(t) = Tabled(y.r)
    <3>1. t.table = y.r.table
      BY <2>1, PushResultsType DEF ArgsSound
    <3> HIDE DEF t
    <3>2. QED
      BY <3>1 DEF Tabled
  <2>6. Results(y) \cap Tabled(y.r) = {}
    BY <2>1 DEF ArgsSound, Results, Loose
  <2> HIDE DEF t
  <2>7. NoGraphs => ~EnableCache \/ Node.fn # "accu"
    BY <1>1, CodeType DEF NoGraphs, TypeInv, TypeOK, Code, At, Visiting
  <2>8. \A o \in rte.live \cap Tabled(t) : t.val[o] = rte.val[o]
    BY <2>2, <2>4, <2>5, <2>6 DEF Trims
  <2>9. t.faults \subseteq rte.faults \cup GraphFaults
    BY <2>2, <2>4 DEF Trims
  <2>10. NoGraphs /\ NoCache(rte) => Quiet(rte, t)
    BY <2>2, <2>4, <2>7 DEF Trims, Quiet
  <2>11. QED
    BY <2>3, <2>8, <2>9, <2>10
<1>5. QED
  BY <1>3, <1>4

\* A domain error deletes nothing twice.
LEMMA ThrowQuiet ==
  ASSUME NoOperandTwice, OwnInv, Deferral, ThrowDomainError
  PROVE  /\ rte'.faults \subseteq rte.faults \cup GraphFaults
         /\ NoGraphs /\ NoCache(rte) => rte'.faults = rte.faults
         /\ Ready(rte, Node).r.faults = rte.faults => rte'.faults = rte.faults
         /\ NoCache(rte')
<1>1. /\ Visiting /\ Node.op = "expr" /\ MayThrow(Node)
      /\ rte' = CleanOnException(CleanArguments(Ready(rte, Node)))
      /\ Owned(rte) /\ TypeInv /\ StackInv /\ Node = Code[cur]
  BY DEF ThrowDomainError, Visiting, OwnInv, Node
<1>2. /\ Cardinality(Free(rte)) >= 4 /\ RteTypeOK(rte) /\ Roomy(rte)
      /\ WellFormedExpr(Node) /\ FollowsOperands(Code, cur)
      /\ Len(rte.stack) >= Node.k /\ Len(rte.stack) \in Nat
  BY <1>1, TypeOf DEF WellFormedNode, Pops
<1>3. Node.fn \notin {"nop", "timeoutput"}
  BY <1>1 DEF MayThrow
<1>4. cur \in 1 .. Len(Code) /\ prog \in DOMAIN Script /\ Len(Code) \in Nat
  BY <1>1, CodeType DEF TypeInv, TypeOK, Visiting, At
<1> DEFINE y == Ready(rte, Node)
           c == CleanArguments(y)
           t == CleanOnException(c)
           a == Arguments(rte, Node.k)
<1>5. ArgsSound(y)
  BY <1>1, <1>2, <1>3, ReadySound
<1>6. /\ y.r.faults \subseteq rte.faults \cup GraphFaults
      /\ Node.fn # "accu" => Quiet(rte, y.r)
      /\ ~EnableCache /\ NoCache(rte) => Quiet(rte, y.r)
  BY <1>1, <1>2, <1>3, ReadyCells
<1>7. Operands(y) \cap Results(y) = {}
  <2>1. ASSUME Node.fn \in {"same1", "left", "right", "comm"}, Node.k = 2, a.f[1] = a.f[2]
        PROVE  a.f[1] \in Tabled(a.r)
    <3>1. ~timeoutput
      BY <1>1, PendingIsAssigned
    <3>2. cur > 1 /\ IsOperand(Code[cur - 1])
      BY <1>2, <2>1, <1>1 DEF FollowsOperands
    <3>3. Before(Code, cur) = cur - 1
      BY <1>1, <3>1, <3>2 DEF Before, Deferral, Visiting
    <3>4. ShowsOperands(prog, rte.stack, cur - 1)
      BY <1>1, <1>4, <3>2, <3>3 DEF StackInv, Visiting
    <3>5. /\ Code[cur - 1].op = "par" /\ Code[cur - 2].op = "par"
          /\ Code[cur - 1].name = Code[cur - 2].name
          /\ <<cur - 2, 0>> \notin Script[prog].last => a.f[1] \in Tabled(a.r)
      BY <1>1, <1>2, <1>4, <2>1, <3>4, SharedOperand DEF Owned, Code
    <3>6. <<cur - 2, 0>> \notin Script[prog].last
      BY <1>1, <1>4, <2>1, <3>5 DEF NoOperandTwice, NoNameTwice, Overwrites, Code
    <3>7. QED
      BY <3>5, <3>6
  <2>2. ArgsSound(a) /\ Roomy(a.r) /\ a.res = << >> /\ a.at = 0 /\ Len(a.f) = Node.k
    <3>1. Node.k \in 0 .. 2
      BY <1>2 DEF WellFormedExpr
    <3>2. QED
      BY <1>1, <1>2, <3>1, ArgumentsSound, ArgumentsType DEF Owned
  <2> HIDE DEF a
  <2> DEFINE x == Prepared(a, Node.fn, Node.r)
  <2>3. Operands(x) \cap Results(x) = {}
    BY <1>2, <1>3, <2>1, <2>2, PreparedApart
  <2>4. ArgsTypeOK(x)
    BY <1>2, <1>3, <2>2, PreparedType DEF ArgsSound
  <2>5. y.f = x.f /\ y.res = x.res /\ y.at = x.at
    <3> DEFINE vals == [i \in 1 .. Node.r |-> Semantics!Result(Node.fn, Inputs(a, Node.fn), i)]
               w == Computed(x, vals)
    <3>1. y = IF Node.fn = "accu" THEN [w EXCEPT !.r = LeaveGraph(w.r, w.f[1])] ELSE w
      BY DEF Ready, a
    <3> HIDE DEF vals, x
    <3>2. w.f = x.f /\ w.res = x.res /\ w.at = x.at /\ ArgsTypeOK(w)
      BY <2>4, ComputedType, ComputedCells
    <3> HIDE DEF w, y
    <3>3. QED
      BY <3>1, <3>2 DEF ArgsTypeOK
  <2> HIDE DEF x, y
  <2>6. QED
    BY <2>3, <2>5 DEF Operands, Results
<1> HIDE DEF y
<1>8. Trims(y.r, c)
  BY <1>5, <1>7, CleanArgumentsTrims
<1>9. Sound(c) /\ RteTypeOK(c)
  BY <1>5, CleanArgumentsSound DEF Sound
<1> HIDE DEF c
<1>10. t.faults = c.faults /\ NoCache(t)
  BY <1>9, CleanQuiet
<1>11. rte' = t
  BY <1>1 DEF c, y
<1> HIDE DEF t
<1>12. NoGraphs => ~EnableCache \/ Node.fn # "accu"
  BY <1>1, <1>4 DEF NoGraphs, Code
<1>13. QED
  BY <1>6, <1>8, <1>10, <1>11, <1>12 DEF Trims, Quiet, y

(***************************************************************************)
(* An assignment writes no cells that were there before.  After the first  *)
(* of two assignments has deleted a value, the second one must not be      *)
(* given its address: it allocates nothing, as what it pops is a field.    *)
(***************************************************************************)
LEMMA VisitAssQuiet ==
  ASSUME OwnInv, Deferral, VisitAss
  PROVE  /\ KeepsCells(rte, rte')
         /\ NoSelfAssignment => Quiet(rte, rte')
<1> DEFINE m == Node.lhs[1]
           n == Node.lhs[2]
           b == IsLast(1)
           one == AssignStackTop(rte, m, b)
           two == AssignStackTop(one, n, IsLast(2))
<1>1. /\ Visiting /\ Node.op = "ass" /\ ~timeoutput
      /\ rte' = IF Len(Node.lhs) = 1 THEN one ELSE two
      /\ Owned(rte) /\ TypeInv /\ StackInv
  BY DEF VisitAss, Visiting, OwnInv
<1>2. /\ RteTypeOK(rte) /\ Roomy(rte) /\ Cardinality(Free(rte)) >= 4
      /\ Len(Node.lhs) \in 1 .. 2 /\ Len(rte.stack) >= Len(Node.lhs)
      /\ Len(rte.stack) \in Nat
  BY <1>1, TypeOf DEF WellFormedNode, Pops
<1>3. \A k \in 1 .. Len(Node.lhs) : Node.lhs[k] \in Names
  BY <1>1 DEF TypeInv, Deferred, AssignsNoField, Visiting
<1>4. m \in Names /\ Len(rte.stack) > 0
  BY <1>2, <1>3
<1>5. b \in BOOLEAN /\ IsLast(2) \in BOOLEAN
  BY DEF IsLast
<1>6. /\ cur > 1 /\ IsOperand(Code[cur - 1])
      /\ ShowsOperands(prog, rte.stack, cur - 1)
      /\ Len(Node.lhs) = 2 =>
           Code[cur - 1].op = "expr" /\ Code[cur - 1].fn = "two" /\ Code[cur - 1].r = 2
  BY <1>1, AssignedValue
<1>7. cur \in 1 .. Len(Code) /\ prog \in DOMAIN Script /\ Node = Code[cur]
  BY <1>1, CodeType DEF TypeInv, TypeOK, Visiting, At, Node
<1>8. Shows(prog, cur - 1, Top(rte))
  BY <1>6 DEF ShowsOperands, Top
<1>9. NoSelfAssignment => ~b \/ Top(rte).obj # NoObj \/ Top(rte).last \/ Top(rte).name # m
  <2>1. SUFFICES ASSUME NoSelfAssignment, b, Top(rte).obj = NoObj, Top(rte).name = m
                 PROVE  Top(rte).last
    OBVIOUS
  <2>2. Code[cur - 1].op = "par"
    BY <1>6, <1>8, <2>1 DEF Shows, IsOperand, Code
  <2>3. Top(rte) = StackedValue(Code[cur - 1].name, <<cur - 1, 0>> \in Script[prog].last)
    BY <1>8, <2>2 DEF Shows, Code
  <2>4. Code[cur - 1].name = m /\ Top(rte).last = (<<cur - 1, 0>> \in Script[prog].last)
    BY <2>1, <2>3 DEF StackedValue
  <2>5. <<cur - 1, 0>> \in Script[prog].last
    BY <1>1, <1>7, <2>1, <2>2, <2>4 DEF NoSelfAssignment, NoSelfAssigned, Code, IsLast
  <2>6. QED
    BY <2>4, <2>5
<1>10. /\ KeepsCells(rte, one)
       /\ NoSelfAssignment => Quiet(rte, one)
  BY <1>1, <1>2, <1>4, <1>5, <1>9, AssignStackTopQuiet
<1>11. CASE Len(Node.lhs) = 1
  BY <1>1, <1>10, <1>11
<1>12. CASE Len(Node.lhs) = 2
  <2>1. /\ Len(rte.stack) >= 2
        /\ rte.stack[Len(rte.stack) - 1].obj # NoObj
    BY <1>6, <1>12 DEF ShowsOperands, Code
  <2>2. Owned(one)
    BY <1>1, <1>2, <1>4, <1>5, AssignStackTopOwned
  <2>3. Len(one.stack) = Len(rte.stack) - 1 /\ Roomy(one)
    BY <1>2, <1>4, <1>5, AssignStackTopType
  <2>4. \A i \in 1 .. Len(one.stack) : one.stack[i] = rte.stack[i]
    BY <1>2, <1>4, <1>5, AssignStackTopRest
  <2>5. n \in Names
    BY <1>3, <1>12
  <2> HIDE DEF one, n
  <2>6. Len(one.stack) > 0 /\ Top(one).obj # NoObj
    <3> DEFINE len == Len(rte.stack)
               rest == Len(one.stack)
    <3>1. len \in Nat /\ len >= 2 /\ rest = len - 1
      BY <1>2, <2>1, <2>3
    <3>2. Top(one) = one.stack[rest] /\ rte.stack[len - 1].obj # NoObj
      BY <2>1 DEF Top
    <3>3. \A i \in 1 .. rest : one.stack[i] = rte.stack[i]
      BY <2>4
    <3> HIDE DEF len, rest
    <3>4. rest > 0 /\ rest \in 1 .. rest
      BY <3>1
    <3>5. Top(one).obj # NoObj
      BY <3>1, <3>2, <3>3, <3>4
    <3>6. QED
      BY <3>4, <3>5 DEF rest
  <2>7. two.val = one.val /\ Quiet(one, two)
    BY <1>5, <2>2, <2>3, <2>5, <2>6, AssignStackTopQuiet
  <2>8. rte' = two
    BY <1>1, <1>12
  <2> HIDE DEF two
  <2>9. QED
    BY <1>10, <2>7, <2>8 DEF KeepsCells, Quiet
<1>13. QED
  BY <1>2, <1>11, <1>12

\* A deferred assignment deletes its operands, once each where they are two.
LEMMA AssignOutTssQuiet ==
  ASSUME OwnInv, Deferral, AssignOutTss
  PROVE  /\ KeepsCells(rte, rte')
         /\ NoOperandTwice => Quiet(rte, rte')
<1> DEFINE x == Arguments(rte, 2)
           q == x.r
           a == x.f[1]
           b == x.f[2]
           d == DeleteFromPcrme(q, {a})
           t == DeleteFromPcrme(d, {b})
           i == cur - 1
<1>1. /\ Visiting /\ Len(rte.stack) >= 2 /\ rte' = t /\ timeoutput
      /\ Owned(rte) /\ TypeInv /\ StackInv /\ Node.op = "ass"
  BY DEF AssignOutTss, Visiting, OwnInv
<1>2. Roomy(rte) /\ 2 \in 0 .. 2 /\ Sound(rte)
  BY <1>1, TypeOf DEF Owned
<1>3. ArgsSound(x) /\ Len(x.f) = 2
  BY <1>1, <1>2, ArgumentsSound DEF Owned
<1>4. Adds(rte, q)
  BY <1>1, <1>2, ArgumentsAdds
<1>5. prog \in DOMAIN Script /\ cur \in 1 .. Len(Code)
  BY <1>1, CodeType DEF TypeInv, TypeOK, Visiting, At
<1>6. i \in 1 .. Len(Code) /\ IsDeferred(Code[i]) /\ WellFormedNode(Code, i)
  BY <1>1, PendingIsAssigned
<1>7. Code[i].k = 2 /\ FollowsOperands(Code, i) /\ Code[i].op = "expr"
  BY <1>6 DEF WellFormedNode, WellFormedExpr, IsDeferred
<1>8. ShowsOperands(prog, rte.stack, i - 1)
  <2>1. i > 1 /\ IsOperand(Code[i - 1])
    BY <1>7 DEF FollowsOperands
  <2>2. Before(Code, cur) = i - 1
    BY <1>5, <1>6, <2>1 DEF Before
  <2>3. QED
    BY <1>1, <1>6, <2>1, <2>2 DEF StackInv, Visiting
<1>9. ASSUME NoOperandTwice, a = b PROVE a \in Tabled(q)
  <2>1. /\ Code[i - 1].op = "par" /\ Code[i - 2].op = "par"
        /\ Code[i - 1].name = Code[i - 2].name
        /\ <<i - 2, 0>> \notin Script[prog].last => a \in Tabled(q)
    BY <1>1, <1>2, <1>5, <1>6, <1>7, <1>8, <1>9, SharedOperand DEF Code
  <2>2. <<i - 2, 0>> \notin Script[prog].last
    BY <1>5, <1>6, <1>7, <1>9, <2>1 DEF NoOperandTwice, NoNameTwice, Code
  <2>3. QED
    BY <2>1, <2>2
<1>10. /\ Sound(q) /\ a \in q.live /\ b \in q.live /\ RteTypeOK(q)
  BY <1>3 DEF ArgsSound, ArgsTypeOK
<1> HIDE DEF x, q, a, b
<1>11. /\ RteTypeOK(d) /\ d.live = {o \in q.live : o \notin {a} \/ q.ro[o]}
       /\ d.val = q.val /\ Trims(q, d)
  BY <1>10, DeleteTrims, DeleteFromPcrmeType
<1> HIDE DEF d
<1>12. t.val = d.val /\ ({b} \subseteq d.live => Trims(d, t))
  BY <1>11, DeleteTrims
<1> HIDE DEF t
<1>13. KeepsCells(rte, rte')
  BY <1>1, <1>4, <1>11, <1>12 DEF KeepsCells, Adds
<1>14. ASSUME NoOperandTwice PROVE Quiet(rte, rte')
  <2>1. b \in d.live
    BY <1>9, <1>10, <1>11, <1>14 DEF Sound
  <2>2. Trims(q, t)
    BY <1>11, <1>12, <2>1, TrimsTwice
  <2>3. QED
    BY <1>1, <1>4, <2>2, AddsThenTrims
<1>15. QED
  BY <1>13, <1>14

\* A jump pops the condition of a loop and deletes, and writes nothing.
LEMMA JumpQuiet ==
  ASSUME OwnInv, JumpOutDynamicSection \/ JumpOutRepeatUntil \/ JumpOutCode
  PROVE  Quiet(rte, rte') /\ KeepsCells(rte, rte')
<1>1. Visiting /\ Owned(rte) /\ TypeInv /\ Sound(rte)
  BY DEF JumpOutDynamicSection, JumpOutRepeatUntil, JumpOutCode, Visiting, OwnInv, Owned
<1>2. ASSUME Trims(rte, rte') PROVE Quiet(rte, rte') /\ KeepsCells(rte, rte')
  BY <1>2 DEF Trims, Quiet, KeepsCells
<1>3. CASE JumpOutDynamicSection
  <2>1. TakeBackBranch \in BOOLEAN /\ rte' = Leave(rte, TakeBackBranch)
    BY <1>3 DEF JumpOutDynamicSection, TakeBackBranch
  <2>2. QED
    BY <1>1, <1>2, <2>1, LeaveTrims
<1>4. CASE JumpOutCode
  BY <1>1, <1>2, <1>4, LeaveTrims DEF JumpOutCode
<1>5. CASE JumpOutRepeatUntil
  <2> DEFINE p == Pop(rte)
             q == p.r
             o == p.obj
             r == DeleteFromPcrme(q, {o})
  <2>1. PICK again \in RepeatAgain : Len(rte.stack) >= 1 /\ rte' = Leave(r, again)
    BY <1>5 DEF JumpOutRepeatUntil
  <2>2. again \in BOOLEAN
    BY DEF RepeatAgain
  <2>3. Len(rte.stack) > 0 /\ Free(rte) # {}
    BY <1>1, <2>1, TypeOf
  <2>4. Sound(q) /\ o \in q.live \ Stacked(q)
    BY <1>1, <2>3, PopSound
  <2>5. Adds(rte, q)
    BY <1>1, <2>3, PopAdds
  <2> HIDE DEF p, q, o
  <2>6. Sound(r)
    <3>1. {o} \cap Stacked(q) = {}
      BY <2>4
    <3>2. QED
      BY <2>4, <3>1, DeleteSound
  <2>7. Trims(q, r)
    BY <2>4, DeleteTrims DEF Sound
  <2> HIDE DEF r
  <2>8. Trims(r, Leave(r, again))
    BY <2>2, <2>6, LeaveTrims
  <2>9. Trims(q, rte')
    BY <2>1, <2>7, <2>8, TrimsTwice
  <2>10. QED
    BY <2>5, <2>9, AddsThenTrims
<1>6. QED
  BY <1>3, <1>4, <1>5

-------------------------------------------------------------------------------
(* The theorems *)

\* What the table has before and after a step has the same cells.
LEMMA NextKeepsCells ==
  ASSUME NoNamesConverted, OwnInv, Deferral, [Next]_vars
  PROVE  \A o \in rte.live : o \in Tabled(rte') => rte'.val[o] = rte.val[o]
<1>1. CASE VisitPar \/ VisitNumber
  BY <1>1, VisitStackQuiet DEF KeepsCells
<1>2. CASE VisitExpr
  BY <1>2, VisitExprQuiet
<1>3. CASE ThrowDomainError
  <2>1. Nothing(rte')
    BY <1>3, ThrowNothing
  <2>2. QED
    BY <2>1 DEF Nothing, IsEmpty
<1>4. CASE DeferTimeoutput \/ VisitStat \/ VisitNonAssExpr \/ VisitBlockEntrance
  BY <1>4 DEF DeferTimeoutput, VisitStat, VisitNonAssExpr, VisitBlockEntrance
<1>5. CASE VisitAss
  BY <1>5, VisitAssQuiet DEF KeepsCells
<1>6. CASE AssignOutTss
  BY <1>6, AssignOutTssQuiet DEF KeepsCells
<1>7. CASE JumpOutDynamicSection \/ JumpOutRepeatUntil \/ JumpOutCode
  BY <1>7, JumpQuiet DEF KeepsCells
<1>8. CASE Destroy
  <2>1. Nothing(rte')
    BY <1>8, DestroyNothing
  <2>2. QED
    BY <2>1 DEF Nothing, IsEmpty
<1>9. CASE UNCHANGED vars
  BY <1>9 DEF vars
<1>10. QED
  BY <1>1, <1>2, <1>3, <1>4, <1>5, <1>6, <1>7, <1>8, <1>9 DEF Next, Closed

\* No entry of the stack is a read-only value.
LEMMA NothingReadOnlyStacked ==
  ASSUME OwnInv
  PROVE  \A o \in rte.live : rte.ro[o] =>
           \A i \in DOMAIN rte.stack : rte.stack[i].obj # o
<1>1. Sound(rte) \/ rte.live = {}
  BY DEF OwnInv, Owned, Nothing
<1>2. RteTypeOK(rte)
  BY DEF OwnInv, TypeInv, TypeOK
<1>3. SUFFICES ASSUME NEW o \in rte.live, rte.ro[o], NEW i \in DOMAIN rte.stack,
                      rte.stack[i].obj = o
               PROVE  FALSE
  OBVIOUS
<1>4. o \in Tabled(rte) /\ Tabled(rte) \cap Stacked(rte) = {}
  BY <1>1, <1>3 DEF Sound
<1>5. o # NoObj
  BY <1>2, <1>3, NullIsFree DEF RteTypeOK
<1>6. o \in Stacked(rte)
  BY <1>3, <1>5 DEF Stacked
<1>7. QED
  BY <1>4, <1>6

Kept ==
  \A o \in rte.live :
    /\ rte.ro[o]
    /\ \/ o \in Tabled(rte) /\ o \in Tabled(rte')
       \/ \E i \in DOMAIN rte.stack \cap DOMAIN rte'.stack :
            rte.stack[i].obj = o /\ rte'.stack[i].obj = o
    => rte'.val[o] = rte.val[o]

(***************************************************************************)
(* No value that the table goes on to hold changes under the operations of *)
(* other names, although operators overwrite their operands: what an       *)
(* operator overwrites is a result that nobody else owns.                  *)
(***************************************************************************)
THEOREM ReadOnlyKeptCorrect ==
  ASSUME NoNamesConverted
  PROVE  Spec => ReadOnlyKept
<1>1. Spec => Init /\ [][Next]_vars
  BY DEF Spec
<1>2. OwnInv /\ Deferral /\ [Next]_vars => OwnInv' /\ Deferral'
  BY NextOwnInv, NextDeferral DEF OwnInv
<1>3. OwnInv /\ Deferral /\ [Next]_vars => [Kept]_vars
  BY NextKeepsCells, NothingReadOnlyStacked DEF Kept
<1>4. Init => OwnInv /\ Deferral
  BY InitOwnInv, InitDeferral
<1>5. Kept <=> (\A o \in rte.live :
                  /\ rte.ro[o]
                  /\ \/ o \in Tabled(rte) /\ o \in Tabled(rte')
                     \/ \E i \in DOMAIN rte.stack \cap DOMAIN rte'.stack :
                          rte.stack[i].obj = o /\ rte'.stack[i].obj = o
                  => rte'.val[o] = rte.val[o])
  BY DEF Kept
<1>6. Spec => [][Kept]_vars
  BY <1>1, <1>2, <1>3, <1>4, PTL
<1>7. QED
  BY <1>6 DEF ReadOnlyKept, Kept

\* Nothing goes wrong but with a cached graph, and that not without option m.
FaultInv ==
  /\ rte.faults \subseteq GraphFaults
  /\ NoGraphs => NoCache(rte) /\ rte.faults = {}

OnlyGraphFaults == rte.faults \subseteq GraphFaults

\* A run starts without a fault.
LEMMA InitFaultInv == Init => FaultInv
  BY DEF Init, FaultInv, EmptyRte, NoCache

\* What is quiet keeps the invariant.
LEMMA QuietFaultInv ==
  ASSUME FaultInv, Quiet(rte, rte')
  PROVE  FaultInv'
  BY DEF FaultInv, Quiet, NoCache, NoGraphs, GraphFaults

\* No step makes a fault of another kind.
LEMMA NextFaultInv ==
  ASSUME NoNamesConverted, NoOperandTwice, NoSelfAssignment,
         OwnInv, Deferral, FaultInv, [Next]_vars
  PROVE  FaultInv'
<1>1. CASE VisitPar \/ VisitNumber
  BY <1>1, VisitStackQuiet, QuietFaultInv
<1>2. CASE VisitExpr
  BY <1>2, VisitExprQuiet DEF FaultInv, Quiet, NoCache, NoGraphs, GraphFaults
<1>3. CASE ThrowDomainError
  BY <1>3, ThrowQuiet DEF FaultInv, NoCache, NoGraphs, GraphFaults
<1>4. CASE DeferTimeoutput \/ VisitStat \/ VisitNonAssExpr \/ VisitBlockEntrance
  <2>1. rte' = rte
    BY <1>4 DEF DeferTimeoutput, VisitStat, VisitNonAssExpr, VisitBlockEntrance
  <2>2. QED
    BY <2>1, QuietFaultInv DEF Quiet
<1>5. CASE VisitAss
  BY <1>5, VisitAssQuiet, QuietFaultInv
<1>6. CASE AssignOutTss
  BY <1>6, AssignOutTssQuiet, QuietFaultInv
<1>7. CASE JumpOutDynamicSection \/ JumpOutRepeatUntil \/ JumpOutCode
  BY <1>7, JumpQuiet, QuietFaultInv
<1>8. CASE Destroy
  <2>1. RteTypeOK(rte) /\ (Sound(rte) \/ Nothing(rte))
    BY DEF OwnInv, TypeInv, TypeOK, Owned
  <2>2. rte' = CleanOnException(rte)
    BY <1>8 DEF Destroy, CleanOnException
  <2>3. rte'.faults = rte.faults /\ NoCache(rte')
    BY <2>1, <2>2, CleanQuiet
  <2>4. QED
    BY <2>3 DEF FaultInv, NoCache, NoGraphs, GraphFaults
<1>9. CASE UNCHANGED vars
  BY <1>9, QuietFaultInv DEF vars, Quiet
<1>10. QED
  BY <1>1, <1>2, <1>3, <1>4, <1>5, <1>6, <1>7, <1>8, <1>9 DEF Next, Closed

(***************************************************************************)
(* No value is deleted twice or used after it was deleted.  A graph may be *)
(* deleted twice: the run cached_graph_twice shows when.                   *)
(***************************************************************************)
THEOREM OnlyGraphFaultsCorrect ==
  ASSUME NoNamesConverted, NoOperandTwice, NoSelfAssignment
  PROVE  Spec => []OnlyGraphFaults
<1>1. Spec => Init /\ [][Next]_vars
  BY DEF Spec
<1> DEFINE I == OwnInv /\ Deferral /\ FaultInv
<1>2. I /\ [Next]_vars => I'
  BY NextOwnInv, NextDeferral, NextFaultInv DEF OwnInv
<1>3. I => OnlyGraphFaults
  BY DEF FaultInv, OnlyGraphFaults
<1>4. Init => I
  BY InitOwnInv, InitDeferral, InitFaultInv
<1>5. QED
  BY <1>1, <1>2, <1>3, <1>4, PTL

(***************************************************************************)
(* No value and no graph is deleted twice, used after it was deleted, or   *)
(* freed through two owners, where no graph is cached.                     *)
(***************************************************************************)
THEOREM NoFaultsCorrect ==
  ASSUME NoNamesConverted, NoOperandTwice, NoSelfAssignment, NoGraphs
  PROVE  Spec => []NoFaults
<1>1. Spec => Init /\ [][Next]_vars
  BY DEF Spec
<1> DEFINE I == OwnInv /\ Deferral /\ FaultInv
<1>2. I /\ [Next]_vars => I'
  BY NextOwnInv, NextDeferral, NextFaultInv DEF OwnInv
<1>3. I => NoFaults
  BY DEF FaultInv, NoFaults
<1>4. Init => I
  BY InitOwnInv, InitDeferral, InitFaultInv
<1>5. QED
  BY <1>1, <1>2, <1>3, <1>4, PTL
================================================================================
